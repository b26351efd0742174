---------------------------- MODULE Flash_proofs ----------------------------
(***************************************************************************)
(* For any geometry, writes and masks, and whichever transactions fail:    *)
(* only cells that a call is about ever change, no status bit is set that  *)
(* could lock the chip, no call commands a busy chip unless a poll of its  *)
(* job failed, and a call in which nothing failed does what it is for.     *)
(***************************************************************************)
EXTENDS Flash, SequenceTheorems, TLAPS

Bits == {"QE"} \cup UNION {m.bits : m \in Masks}
(* The opcodes that make the chip busy, and the others. *)
Starting ==
  {"PAGE_PROGRAM", "SECTOR_ERASE_4K", "BLOCK_ERASE_32K", "BLOCK_ERASE_64K", "CHIP_ERASE",
   "WRITE_SR1", "WRITE_SR2", "WRITE_SR3"}

Opcodes ==
  Starting \cup {"WRITE_ENABLE", "WRITE_ENABLE_VSR", "WRITE_DISABLE", "ENABLE_RESET", "RESET_DEVICE",
               "PWR_DOWN", "REL_PWR_DOWN", "READ_DATA"}

Order == [opcode : Opcodes, addr : Nat, data : Seq(BOOLEAN \cup SUBSET Bits)]
Latches == {"wel", "vsr", "busy", "job", "armed", "asleep", "sr"}

IsChip(ch) ==
  /\ DOMAIN ch = Latches /\ ch = [f \in Latches |-> ch[f]]
  /\ ch.wel \in BOOLEAN /\ ch.vsr \in BOOLEAN /\ ch.busy \in BOOLEAN
  /\ ch.armed \in BOOLEAN /\ ch.asleep \in BOOLEAN
  /\ ch.sr \in [1 .. 3 -> SUBSET Bits]

Typed ==
  /\ Cells \subseteq DOMAIN mem /\ IsChip(chip) /\ blind \in BOOLEAN
  /\ pc \in {"off", "send", "poll", "id", "ready"}
  /\ todo \in Seq(Order) /\ address \in Nat
  /\ w \in [addr : Nat, data : Seq(BOOLEAN)] /\ left \in Seq(BOOLEAN)

(* The chip's job is the one its owner's call asked for. *)
Owned(ch, own) ==
  /\ ch.asleep => ~ch.busy
  /\ ~ch.busy => ch.job = NoJob
  /\ DOMAIN ch.job \subseteq own

Waits ==
  pc = "ready" \/ (pc = "send" /\ op # "init") => (chip.busy => blind)

(* A command that writes a register never sets a bit that must stay clear. *)
Clean(c) ==
  Register(c) # 0 /\ c.data # << >> =>
    c.data[1] \in SUBSET Bits /\ c.data[1] \cap NeverSet[Register(c)] = {}

(* A command that starts a job is about what its call is about. *)
Confined(c) ==
  /\ c.opcode = "PAGE_PROGRAM" =>
       /\ op = "prog"
       /\ w.addr <= c.addr /\ c.addr + Len(c.data) <= w.addr + Len(w.data)
       /\ c.addr + Len(c.data) <= PageBoundary(c.addr)
  /\ c.opcode = "SECTOR_ERASE_4K" => op = "sector_erase_4k" /\ c.addr = address
  /\ c.opcode = "BLOCK_ERASE_32K" => op = "block_erase_32k" /\ c.addr = address
  /\ c.opcode = "BLOCK_ERASE_64K" => op = "block_erase_64k" /\ c.addr = address
  /\ c.opcode = "CHIP_ERASE" => op = "chip_erase"

(* Only the last transaction of a call that polls makes the chip busy. *)
Planned ==
  pc = "send" =>
    /\ todo # << >>
    /\ \A i \in 1 .. Len(todo) :
         /\ Clean(todo[i]) /\ Confined(todo[i])
         /\ todo[i].opcode \in Starting => i = Len(todo) /\ op \in Polled

Remaining ==
  op = "prog" /\ pc \in {"send", "poll"} =>
    w.addr <= address /\ address + Len(left) = w.addr + Len(w.data)

IInv == Typed /\ Owned(chip, owner) /\ Waits /\ NeverLocked /\ Planned /\ Remaining

-----------------------------------------------------------------------------
(* BusesAlike: the chip sees the same of a transaction that fails on       *)
(* either bus, so what holds over one holds over the other.                *)
LEMMA BusesAlike ==
  ASSUME NEW c, c.data \in Seq(BOOLEAN)
  PROVE  spi_bus_write(c) = qspi_bus_write(c) /\ spi_bus_read(c) = qspi_bus_read(c)
<1>1. CASE c.data = << >>
  <2>1. 0 .. Len(c.data) = {0}
    BY <1>1, LenProperties
  <2>2. QED
    BY <1>1, <2>1 DEF spi_bus_write, qspi_bus_write, spi_bus_read, qspi_bus_read
<1>2. CASE c.data # << >>
  BY <1>2 DEF spi_bus_write, qspi_bus_write, spi_bus_read, qspi_bus_read
<1>3. QED
  BY <1>1, <1>2

(* What the chip may see of a command. *)
Part(x, c) ==
  /\ x \in Order /\ x.opcode = c.opcode /\ x.addr = c.addr
  /\ Len(x.data) <= Len(c.data)
  /\ \A i \in 1 .. Len(x.data) : x.data[i] = c.data[i]

LEMMA SeenIsPart ==
  ASSUME NEW c \in Order, NEW s \in Seen(c), NEW x \in s.cmds
  PROVE  Part(x, c)
<1>1. c.data \in Seq(BOOLEAN \cup SUBSET Bits) /\ Len(c.data) \in Nat
  BY LenProperties DEF Order
<1>2. CASE x = c
  BY <1>1, <1>2 DEF Part
<1>3. ASSUME NEW k \in 0 .. Len(c.data), x = [c EXCEPT !.data = SubSeq(c.data, 1, k)]
      PROVE  Part(x, c)
  <2> DEFINE d == SubSeq(c.data, 1, k)
  <2>1. d \in Seq(BOOLEAN \cup SUBSET Bits) /\ Len(d) = k /\ \A i \in 1 .. k : d[i] = c.data[i]
    BY <1>1, <1>3, SubSeqProperties
  <2> HIDE DEF d
  <2>2. x = [c EXCEPT !.data = d]
    BY <1>3 DEF d
  <2>3. x \in Order /\ x.opcode = c.opcode /\ x.addr = c.addr /\ x.data = d
    BY <2>1, <2>2 DEF Order
  <2>4. QED
    BY <1>1, <2>1, <2>3 DEF Part
<1>4. x = c \/ \E k \in 0 .. Len(c.data) : x = [c EXCEPT !.data = SubSeq(c.data, 1, k)]
  <2>1. s = All(c) \/ s = Nothing \/ \E k \in 0 .. Len(c.data) : s = UpTo(c, k)
    BY <1>1, BusAssumption DEF Seen, Failures, spi_bus_write, spi_bus_read, qspi_bus_write, qspi_bus_read
  <2>2. QED
    BY <2>1 DEF All, Nothing, UpTo
<1>5. QED
  BY <1>2, <1>3, <1>4

(* PartsAreLike: what holds of a command holds of what is seen of it. *)
LEMMA PartsAreLike ==
  ASSUME NEW c \in Order, NEW x, Part(x, c), Clean(c), Confined(c),
         w \in [addr : Nat, data : Seq(BOOLEAN)]
  PROVE  Clean(x) /\ Confined(x)
<1>1. Len(x.data) \in Nat /\ Len(c.data) \in Nat /\ x.addr \in Nat /\ x.addr = c.addr
      /\ x.opcode = c.opcode /\ Len(x.data) <= Len(c.data)
  BY LenProperties DEF Part, Order
<1>2. Clean(x)
  <2>1. Register(x) = Register(c)
    BY <1>1 DEF Register
  <2>2. x.data # << >> => 1 \in 1 .. Len(x.data)
    BY <1>1, EmptySeq, LenProperties DEF Part, Order
  <2>3. x.data # << >> => x.data[1] = c.data[1] /\ c.data # << >>
    BY <1>1, <2>2, EmptySeq DEF Part
  <2>4. QED
    BY <2>1, <2>3 DEF Clean
<1>3. Confined(x)
  <2>1. PageBoundary(x.addr) \in Int /\ w.addr + Len(w.data) \in Int
    <3>1. x.addr % W25Q_PAGE_SIZE \in Int /\ W25Q_PAGE_SIZE \in Int
      BY <1>1, GeometryAssumption
    <3>2. w.addr \in Nat /\ Len(w.data) \in Nat
      BY LenProperties
    <3>3. QED
      BY <1>1, <3>1, <3>2 DEF PageBoundary
  <2>2. \A bound \in Int : c.addr + Len(c.data) <= bound => x.addr + Len(x.data) <= bound
    BY <1>1
  <2>3. QED
    BY <1>1, <2>1, <2>2 DEF Confined
<1>4. QED
  BY <1>2, <1>3

-----------------------------------------------------------------------------
(* WriteEndsInPage: what w25q_write programs at once does not wrap. *)
LEMMA WriteEndsInPage ==
  ASSUME NEW addr \in Nat, NEW bytes \in Seq(BOOLEAN), bytes # << >>
  PROVE  LET n == ThisWrite(addr, bytes, addr + Len(bytes) - 1)
         IN  n \in 1 .. Len(bytes) /\ addr + n <= PageBoundary(addr)
<1>1. Len(bytes) \in Nat /\ Len(bytes) > 0
  BY LenProperties, EmptySeq
<1>2. addr % W25Q_PAGE_SIZE \in 0 .. W25Q_PAGE_SIZE - 1 /\ W25Q_PAGE_SIZE \in Nat
  BY GeometryAssumption
<1>3. PageBoundary(addr) \in Int /\ PageBoundary(addr) - addr >= 1
  BY <1>2 DEF PageBoundary
<1>4. QED
  BY <1>1, <1>3 DEF ThisWrite

(* NoWrap: up to the end of the page a byte goes where it is addressed. *)
LEMMA NoWrap ==
  ASSUME NEW P \in Nat \ {0}, NEW a \in Nat, NEW n \in Nat, a + n <= a - (a % P) + P,
         NEW i \in 1 .. n
  PROVE  a - (a % P) + ((a - (a - (a % P)) + i - 1) % P) = a + i - 1
<1> DEFINE r == a % P
<1>1. r \in 0 .. P - 1
  OBVIOUS
<1> HIDE DEF r
<1>2. a - (a - r) + i - 1 = r + i - 1 /\ r + i - 1 \in 0 .. P - 1
  BY <1>1 DEF r
<1>3. (r + i - 1) % P = r + i - 1
  BY <1>2
<1>4. (a - (a - r) + i - 1) % P = r + i - 1
  BY <1>2, <1>3
<1>5. a - r + ((a - (a - r) + i - 1) % P) = a + i - 1
  BY <1>1, <1>4
<1>6. QED
  BY <1>5 DEF r

(* JobIsAsked: the job of a confined command is about the cells asked for. *)
LEMMA JobIsAsked ==
  ASSUME NEW c \in Order, Confined(c), w \in [addr : Nat, data : Seq(BOOLEAN)]
  PROVE  DOMAIN Job(c) \subseteq Asked
<1>1. CASE c.opcode = "PAGE_PROGRAM"
  <2> DEFINE page == c.addr - (c.addr % W25Q_PAGE_SIZE)
             Target(i) == page + ((c.addr - page + i - 1) % W25Q_PAGE_SIZE)
  <2>1. c.addr \in Nat /\ Len(c.data) \in Nat /\ w.addr \in Nat /\ Len(w.data) \in Nat
    BY LenProperties DEF Order
  <2>2. c.addr % W25Q_PAGE_SIZE \in 0 .. W25Q_PAGE_SIZE - 1 /\ W25Q_PAGE_SIZE \in Nat \ {0}
    BY <2>1, GeometryAssumption
  <2>3. /\ w.addr <= c.addr /\ c.addr + Len(c.data) <= w.addr + Len(w.data)
        /\ c.addr + Len(c.data) <= page + W25Q_PAGE_SIZE
    BY <1>1 DEF Confined, PageBoundary
  <2>4. ASSUME NEW i \in 1 .. Len(c.data)
        PROVE  Target(i) \in w.addr .. w.addr + Len(w.data) - 1
    <3>1. Target(i) = c.addr + i - 1
      BY <2>1, <2>2, <2>3, NoWrap
    <3>2. QED
      BY <2>1, <2>3, <3>1
  <2>5. DOMAIN Job(c) = {Target(i) : i \in 1 .. Len(c.data)}
    BY <1>1 DEF Job, Programmed
  <2>6. Asked = w.addr .. w.addr + Len(w.data) - 1
    BY <1>1 DEF Confined, Asked
  <2>7. QED
    BY <2>4, <2>5, <2>6
<1>2. CASE c.opcode \in {"SECTOR_ERASE_4K", "BLOCK_ERASE_32K", "BLOCK_ERASE_64K", "CHIP_ERASE"}
  BY <1>2 DEF Job, Erased, Confined, Asked
<1>3. CASE c.opcode \notin {"PAGE_PROGRAM", "SECTOR_ERASE_4K", "BLOCK_ERASE_32K", "BLOCK_ERASE_64K",
                            "CHIP_ERASE"}
  <2>1. Job(c) = << >>
    BY <1>3 DEF Job, NoJob
  <2>2. DOMAIN Job(c) = {}
    BY <2>1
  <2>3. QED
    BY <2>2
<1>4. QED
  BY <1>1, <1>2, <1>3

(* ToldIsOrderly: what a command makes of the chip. *)
LEMMA QuietIsChip ==
  ASSUME NEW ch, IsChip(ch)
  PROVE  /\ IsChip(Quiet(ch)) /\ ~Quiet(ch).busy /\ Quiet(ch).job = NoJob
         /\ Quiet(ch).sr = ch.sr /\ Quiet(ch).asleep = ch.asleep
BY DEF IsChip, Latches, Quiet

LEMMA ObeyedIsChip ==
  ASSUME NEW ch, IsChip(ch), ~ch.busy, ch.job = NoJob, NEW c \in Order, Clean(c)
  PROVE  LET t == Obeyed(c, ch)
         IN  /\ IsChip(t)
             /\ t.asleep => t.asleep = ch.asleep \/ ~t.busy
             /\ ~t.busy => t.job = NoJob
             /\ t.busy => t.job \in {NoJob, Job(c)} /\ c.opcode \in Starting
             /\ \A n \in 1 .. 3 : t.sr[n] = ch.sr[n] \/ t.sr[n] \cap NeverSet[n] = {}
<1> DEFINE Fine(t) ==
      /\ IsChip(t)
      /\ t.asleep => t.asleep = ch.asleep \/ ~t.busy
      /\ ~t.busy => t.job = NoJob
      /\ t.busy => t.job \in {NoJob, Job(c)} /\ c.opcode \in Starting
      /\ \A n \in 1 .. 3 : t.sr[n] = ch.sr[n] \/ t.sr[n] \cap NeverSet[n] = {}
<1>1. /\ Fine(ch) /\ Fine([ch EXCEPT !.wel = TRUE]) /\ Fine([ch EXCEPT !.vsr = TRUE])
      /\ Fine([ch EXCEPT !.wel = FALSE]) /\ Fine([ch EXCEPT !.asleep = TRUE])
  BY DEF IsChip, Latches
<1>2. ASSUME Job(c) # NoJob PROVE Fine([ch EXCEPT !.busy = TRUE, !.job = Job(c)])
  <2>1. c.opcode \in Starting
    BY <1>2 DEF Job, Starting
  <2>2. QED
    BY <2>1 DEF IsChip, Latches
<1>3. ASSUME Register(c) # 0, c.data # << >>
      PROVE  Fine([ch EXCEPT !.busy = TRUE, !.sr[Register(c)] = c.data[1]])
  <2> DEFINE r == Register(c)
             v == c.data[1]
             t == [ch EXCEPT !.busy = TRUE, !.sr[r] = v]
  <2>1. c.opcode \in Starting /\ r \in 1 .. 3
    BY <1>3 DEF Register, Starting
  <2>2. v \in SUBSET Bits /\ v \cap NeverSet[r] = {}
    BY <1>3 DEF Clean
  <2> HIDE DEF r, v
  <2>3. /\ DOMAIN t = Latches /\ t = [f \in Latches |-> t[f]]
        /\ t.wel = ch.wel /\ t.vsr = ch.vsr /\ t.armed = ch.armed /\ t.asleep = ch.asleep
        /\ t.busy = TRUE /\ t.job = ch.job /\ t.sr = [ch.sr EXCEPT ![r] = v]
    BY DEF IsChip, Latches
  <2> HIDE DEF t
  <2>4. t.sr \in [1 .. 3 -> SUBSET Bits]
        /\ \A n \in 1 .. 3 : t.sr[n] = ch.sr[n] \/ t.sr[n] \cap NeverSet[n] = {}
    BY <2>1, <2>2, <2>3 DEF IsChip
  <2>5. IsChip(t)
    BY <2>3, <2>4 DEF IsChip
  <2>6. Fine(t)
    BY <2>1, <2>3, <2>4, <2>5
  <2>7. QED
    BY <2>6 DEF t, r, v
<1> HIDE DEF Fine
<1>4. Fine(Obeyed(c, ch))
  BY <1>1, <1>2, <1>3 DEF Obeyed
<1>5. QED
  BY <1>4 DEF Fine

(* ToldIsOrderly: the same, whatever state the chip is in. *)
LEMMA ToldIsOrderly ==
  ASSUME IsChip(chip), Owned(chip, owner), NEW c \in Order, Clean(c)
  PROVE  LET t == Told(c)
         IN  /\ IsChip(t)
             /\ t.asleep => ~t.busy
             /\ ~t.busy => t.job = NoJob
             /\ t.busy /\ chip.busy => t.job = chip.job
             /\ t.busy /\ ~chip.busy => t.job \in {NoJob, Job(c)} /\ c.opcode \in Starting
             /\ \A n \in 1 .. 3 : t.sr[n] = chip.sr[n] \/ t.sr[n] \cap NeverSet[n] = {}
<1> DEFINE ch == [chip EXCEPT !.armed = FALSE]
           Fine(t) ==
             /\ IsChip(t)
             /\ t.asleep => ~t.busy
             /\ ~t.busy => t.job = NoJob
             /\ t.busy /\ chip.busy => t.job = chip.job
             /\ t.busy /\ ~chip.busy => t.job \in {NoJob, Job(c)} /\ c.opcode \in Starting
             /\ \A n \in 1 .. 3 : t.sr[n] = chip.sr[n] \/ t.sr[n] \cap NeverSet[n] = {}
<1>1. /\ IsChip(ch) /\ ch.busy = chip.busy /\ ch.job = chip.job /\ ch.sr = chip.sr
      /\ ch.asleep = chip.asleep
  BY DEF IsChip, Latches
<1>2. /\ chip.asleep => ~chip.busy
      /\ ~chip.busy => chip.job = NoJob
  BY DEF Owned
<1>3. Fine(ch)
  BY <1>1, <1>2
<1>4. chip.asleep => \A b \in BOOLEAN : Fine([ch EXCEPT !.asleep = b])
  BY <1>1, <1>2 DEF IsChip, Latches
<1>5. Fine([chip EXCEPT !.armed = TRUE])
  BY <1>2 DEF IsChip, Latches
<1>6. Fine(Quiet(chip))
  BY QuietIsChip, <1>2
<1>7. ~chip.asleep /\ ~chip.busy => Fine(Obeyed(c, ch))
  BY <1>1, <1>2, ObeyedIsChip
<1> HIDE DEF Fine, ch
<1>8. Fine(Told(c))
  <2>1. (c.opcode # "REL_PWR_DOWN") \in BOOLEAN
    OBVIOUS
  <2>2. QED
    BY <1>3, <1>4, <1>5, <1>6, <1>7, <2>1 DEF Told, ch
<1>9. QED
  BY <1>8 DEF Fine

-----------------------------------------------------------------------------
LEMMA Initially == Init => IInv
<1> SUFFICES ASSUME Init PROVE IInv
  OBVIOUS
<1> USE DEF Init
<1>1. DOMAIN mem = Cells /\ << >> \in Seq(Order) /\ << >> \in Seq(BOOLEAN)
  BY EmptySeq DEF Erased
<1>2. IsChip(chip)
  BY DEF IsChip, Latches
<1>3. Typed
  BY <1>1, <1>2 DEF Typed, NoWrite
<1>4. Owned(chip, owner)
  BY DEF Owned, NoJob
<1>5. NeverLocked
  BY DEF NeverLocked
<1>6. QED
  BY <1>3, <1>4, <1>5 DEF IInv, Waits, Planned, Remaining

-----------------------------------------------------------------------------
(* What the calls send. *)
Fits(c) == c \in Order /\ Clean(c)

LEMMA PlainFits ==
  ASSUME NEW opcode \in Opcodes, NEW addr \in Nat, opcode \notin {"WRITE_SR1", "WRITE_SR2", "WRITE_SR3"}
  PROVE  Fits(Command(opcode, addr, << >>))
BY EmptySeq DEF Command, Order, Fits, Clean, Register

(* CallKept: a call that starts with commands that fit keeps the invariant. *)
LEMMA CallKept ==
  ASSUME IInv, NEW commands \in Seq(Order), commands # << >>,
         UNCHANGED <<mem, chip, owner, blind>>, pc' = "send", todo' = commands,
         op' # "init" => (chip.busy => blind),
         \A i \in 1 .. Len(commands) :
           /\ Clean(commands[i]) /\ Confined(commands[i])'
           /\ commands[i].opcode \in Starting => i = Len(commands) /\ op' \in Polled,
         address' \in Nat, w' \in [addr : Nat, data : Seq(BOOLEAN)], left' \in Seq(BOOLEAN),
         op' = "prog" => w'.addr <= address' /\ address' + Len(left') = w'.addr + Len(w'.data)
  PROVE  IInv'
<1>1. Typed' /\ Owned(chip, owner)' /\ NeverLocked'
  BY DEF IInv, Typed, Owned, NeverLocked
<1>2. Waits' /\ Remaining'
  BY DEF Waits, Remaining
<1>3. Planned'
  BY DEF Planned
<1>4. QED
  BY <1>1, <1>2, <1>3 DEF IInv

LEMMA SimpleKept ==
  ASSUME IInv, NEW name, name # "prog", NEW commands \in Seq(Order), commands # << >>,
         Simple(name), Send(commands),
         \A i \in 1 .. Len(commands) : commands[i].opcode \notin Starting
  PROVE  IInv'
<1>1. /\ UNCHANGED <<mem, chip, owner, blind>> /\ pc' = "send" /\ todo' = commands /\ op' = name
      /\ op' # "init" => pc = "ready"
      /\ address' = 0 /\ w' = NoWrite /\ left' = << >>
  BY DEF Simple, Begin, Send, At
<1>2. op' # "init" => (chip.busy => blind)
  BY <1>1 DEF IInv, Waits
<1>3. \A i \in 1 .. Len(commands) : Clean(commands[i]) /\ Confined(commands[i])'
  BY DEF Clean, Confined, Register, Starting
<1>4. << >> \in Seq(BOOLEAN) /\ NoWrite \in [addr : Nat, data : Seq(BOOLEAN)]
  BY EmptySeq DEF NoWrite
<1>5. QED
  BY <1>1, <1>2, <1>3, <1>4, CallKept

LEMMA SimpleCalls ==
  ASSUME IInv,
         \/ w25q_init \/ w25q_read \/ w25q_power_down \/ w25_release_power_down
         \/ w25q_disable_write \/ EnableWrite \/ EnableVsrWrite \/ Reset
  PROVE  IInv'
<1> DEFINE Fine(commands) ==
             /\ commands \in Seq(Order) /\ commands # << >>
             /\ \A i \in 1 .. Len(commands) : commands[i].opcode \notin Starting
<1>1. ASSUME NEW opcode \in Opcodes, opcode \notin Starting PROVE Fine(<<Plain(opcode)>>)
  <2>1. Plain(opcode) \in Order /\ Plain(opcode).opcode = opcode
    BY EmptySeq DEF Plain, Command, Order, Opcodes
  <2> HIDE DEF Fine
  <2>2. QED
    BY <1>1, <2>1 DEF Fine
<1>2. Fine(w25q_reset)
  <2>1. /\ Plain("ENABLE_RESET") \in Order /\ Plain("ENABLE_RESET").opcode = "ENABLE_RESET"
        /\ Plain("RESET_DEVICE") \in Order /\ Plain("RESET_DEVICE").opcode = "RESET_DEVICE"
    BY EmptySeq DEF Plain, Command, Order, Opcodes
  <2>2. QED
    BY <2>1 DEF w25q_reset, Starting
<1>3. \A o \in {"READ_DATA", "PWR_DOWN", "REL_PWR_DOWN", "WRITE_DISABLE", "WRITE_ENABLE",
               "WRITE_ENABLE_VSR"} : Fine(<<Plain(o)>>)
  <2> SUFFICES ASSUME NEW o \in {"READ_DATA", "PWR_DOWN", "REL_PWR_DOWN", "WRITE_DISABLE",
                                "WRITE_ENABLE", "WRITE_ENABLE_VSR"}
               PROVE  Fine(<<Plain(o)>>)
    OBVIOUS
  <2>1. o \in Opcodes /\ o \notin Starting
    BY DEF Starting, Opcodes
  <2> HIDE DEF Fine
  <2>2. QED
    BY <2>1, <1>1
<1>4. ASSUME NEW name, name # "prog", NEW commands, Fine(commands), Simple(name), Send(commands)
      PROVE  IInv'
  BY <1>4, SimpleKept
<1> HIDE DEF Fine
<1>5. CASE w25q_init \/ Reset
  BY <1>2, <1>4, <1>5 DEF w25q_init, Reset
<1>6. CASE \/ w25q_read \/ w25q_power_down \/ w25_release_power_down
           \/ w25q_disable_write \/ EnableWrite \/ EnableVsrWrite
  BY <1>3, <1>4, <1>6 DEF w25q_read, w25q_power_down, w25_release_power_down, w25q_disable_write,
     EnableWrite, EnableVsrWrite, w25q_enable_write, w25q_enable_vsr_write
<1>7. QED
  BY <1>5, <1>6

LEMMA EraseCalls ==
  ASSUME IInv,
         erase_flash_region \/ w25q_block_erase_32k \/ w25q_block_erase_64k \/ w25q_chip_erase
  PROVE  IInv'
<1>1. ASSUME NEW name \in Polled, name # "prog", NEW a \in Nat, NEW length, NEW opcode \in Starting,
             opcode \notin {"WRITE_SR1", "WRITE_SR2", "WRITE_SR3"}, NEW commands,
             \/ commands = <<Command(opcode, a, << >>)>>
             \/ commands = <<w25q_enable_write, Command(opcode, a, << >>)>>,
             Erase(name, a, length), Send(commands), name # "init",
             Confined(Command(opcode, a, << >>))'
      PROVE  IInv'
  <2> DEFINE c == Command(opcode, a, << >>)
             e == w25q_enable_write
  <2>1. c \in Order /\ Clean(c)
    <3>1. opcode \in Opcodes
      BY DEF Opcodes
    <3>2. QED
      BY <1>1, <3>1, PlainFits DEF Fits
  <2>2. e \in Order /\ Clean(e) /\ Confined(e)' /\ e.opcode \notin Starting
    <3>1. e.opcode = "WRITE_ENABLE" /\ e \in Order
      BY EmptySeq DEF w25q_enable_write, Plain, Command, Order, Opcodes
    <3> HIDE DEF e
    <3>2. QED
      BY <3>1 DEF Clean, Confined, Starting, Register
  <2>3. /\ UNCHANGED <<mem, chip, owner, blind>> /\ pc' = "send" /\ todo' = commands /\ op' = name
        /\ pc = "ready" /\ address' = a /\ w' = NoWrite /\ left' = << >>
    BY <1>1 DEF Erase, Begin, Send, At
  <2>4. op' # "init" => (chip.busy => blind)
    BY <2>3 DEF IInv, Waits
  <2>5. << >> \in Seq(BOOLEAN) /\ NoWrite \in [addr : Nat, data : Seq(BOOLEAN)]
    BY EmptySeq DEF NoWrite
  <2>6. Confined(c)'
    BY <1>1
  <2>7. commands = <<c>> \/ commands = <<e, c>>
    BY <1>1
  <2> HIDE DEF c, e
  <2> DEFINE Ends(s) == /\ s \in Seq(Order) /\ s # << >>
                       /\ \A i \in 1 .. Len(s) : (i = Len(s) /\ s[i] = c) \/ s[i] = e
  <2>8. Ends(<<c>>) /\ Ends(<<e, c>>)
    BY <2>1, <2>2
  <2>9. Ends(commands)
    BY <2>7, <2>8
  <2>10. \A i \in 1 .. Len(commands) :
           /\ Clean(commands[i]) /\ Confined(commands[i])'
           /\ commands[i].opcode \in Starting => i = Len(commands) /\ op' \in Polled
    BY <1>1, <2>1, <2>2, <2>3, <2>6, <2>9
  <2>11. QED
    BY <1>1, <2>3, <2>4, <2>5, <2>9, <2>10, CallKept
<1>2. CASE w25q_chip_erase
  <2>1. op' = "chip_erase"
    BY <1>2 DEF w25q_chip_erase, Erase, Begin
  <2>2. Confined(Command("CHIP_ERASE", 0, << >>))'
    BY <2>1 DEF Confined, Command
  <2>3. QED
    BY <1>1, <1>2, <2>2 DEF w25q_chip_erase, Polled, Starting, Plain
<1>3. CASE erase_flash_region
  <2>1. PICK block \in 0 .. (Capacity \div W25Q_BLOCK_SIZE) - 1 :
          w25q_sector_erase_4k(block * W25Q_BLOCK_SIZE)
    BY <1>3 DEF erase_flash_region
  <2> DEFINE a == block * W25Q_BLOCK_SIZE
  <2>2. a \in Nat
    BY GeometryAssumption
  <2> HIDE DEF a
  <2>3. /\ Erase("sector_erase_4k", a, W25Q_BLOCK_SIZE)
        /\ Send(<<w25q_enable_write, Command("SECTOR_ERASE_4K", a, << >>)>>)
    BY <2>1 DEF w25q_sector_erase_4k, a
  <2>4. Confined(Command("SECTOR_ERASE_4K", a, << >>))'
    BY <2>3 DEF Confined, Command, Erase, Begin, At
  <2>5. QED
    BY <1>1, <2>2, <2>3, <2>4 DEF Polled, Starting
<1>4. CASE w25q_block_erase_32k
  <2>1. PICK a \in Cells : /\ Erase("block_erase_32k", a, Block32K)
                          /\ Send(<<Command("BLOCK_ERASE_32K", a, << >>)>>)
    BY <1>4 DEF w25q_block_erase_32k
  <2>2. a \in Nat
    BY GeometryAssumption DEF Cells
  <2>3. Confined(Command("BLOCK_ERASE_32K", a, << >>))'
    BY <2>1 DEF Confined, Command, Erase, Begin, At
  <2>4. QED
    BY <1>1, <2>1, <2>2, <2>3 DEF Polled, Starting
<1>5. CASE w25q_block_erase_64k
  <2>1. PICK a \in Cells : /\ Erase("block_erase_64k", a, Block64K)
                          /\ Send(<<Command("BLOCK_ERASE_64K", a, << >>)>>)
    BY <1>5 DEF w25q_block_erase_64k
  <2>2. a \in Nat
    BY GeometryAssumption DEF Cells
  <2>3. Confined(Command("BLOCK_ERASE_64K", a, << >>))'
    BY <2>1 DEF Confined, Command, Erase, Begin, At
  <2>4. QED
    BY <1>1, <2>1, <2>2, <2>3 DEF Polled, Starting
<1>6. QED
  BY <1>2, <1>3, <1>4, <1>5

(* RegisterCalls: what is written to a register has its bits kept clear. *)
LEMMA ChangeKept ==
  ASSUME IInv, NEW e \in {w25q_enable_write, w25q_enable_vsr_write}, NEW n \in 1 .. 3,
         NEW state \in BOOLEAN, NEW bits \in SUBSET Bits, ChangeSr(e, n, state, bits)
  PROVE  IInv'
<1>1. e \in Order /\ Clean(e) /\ Confined(e)' /\ e.opcode \notin Starting
  <2>1. e.opcode \in {"WRITE_ENABLE", "WRITE_ENABLE_VSR"} /\ e \in Order
    <3>1. CASE e = w25q_enable_write
      BY <3>1, EmptySeq DEF w25q_enable_write, Plain, Command, Order, Opcodes
    <3>2. CASE e = w25q_enable_vsr_write
      BY <3>2, EmptySeq DEF w25q_enable_vsr_write, Plain, Command, Order, Opcodes
    <3>3. QED
      BY <3>1, <3>2
  <2>2. QED
    BY <2>1 DEF Clean, Confined, Starting, Register
<1>2. PICK v : /\ v \in SUBSET Bits /\ v \cap NeverSet[n] = {}
               /\ todo' = <<e, Command(WriteSr[n], 0, <<v>>)>>
  <2>1. PICK ok \in {TRUE, ~Faults} :
          LET old == IF ok THEN chip.sr[n] ELSE {}
          IN  todo' = <<e, Command(WriteSr[n], 0, <<NewValue(n, old, state, bits)>>)>>
    BY DEF ChangeSr, Send
  <2> DEFINE old == IF ok THEN chip.sr[n] ELSE {}
  <2>2. old \in SUBSET Bits
    BY DEF IInv, Typed, IsChip
  <2> HIDE DEF old
  <2>3. /\ NewValue(n, old, state, bits) \in SUBSET Bits
        /\ NewValue(n, old, state, bits) \cap NeverSet[n] = {}
    BY <2>2 DEF NewValue
  <2>4. todo' = <<e, Command(WriteSr[n], 0, <<NewValue(n, old, state, bits)>>)>>
    BY <2>1 DEF old
  <2>5. QED
    BY <2>3, <2>4
<1> DEFINE c == Command(WriteSr[n], 0, <<v>>)
<1>3. /\ c.opcode \in {"WRITE_SR1", "WRITE_SR2", "WRITE_SR3"} /\ c.addr = 0
      /\ c.data = <<v>> /\ c.data[1] = v /\ Register(c) = n
  BY DEF Command, WriteSr, Register
<1>4. c \in Order
  <2>1. <<v>> \in Seq(BOOLEAN \cup SUBSET Bits)
    BY <1>2
  <2>2. QED
    BY <1>3, <2>1 DEF Command, Order, Opcodes, Starting
<1> HIDE DEF c
<1>5. Clean(c) /\ Confined(c)'
  BY <1>2, <1>3 DEF Clean, Confined
<1>6. todo' = <<e, c>>
  BY <1>2 DEF c
<1>7. /\ UNCHANGED <<mem, chip, owner, blind>> /\ pc' = "send" /\ op' = "write_SR"
      /\ pc = "ready" /\ address' = 0 /\ w' = NoWrite /\ left' = << >>
  BY DEF ChangeSr, Begin, Send, At
<1>8. op' # "init" => (chip.busy => blind)
  BY <1>7 DEF IInv, Waits
<1>9. << >> \in Seq(BOOLEAN) /\ NoWrite \in [addr : Nat, data : Seq(BOOLEAN)]
  BY EmptySeq DEF NoWrite
<1>10. <<e, c>> \in Seq(Order) /\ <<e, c>> # << >>
       /\ \A i \in 1 .. Len(<<e, c>>) : (i = Len(<<e, c>>) /\ <<e, c>>[i] = c) \/ <<e, c>>[i] = e
  BY <1>1, <1>4
<1> DEFINE s == <<e, c>>
<1> HIDE DEF s
<1>11. /\ s \in Seq(Order) /\ s # << >> /\ todo' = s
       /\ \A i \in 1 .. Len(s) :
            /\ Clean(s[i]) /\ Confined(s[i])'
            /\ s[i].opcode \in Starting => i = Len(s) /\ op' \in Polled
  BY <1>1, <1>5, <1>6, <1>7, <1>10 DEF Polled, s
<1>12. QED
  BY <1>7, <1>8, <1>9, <1>11, CallKept

LEMMA RegisterCalls ==
  ASSUME IInv, w25q_write_SR \/ w25q_enable_qspi \/ w25q_disable_qspi
  PROVE  IInv'
<1>1. CASE w25q_write_SR
  <2>1. PICK m \in Masks, state \in BOOLEAN : ChangeSr(w25q_enable_vsr_write, m.n, state, m.bits)
    BY <1>1 DEF w25q_write_SR
  <2>2. m.n \in 1 .. 3 /\ m.bits \in SUBSET Bits
    BY MasksAssumption DEF Bits
  <2>3. QED
    BY <2>1, <2>2, ChangeKept
<1>2. CASE w25q_enable_qspi \/ w25q_disable_qspi
  <2>1. {"QE"} \in SUBSET Bits /\ 2 \in 1 .. 3
    BY DEF Bits
  <2>2. PICK state \in BOOLEAN : ChangeSr(w25q_enable_write, 2, state, {"QE"})
    BY <1>2 DEF w25q_enable_qspi, w25q_disable_qspi
  <2>3. QED
    BY <2>1, <2>2, ChangeKept
<1>3. QED
  BY <1>1, <1>2

(* PageKept: one turn of the loop of w25q_write. *)
LEMMA PageKept ==
  ASSUME IInv, NEW addr \in Nat, NEW bytes \in Seq(BOOLEAN), bytes # << >>,
         NEW written, NextPage(addr, bytes, addr + Len(bytes) - 1, written),
         UNCHANGED <<mem, chip, owner>>, op' = "prog",
         (chip.busy => blind'), blind' \in BOOLEAN,
         w' \in [addr : Nat, data : Seq(BOOLEAN)],
         w'.addr <= addr, addr + Len(bytes) = w'.addr + Len(w'.data)
  PROVE  IInv'
<1> DEFINE n == ThisWrite(addr, bytes, addr + Len(bytes) - 1)
           now == SubSeq(bytes, 1, n)
           later == SubSeq(bytes, n + 1, Len(bytes))
           e == w25q_enable_write
           c == Command("PAGE_PROGRAM", addr, now)
           s == <<e, c>>
<1>1. n \in 1 .. Len(bytes) /\ addr + n <= PageBoundary(addr)
  BY WriteEndsInPage
<1>2. /\ pc' = "send" /\ todo' = s /\ address' = addr + n /\ left' = later
  BY DEF NextPage, Send
<1> HIDE DEF n
<1>3. Len(bytes) \in Nat
  BY LenProperties
<1>4. now \in Seq(BOOLEAN) /\ Len(now) = n
  BY <1>1, <1>3, SubSeqProperties
<1>5. later \in Seq(BOOLEAN) /\ Len(later) = Len(bytes) - n
  BY <1>1, <1>3, SubSeqProperties
<1> HIDE DEF now, later
<1>6. c.opcode = "PAGE_PROGRAM" /\ c.addr = addr /\ c.data = now
  BY DEF Command
<1>7. c \in Order
  <2>1. now \in Seq(BOOLEAN \cup SUBSET Bits)
    BY <1>4
  <2>2. QED
    BY <2>1 DEF Command, Order, Opcodes, Starting
<1> HIDE DEF c
<1>8. e.opcode = "WRITE_ENABLE" /\ e \in Order
  BY EmptySeq DEF w25q_enable_write, Plain, Command, Order, Opcodes
<1> HIDE DEF e
<1>9. Clean(e) /\ Confined(e)' /\ e.opcode \notin Starting
  BY <1>8 DEF Clean, Confined, Starting, Register
<1>10. Clean(c) /\ Confined(c)'
  <2>1. Register(c) = 0
    BY <1>6 DEF Register
  <2>2. w'.addr <= c.addr /\ c.addr + Len(c.data) <= w'.addr + Len(w'.data)
        /\ c.addr + Len(c.data) <= PageBoundary(c.addr)
    <3>1. Len(w'.data) \in Nat /\ w'.addr \in Nat
      BY LenProperties
    <3>2. c.addr + Len(c.data) = addr + n
      BY <1>4, <1>6
    <3>3. addr + n <= addr + Len(bytes)
      BY <1>1, <1>3
    <3>4. PageBoundary(c.addr) = PageBoundary(addr)
      BY <1>6
    <3>5. w'.addr <= c.addr
      BY <1>6
    <3>6. QED
      BY <1>1, <3>2, <3>3, <3>4, <3>5
  <2>3. QED
    BY <1>6, <2>1, <2>2 DEF Clean, Confined
<1>11. s \in Seq(Order) /\ s # << >> /\ (\A i \in 1 .. Len(s) : (i = Len(s) /\ s[i] = c) \/ s[i] = e)
  BY <1>7, <1>8
<1> HIDE DEF s
<1>12. Planned'
  BY <1>2, <1>9, <1>10, <1>11 DEF Planned, Polled
<1>13. address' \in Nat /\ w'.addr <= address' /\ address' + Len(left') = w'.addr + Len(w'.data)
  <2>1. w'.addr \in Nat /\ Len(w'.data) \in Nat
    BY LenProperties
  <2>2. QED
    BY <1>1, <1>2, <1>3, <1>5, <2>1
<1>14. Typed' /\ Owned(chip, owner)' /\ NeverLocked'
  BY <1>2, <1>5, <1>11, <1>13 DEF IInv, Typed, Owned, NeverLocked
<1>15. Waits' /\ Remaining'
  BY <1>13 DEF Waits, Remaining
<1>16. QED
  BY <1>12, <1>14, <1>15 DEF IInv

LEMMA ProgCall ==
  ASSUME IInv, prog_flash_region
  PROVE  IInv'
<1>1. PICK x \in Writes :
        /\ pc = "ready" /\ op' = "prog" /\ UNCHANGED <<mem, chip, owner, blind>> /\ w' = x
        /\ IF x.data # << >>
           THEN NextPage(x.addr, x.data, x.addr + Len(x.data) - 1, 0)
           ELSE address' = x.addr /\ left' = << >> /\ ret' = 0 /\ UNCHANGED <<pc, todo>>
  BY DEF prog_flash_region, Begin
<1>2. x.addr \in Nat /\ x.data \in Seq(BOOLEAN) /\ x \in [addr : Nat, data : Seq(BOOLEAN)]
  BY WritesAssumption, GeometryAssumption DEF Cells
<1>3. (chip.busy => blind) /\ blind \in BOOLEAN
  BY <1>1 DEF IInv, Waits, Typed
<1>4. CASE x.data # << >>
  BY <1>1, <1>2, <1>3, <1>4, PageKept
<1>5. CASE x.data = << >>
  <2>1. << >> \in Seq(BOOLEAN)
    BY EmptySeq
  <2>2. Typed' /\ Owned(chip, owner)' /\ NeverLocked'
    BY <1>1, <1>2, <1>5, <2>1 DEF IInv, Typed, Owned, NeverLocked
  <2>3. QED
    BY <1>1, <1>3, <1>5, <2>2 DEF IInv, Waits, Planned, Remaining
<1>6. QED
  BY <1>4, <1>5

-----------------------------------------------------------------------------
(* What a step may change of the memory. *)
Stays == \A a \in Cells : mem'[a] # mem[a] => a \in owner

LEMMA AbortStays ==
  ASSUME IInv, Abort
  PROVE  Stays /\ Cells \subseteq DOMAIN mem'
BY DEF Abort, DoneUpTo, Stays, IInv, Owned

(* TransactionKept: whatever the chip has seen of a command. *)
LEMMA TransactionKept ==
  ASSUME IInv, Transaction
  PROVE  IInv' /\ Stays
<1>0. PICK c : c = Head(todo)
  OBVIOUS
<1>1. /\ pc = "send" /\ todo # << >> /\ todo \in Seq(Order) /\ Len(todo) \in Nat
      /\ UNCHANGED <<op, address, w, left, ret>> /\ todo' = Tail(todo)
      /\ pc' = IF Tail(todo) # << >> THEN "send" ELSE IF op \in Polled THEN "poll" ELSE "ready"
      /\ w \in [addr : Nat, data : Seq(BOOLEAN)]
  BY LenProperties DEF Transaction, IInv, Planned, Typed, write
<1>2. /\ c \in Order /\ c = todo[1] /\ Tail(todo) \in Seq(Order)
      /\ Len(todo) >= 1 /\ Len(Tail(todo)) = Len(todo) - 1
      /\ \A i \in 1 .. Len(Tail(todo)) : Tail(todo)[i] = todo[i + 1]
  BY <1>0, <1>1, HeadTailProperties, EmptySeq
<1>3. /\ Clean(c) /\ Confined(c)
      /\ c.opcode \in Starting => Len(todo) = 1 /\ op \in Polled
  <2>1. 1 \in 1 .. Len(todo)
    BY <1>1, <1>2
  <2>2. \A i \in 1 .. Len(todo) :
          /\ Clean(todo[i]) /\ Confined(todo[i])
          /\ todo[i].opcode \in Starting => i = Len(todo) /\ op \in Polled
    BY <1>1 DEF IInv, Planned
  <2>3. /\ Clean(todo[1]) /\ Confined(todo[1])
        /\ todo[1].opcode \in Starting => 1 = Len(todo) /\ op \in Polled
    BY <2>1, <2>2
  <2>4. QED
    BY <1>2, <2>3
<1>4. c.opcode \in Starting => Tail(todo) = << >> /\ pc' = "poll"
  BY <1>1, <1>2, <1>3, EmptySeq
<1>5. Planned'
  <2> SUFFICES ASSUME pc' = "send" PROVE Planned'
    BY DEF Planned
  <2>1. todo' # << >>
    BY <1>1
  <2>2. ASSUME NEW i \in 1 .. Len(todo')
        PROVE  /\ Clean(todo'[i]) /\ Confined(todo[i])'
               /\ todo'[i].opcode \in Starting => i = Len(todo') /\ op' \in Polled
    <3>1. i + 1 \in 1 .. Len(todo) /\ todo'[i] = todo[i + 1] /\ Len(todo') = Len(todo) - 1
      BY <1>1, <1>2
    <3>2. PICK d : d = todo[i + 1]
      OBVIOUS
    <3>3. Clean(d) /\ Confined(d) /\ (d.opcode \in Starting => i + 1 = Len(todo) /\ op \in Polled)
      BY <1>1, <3>1, <3>2 DEF IInv, Planned
    <3>4. Confined(d)'
      BY <1>1, <3>3 DEF Confined
    <3>5. todo'[i] = d /\ (i + 1 = Len(todo) => i = Len(todo')) /\ op' = op
      <4>1. todo'[i] = d /\ op' = op
        BY <1>1, <3>1, <3>2
      <4>2. Len(todo') = Len(todo) - 1 /\ i \in Nat /\ Len(todo) \in Nat
        BY <1>1, <3>1
      <4>3. QED
        BY <4>1, <4>2
    <3>6. Clean(todo'[i]) /\ (todo'[i].opcode \in Starting => i = Len(todo') /\ op' \in Polled)
      BY <3>3, <3>5
    <3>7. Confined(todo[i])'
      BY <3>4, <3>5 DEF Confined
    <3>8. QED
      BY <3>6, <3>7
  <2> DEFINE Good(i) == /\ Clean(todo[i]) /\ Confined(todo[i])
                        /\ todo[i].opcode \in Starting => i = Len(todo) /\ op \in Polled
  <2>3. \A i \in 1 .. Len(todo') : Good(i)'
    BY <2>2
  <2> HIDE DEF Good
  <2>4. (\A i \in 1 .. Len(todo) : Good(i))'
    BY <2>3
  <2>5. QED
    BY <2>1, <2>4 DEF Planned, Good
<1>6. Remaining'
  BY <1>1 DEF IInv, Remaining, Planned
<1>7. PICK s \in Seen(c) :
        \/ s.cmds = {} /\ UNCHANGED <<mem, chip, owner, blind>>
        \/ \E x \in s.cmds :
             /\ chip' = Told(x)
             /\ owner' = IF Told(x).busy = chip.busy THEN owner
                         ELSE IF Told(x).busy THEN Asked ELSE {}
             /\ blind' = (blind /\ Told(x).busy)
             /\ IF chip.busy /\ ~Told(x).busy THEN Abort ELSE UNCHANGED mem
  BY <1>0 DEF Transaction
<1>8. op = "init" => op \in Polled
  BY DEF Polled
<1>9. CASE UNCHANGED <<mem, chip, owner, blind>>
  <2>1. Typed' /\ Owned(chip, owner)' /\ NeverLocked' /\ Stays
    BY <1>1, <1>2, <1>9 DEF IInv, Typed, Owned, NeverLocked, Stays
  <2>2. Waits'
    BY <1>1, <1>8, <1>9 DEF IInv, Waits
  <2>3. QED
    BY <1>5, <1>6, <2>1, <2>2 DEF IInv
<1>10. ASSUME NEW x \in s.cmds,
              chip' = Told(x),
              owner' = IF Told(x).busy = chip.busy THEN owner
                       ELSE IF Told(x).busy THEN Asked ELSE {},
              blind' = (blind /\ Told(x).busy),
              IF chip.busy /\ ~Told(x).busy THEN Abort ELSE UNCHANGED mem
       PROVE  IInv' /\ Stays
  <2> DEFINE t == Told(x)
  <2>1. Part(x, c)
    BY <1>2, SeenIsPart
  <2>2. x \in Order /\ x.opcode = c.opcode /\ Clean(x) /\ Confined(x)
    BY <1>1, <1>2, <1>3, <2>1, PartsAreLike DEF Part
  <2>3. IsChip(chip) /\ Owned(chip, owner)
    BY DEF IInv, Typed
  <2>4. /\ IsChip(t)
        /\ t.asleep => ~t.busy
        /\ ~t.busy => t.job = NoJob
        /\ t.busy /\ chip.busy => t.job = chip.job
        /\ t.busy /\ ~chip.busy => t.job \in {NoJob, Job(x)} /\ x.opcode \in Starting
        /\ \A n \in 1 .. 3 : t.sr[n] = chip.sr[n] \/ t.sr[n] \cap NeverSet[n] = {}
    BY <2>2, <2>3, ToldIsOrderly
  <2>5. DOMAIN NoJob = {} /\ DOMAIN Job(x) \subseteq Asked
    BY <1>1, <2>2, JobIsAsked DEF NoJob
  <2>6. t.busy \in BOOLEAN /\ chip.busy \in BOOLEAN /\ blind \in BOOLEAN
    BY <2>3, <2>4 DEF IsChip, IInv, Typed
  <2> HIDE DEF t
  <2>7. chip' = t /\ blind' = (blind /\ t.busy)
        /\ owner' = IF t.busy = chip.busy THEN owner ELSE IF t.busy THEN Asked ELSE {}
    BY <1>10 DEF t
  <2>8. DOMAIN t.job \subseteq owner'
    <3>1. CASE t.busy /\ chip.busy
      BY <2>3, <2>4, <2>6, <2>7, <3>1 DEF Owned
    <3>2. CASE ~t.busy
      BY <2>4, <2>5, <3>2
    <3>3. CASE t.busy /\ ~chip.busy
      BY <2>4, <2>5, <2>6, <2>7, <3>3
    <3>4. QED
      BY <3>1, <3>2, <3>3
  <2>9. Owned(chip, owner)'
    BY <2>4, <2>7, <2>8 DEF Owned
  <2>10. NeverLocked'
    BY <2>4, <2>7 DEF IInv, NeverLocked
  <2>11. Stays /\ Cells \subseteq DOMAIN mem'
    BY <1>10, AbortStays DEF Stays, IInv, Typed
  <2>12. Typed'
    <3>1. blind' \in BOOLEAN
      BY <2>7
    <3>2. QED
      BY <1>1, <1>2, <2>4, <2>7, <2>11, <3>1 DEF IInv, Typed
  <2>13. Waits'
    <3> SUFFICES ASSUME pc' = "ready" \/ (pc' = "send" /\ op' # "init"), t.busy PROVE blind'
      BY <2>7 DEF Waits
    <3>1. op # "init"
      BY <1>1, <1>8
    <3>2. chip.busy => blind
      BY <1>1, <3>1 DEF IInv, Waits
    <3>3. x.opcode \notin Starting
      BY <1>4, <2>2
    <3>4. QED
      BY <2>4, <2>6, <2>7, <3>2, <3>3
  <2>14. QED
    BY <1>5, <1>6, <2>9, <2>10, <2>11, <2>12, <2>13 DEF IInv
<1>11. QED
  BY <1>7, <1>9, <1>10

-----------------------------------------------------------------------------
(* Stutters: the calls that only send leave the chip alone. *)
LEMMA StillStays ==
  ASSUME UNCHANGED mem
  PROVE  Stays
BY DEF Stays

(* FinishKept: the chip does the rest of its job. *)
LEMMA FinishKept ==
  ASSUME IInv, Finish
  PROVE  IInv' /\ Stays
<1>1. /\ chip.busy /\ mem' = DoneUpTo(Capacity)
      /\ chip' = [Quiet(chip) EXCEPT !.armed = chip.armed]
      /\ owner' = {} /\ blind' = FALSE
      /\ UNCHANGED <<pc, op, todo, address, w, left, ret>>
  BY DEF Finish, write
<1>2. IsChip(chip) /\ DOMAIN chip.job \subseteq owner /\ Cells \subseteq DOMAIN mem
  BY DEF IInv, Typed, Owned
<1>3. /\ IsChip(chip') /\ ~chip'.busy /\ chip'.job = NoJob
      /\ chip'.sr = chip.sr /\ chip'.asleep = chip.asleep
  <2>1. IsChip(Quiet(chip)) /\ ~Quiet(chip).busy /\ Quiet(chip).job = NoJob
        /\ Quiet(chip).sr = chip.sr /\ Quiet(chip).asleep = chip.asleep
    BY <1>2, QuietIsChip
  <2>2. PICK q : q = Quiet(chip)
    OBVIOUS
  <2>3. chip.armed \in BOOLEAN
    BY <1>2 DEF IsChip
  <2>4. QED
    BY <1>1, <2>1, <2>2, <2>3 DEF IsChip, Latches
<1>4. Cells \subseteq DOMAIN mem' /\ Stays
  BY <1>1, <1>2 DEF Stays, DoneUpTo
<1>5. Owned(chip, owner)'
  BY <1>1, <1>3 DEF Owned, NoJob
<1>6. Typed' /\ NeverLocked'
  BY <1>1, <1>3, <1>4 DEF IInv, Typed, NeverLocked
<1>7. Planned' /\ Remaining' /\ Waits'
  BY <1>1, <1>3 DEF IInv, Planned, Confined, Remaining, Waits
<1>8. QED
  BY <1>4, <1>5, <1>6, <1>7 DEF IInv

(* PolledKept: the end of the polling loop, whatever ended it. *)
LEMMA PolledKept ==
  ASSUME IInv, pc = "poll", AfterPoll, blind' \in BOOLEAN, chip.busy => blind'
  PROVE  IInv' /\ Stays
<1>1. UNCHANGED <<mem, chip, op, owner>>
  BY DEF AfterPoll
<1>2. CASE op = "prog" /\ left # << >>
  <2>1. NextPage(address, left, w.addr + Len(w.data) - 1, ret) /\ UNCHANGED w
    BY <1>2 DEF AfterPoll
  <2>2. /\ address \in Nat /\ left \in Seq(BOOLEAN) /\ w \in [addr : Nat, data : Seq(BOOLEAN)]
        /\ w.addr <= address /\ address + Len(left) = w.addr + Len(w.data)
    BY <1>2 DEF IInv, Typed, Remaining
  <2>3. IInv'
    BY <1>1, <1>2, <2>1, <2>2, PageKept
  <2>4. QED
    BY <1>1, <2>3, StillStays
<1>3. CASE ~(op = "prog" /\ left # << >>)
  <2>1. /\ pc' \in {"id", "ready"} /\ address' = 0
        /\ UNCHANGED <<todo, w, left, ret>>
    BY <1>3 DEF AfterPoll
  <2>2. Typed' /\ Owned(chip, owner)' /\ NeverLocked'
    BY <1>1, <2>1 DEF IInv, Typed, Owned, NeverLocked
  <2>3. Waits' /\ Planned' /\ Remaining'
    BY <1>1, <2>1 DEF Waits, Planned, Remaining
  <2>4. QED
    BY <1>1, <2>2, <2>3, StillStays DEF IInv
<1>4. QED
  BY <1>2, <1>3

LEMMA PollsKept ==
  ASSUME IInv, PollIdle \/ PollFails \/ PollAsleep
  PROVE  IInv' /\ Stays
<1>1. pc = "poll" /\ AfterPoll
  BY DEF PollIdle, PollFails, PollAsleep
<1>2. blind \in BOOLEAN /\ chip.busy \in BOOLEAN /\ (chip.asleep => ~chip.busy)
  BY DEF IInv, Typed, Owned, IsChip
<1>3. blind' \in BOOLEAN /\ (chip.busy => blind')
  BY <1>2 DEF PollIdle, PollFails, PollAsleep
<1>4. QED
  BY <1>1, <1>3, PolledKept

(* StopsKept: the answer to w25q_init, and the restarts. *)
LEMMA StopsKept ==
  ASSUME IInv, CheckId \/ Restart \/ PowerLoss
  PROVE  IInv' /\ Stays
<1>1. CASE CheckId
  <2>1. /\ UNCHANGED <<mem, chip, op, todo, address, w, left, ret, owner, blind>>
        /\ (pc' = "ready" /\ ~chip.busy) \/ pc' = "off"
    BY <1>1 DEF CheckId, write
  <2>2. Typed' /\ Owned(chip, owner)' /\ NeverLocked'
    BY <2>1 DEF IInv, Typed, Owned, NeverLocked
  <2>3. Waits' /\ Planned' /\ Remaining'
    BY <2>1 DEF Waits, Planned, Remaining
  <2>4. QED
    BY <2>1, <2>2, <2>3, StillStays DEF IInv
<1>2. ASSUME Off, IsChip(chip'), Owned(chip, owner)', blind' \in BOOLEAN, Cells \subseteq DOMAIN mem',
             chip'.sr = chip.sr
      PROVE  IInv'
  <2>1. /\ pc' = "off" /\ todo' = << >> /\ address' = 0 /\ w' = NoWrite /\ left' = << >>
    BY <1>2 DEF Off, At
  <2>2. << >> \in Seq(Order) /\ << >> \in Seq(BOOLEAN) /\ NoWrite \in [addr : Nat, data : Seq(BOOLEAN)]
    BY EmptySeq DEF NoWrite
  <2>3. Typed' /\ NeverLocked'
    BY <1>2, <2>1, <2>2 DEF IInv, Typed, NeverLocked
  <2>4. QED
    BY <1>2, <2>1, <2>3 DEF IInv, Waits, Planned, Remaining
<1>3. CASE Restart
  <2>1. Off /\ UNCHANGED <<mem, chip, owner, blind>>
    BY <1>3 DEF Restart
  <2>2. IsChip(chip') /\ Owned(chip, owner)' /\ blind' \in BOOLEAN /\ Cells \subseteq DOMAIN mem'
        /\ chip'.sr = chip.sr
    BY <2>1 DEF IInv, Typed, Owned
  <2>3. QED
    BY <1>2, <2>1, <2>2, StillStays
<1>4. CASE PowerLoss
  <2>1. /\ Off /\ Abort /\ chip' = [Quiet(chip) EXCEPT !.asleep = FALSE]
        /\ owner' = {} /\ blind' = FALSE
    BY <1>4 DEF PowerLoss
  <2>2. IsChip(Quiet(chip)) /\ ~Quiet(chip).busy /\ Quiet(chip).job = NoJob
        /\ Quiet(chip).sr = chip.sr
    BY QuietIsChip DEF IInv, Typed
  <2>3. PICK q : q = Quiet(chip)
    OBVIOUS
  <2>4. IsChip(chip') /\ ~chip'.busy /\ chip'.job = NoJob /\ chip'.sr = chip.sr
    BY <2>1, <2>2, <2>3 DEF IsChip, Latches
  <2>5. Owned(chip, owner)'
    BY <2>1, <2>4 DEF Owned, NoJob
  <2>6. QED
    BY <1>2, <2>1, <2>4, <2>5, AbortStays
<1>5. QED
  BY <1>1, <1>3, <1>4

-----------------------------------------------------------------------------
(* EveryStep: the invariant is inductive, and no step touches a foreign cell. *)
LEMMA EveryStep ==
  IInv /\ [Next]_vars => IInv' /\ Stays
<1> SUFFICES ASSUME IInv, [Next]_vars PROVE IInv' /\ Stays
  OBVIOUS
<1>1. CASE Finish
  BY <1>1, FinishKept
<1>2. CASE Transaction
  BY <1>2, TransactionKept
<1>3. CASE \/ w25q_init \/ w25q_read \/ w25q_power_down \/ w25_release_power_down
           \/ w25q_disable_write \/ EnableWrite \/ EnableVsrWrite \/ Reset
  <2>1. UNCHANGED mem
    BY <1>3 DEF w25q_init, w25q_read, w25q_power_down, w25_release_power_down, w25q_disable_write,
       EnableWrite, EnableVsrWrite, Reset, Simple, Begin
  <2>2. QED
    BY <1>3, <2>1, SimpleCalls, StillStays
<1>4. CASE erase_flash_region \/ w25q_block_erase_32k \/ w25q_block_erase_64k \/ w25q_chip_erase
  <2>1. UNCHANGED mem
    BY <1>4 DEF erase_flash_region, w25q_sector_erase_4k, w25q_block_erase_32k, w25q_block_erase_64k,
       w25q_chip_erase, Erase, Begin
  <2>2. QED
    BY <1>4, <2>1, EraseCalls, StillStays
<1>5. CASE w25q_write_SR \/ w25q_enable_qspi \/ w25q_disable_qspi
  <2>1. UNCHANGED mem
    BY <1>5 DEF w25q_write_SR, w25q_enable_qspi, w25q_disable_qspi, ChangeSr, Begin
  <2>2. QED
    BY <1>5, <2>1, RegisterCalls, StillStays
<1>6. CASE prog_flash_region
  <2>1. UNCHANGED mem
    BY <1>6 DEF prog_flash_region, Begin
  <2>2. QED
    BY <1>6, <2>1, ProgCall, StillStays
<1>7. CASE PollIdle \/ PollFails \/ PollAsleep
  BY <1>7, PollsKept
<1>8. CASE CheckId \/ Restart \/ PowerLoss
  BY <1>8, StopsKept
<1>9. CASE UNCHANGED vars
  <2>1. UNCHANGED <<mem, chip, pc, op, todo, address, w, left, owner, blind>>
    BY <1>9 DEF vars, write
  <2>2. Typed' /\ Owned(chip, owner)' /\ NeverLocked'
    BY <2>1 DEF IInv, Typed, Owned, NeverLocked
  <2>3. Waits' /\ Remaining'
    BY <2>1 DEF IInv, Waits, Remaining
  <2>4. Planned'
    BY <2>1 DEF IInv, Planned, Confined
  <2>5. QED
    BY <2>1, <2>2, <2>3, <2>4, StillStays DEF IInv
<1>10. QED
  BY <1>1, <1>2, <1>3, <1>4, <1>5, <1>6, <1>7, <1>8, <1>9 DEF Next

LEMMA Invariant == Spec => []IInv
<1>1. IInv /\ [Next]_vars => IInv'
  BY EveryStep
<1>2. QED
  BY <1>1, Initially, PTL DEF Spec

(* StaysUnlocked (w25q_write_SR1 to _SR3, w25q_enable_qspi): no sequence of *)
(* calls, failures and restarts sets a bit that must never be set.          *)
THEOREM StaysUnlocked == Spec => []NeverLocked
<1>1. IInv => NeverLocked
  BY DEF IInv
<1>2. QED
  BY <1>1, Invariant, PTL

(* CommandsWait (every while(w25q_busy()) loop): what is sent finds the     *)
(* chip idle, unless it is w25q_init that sends or a poll of this job failed. *)
THEOREM CommandsWait == Spec => []CommandsWaitForBusy
<1>1. IInv => CommandsWaitForBusy
  BY DEF IInv, Waits, CommandsWaitForBusy
<1>2. QED
  BY <1>1, Invariant, PTL

(* ChangesAreConfined (w25q_write and the erases): a cell changes only when *)
(* the call that started the chip's job was about it.                       *)
THEOREM ChangesAreConfined == Spec => WriteConfined
<1>1. IInv /\ [Next]_vars => [\A a \in Cells : mem'[a] # mem[a] => a \in owner]_vars
  BY EveryStep DEF Stays
<1>2. QED
  BY <1>1, Invariant, PTL DEF Spec, WriteConfined

-----------------------------------------------------------------------------
(* What a call leads to. *)
Settled == DoneUpTo(Capacity)

(* The memory and the registers when a command has been done. *)
Applied(c) == [a \in Cells |-> IF a \in DOMAIN Job(c) THEN Job(c)[a] ELSE mem[a]]
Stored(c) == IF Register(c) = 0 THEN chip.sr ELSE [chip.sr EXCEPT ![Register(c)] = c.data[1]]

(* The memory when what is left of a write has been programmed too. *)
Final(m) ==
  [a \in Cells |->
     m[a] /\ (op = "prog" /\ a \in address .. w.addr + Len(w.data) - 1 => w.data[a - w.addr + 1])]

Reading == {"init", "read", "command"}
Changing == {"prog", "sector_erase_4k", "chip_erase", "write_SR"}
Calls == Reading \cup Changing \cup {"none", "block_erase_32k", "block_erase_64k"}

Booleans ==
  /\ mem \in [Cells -> BOOLEAN]
  /\ \A a \in DOMAIN chip.job : chip.job[a] \in BOOLEAN
  /\ op \in Calls

(* What is left of a write is the end of what was given. *)
Suffix ==
  op = "prog" /\ pc \in {"send", "poll"} =>
    \A i \in 1 .. Len(left) : left[i] = w.data[address - w.addr + i]

(* A call that has not been disturbed is under way to what it is for:      *)
(* with what it has still to send, with what the chip is doing, and when   *)
(* it is done.                                                             *)
Sending ==
  pc = "send" /\ op \in Changing =>
    /\ ~chip.busy /\ ~chip.asleep
    /\ LET c == todo[Len(todo)]
       IN  /\ expect.mem = Final(Applied(c)) /\ expect.sr = Stored(c)
           /\ op = "write_SR" <=> Register(c) # 0
           /\ op = "write_SR" => c.data # << >>
           /\ c.opcode \in Starting
    /\ \/ Len(todo) = 2 /\ todo[1] = w25q_enable_write
       \/ Len(todo) = 2 /\ todo[1] = w25q_enable_vsr_write /\ op = "write_SR"
       \/ Len(todo) = 1 /\ (chip.wel \/ (chip.vsr /\ op = "write_SR"))

Polling ==
  pc = "poll" /\ op \in Changing =>
    ~chip.asleep /\ expect.mem = Final(Settled) /\ expect.sr = chip.sr

Done ==
  op \in Reading \/ (op \in Changing /\ pc = "ready") =>
    mem = expect.mem /\ chip.sr = expect.sr /\ ~chip.busy

Harmless ==
  /\ pc = "send" /\ op \in Reading => \A i \in 1 .. Len(todo) : todo[i].opcode \notin Starting
  /\ pc = "id" => op = "init"
  /\ op = "none" => pc = "off"

OnCourse == expect # Unknown => Sending /\ Polling /\ Done

EffectInv == IInv /\ Booleans /\ Suffix /\ Harmless /\ OnCourse

(* SettledIdle: a chip that is idle has nothing to settle.                 *)
LEMMA SettledIdle ==
  ASSUME IInv, Booleans, ~chip.busy
  PROVE  Settled = mem
<1>1. chip.job = NoJob /\ DOMAIN NoJob = {}
  BY DEF IInv, Owned, NoJob
<1>2. mem = [a \in Cells |-> mem[a]]
  BY DEF Booleans
<1> QED BY <1>1, <1>2 DEF Settled, DoneUpTo

(* JobIsBoolean: what a command programs or erases are bits.               *)
LEMMA JobIsBoolean ==
  ASSUME NEW c \in Order, NEW a \in DOMAIN Job(c), mem \in [Cells -> BOOLEAN]
  PROVE  Job(c)[a] \in BOOLEAN
<1>1. CASE c.opcode = "PAGE_PROGRAM"
  <2>1. Job(c) = Programmed(c.addr, c.data)
    BY <1>1 DEF Job
  <2> QED BY <2>1, Zenon DEF Programmed
<1>2. CASE c.opcode \in {"SECTOR_ERASE_4K", "BLOCK_ERASE_32K", "BLOCK_ERASE_64K", "CHIP_ERASE"}
  BY <1>2 DEF Job, Erased
<1>3. CASE c.opcode \notin {"PAGE_PROGRAM", "SECTOR_ERASE_4K", "BLOCK_ERASE_32K", "BLOCK_ERASE_64K",
                            "CHIP_ERASE"}
  <2>1. Job(c) = << >>
    BY <1>3 DEF Job, NoJob
  <2>2. DOMAIN Job(c) = {}
    BY <2>1
  <2> QED BY <2>2
<1> QED BY <1>1, <1>2, <1>3

(* TellQuietly: a command that starts nothing leaves an idle chip idle and *)
(* its registers alone.                                                    *)
LEMMA TellQuietly ==
  ASSUME IsChip(chip), ~chip.busy, NEW c, c.opcode \notin Starting
  PROVE  ~Told(c).busy /\ Told(c).sr = chip.sr /\ (chip.job = NoJob => Told(c).job = NoJob)
<1> DEFINE ch == [chip EXCEPT !.armed = FALSE]
           Same(t) == ~t.busy /\ t.sr = chip.sr /\ (chip.job = NoJob => t.job = NoJob)
<1>1. IsChip(ch) /\ Same(ch)
  BY DEF IsChip, Latches
<1>2. \A b \in BOOLEAN : Same([ch EXCEPT !.asleep = b])
  BY DEF IsChip, Latches
<1>3. Same([chip EXCEPT !.armed = TRUE]) /\ Same(Quiet(chip))
  BY DEF IsChip, Latches, Quiet
<1>4. Job(c) = NoJob /\ Register(c) = 0
  BY DEF Job, Register, Starting
<1>5. /\ Same([ch EXCEPT !.wel = TRUE]) /\ Same([ch EXCEPT !.vsr = TRUE])
      /\ Same([ch EXCEPT !.wel = FALSE]) /\ Same([ch EXCEPT !.asleep = TRUE])
  BY DEF IsChip, Latches
<1> HIDE DEF Same, ch
<1>6. Same(Obeyed(c, ch))
  BY <1>1, <1>4, <1>5 DEF Obeyed
<1>7. Same(Told(c))
  <2>1. (c.opcode # "REL_PWR_DOWN") \in BOOLEAN
    OBVIOUS
  <2> QED BY <1>1, <1>2, <1>3, <1>6, <2>1 DEF Told, ch
<1> QED BY <1>7 DEF Same

(* TellEnable: an idle chip that is awake takes a write enable.            *)
LEMMA TellEnable ==
  ASSUME IsChip(chip), ~chip.busy, ~chip.asleep,
         NEW c \in {w25q_enable_write, w25q_enable_vsr_write}
  PROVE  LET t == Told(c)
         IN  /\ ~t.busy /\ ~t.asleep /\ t.sr = chip.sr /\ t.job = chip.job
             /\ c = w25q_enable_write => t.wel
             /\ c = w25q_enable_vsr_write => t.vsr
<1> DEFINE ch == [chip EXCEPT !.armed = FALSE]
<1>1. c.opcode \notin {"ENABLE_RESET", "RESET_DEVICE"} /\ Told(c) = Obeyed(c, ch)
  BY DEF Told, w25q_enable_write, w25q_enable_vsr_write, Plain, Command
<1>N. Job(c) = NoJob /\ Register(c) = 0
  BY DEF Job, Register, w25q_enable_write, w25q_enable_vsr_write, Plain, Command
<1>2. c = w25q_enable_write => Obeyed(c, ch) = [ch EXCEPT !.wel = TRUE]
  BY <1>N DEF Obeyed, w25q_enable_write, Plain, Command
<1>3. c = w25q_enable_vsr_write => Obeyed(c, ch) = [ch EXCEPT !.vsr = TRUE]
  BY <1>N DEF Obeyed, w25q_enable_vsr_write, Plain, Command
<1>4. /\ IsChip(ch) /\ ~ch.busy /\ ~ch.asleep /\ ch.sr = chip.sr /\ ch.job = chip.job
  BY DEF IsChip, Latches
<1> HIDE DEF ch
<1>5. CASE c = w25q_enable_write
  BY <1>1, <1>2, <1>4, <1>5 DEF IsChip, Latches, w25q_enable_write, w25q_enable_vsr_write, Plain, Command
<1>6. CASE c = w25q_enable_vsr_write
  BY <1>1, <1>3, <1>4, <1>6 DEF IsChip, Latches, w25q_enable_write, w25q_enable_vsr_write, Plain, Command
<1> QED BY <1>5, <1>6

(* TellStart: an idle chip that is awake and enabled begins what it is     *)
(* told.                                                                   *)
LEMMA TellStart ==
  ASSUME IsChip(chip), ~chip.busy, ~chip.asleep, chip.job = NoJob,
         NEW c \in Order, c.opcode \in Starting, Register(c) # 0 => c.data # << >>,
         chip.wel \/ (chip.vsr /\ Register(c) # 0)
  PROVE  LET t == Told(c)
         IN  ~t.asleep /\ t.sr = Stored(c) /\ t.job = Job(c)
<1> DEFINE ch == [chip EXCEPT !.armed = FALSE]
<1>1. Told(c) = Obeyed(c, ch)
  BY DEF Told, Starting
<1>2. /\ IsChip(ch) /\ ~ch.busy /\ ~ch.asleep /\ ch.sr = chip.sr /\ ch.job = NoJob
      /\ ch.wel = chip.wel /\ ch.vsr = chip.vsr
  BY DEF IsChip, Latches
<1> HIDE DEF ch
<1>3. Register(c) # 0 => Job(c) = NoJob
  BY DEF Register, Job
<1>4. c.opcode \notin {"WRITE_ENABLE", "WRITE_ENABLE_VSR", "WRITE_DISABLE", "PWR_DOWN"}
  BY DEF Starting
<1>5. CASE Register(c) # 0
  <2>1. Obeyed(c, ch) = [ch EXCEPT !.busy = TRUE, !.sr[Register(c)] = c.data[1]]
    BY <1>2, <1>3, <1>4, <1>5 DEF Obeyed
  <2>2. PICK r, v : r = Register(c) /\ v = c.data[1]
    OBVIOUS
  <2>3. /\ Obeyed(c, ch).asleep = ch.asleep /\ Obeyed(c, ch).job = ch.job
        /\ Obeyed(c, ch).sr = [ch.sr EXCEPT ![r] = v]
    BY <1>2, <2>1, <2>2 DEF IsChip, Latches
  <2> QED BY <1>1, <1>2, <1>3, <1>5, <2>2, <2>3 DEF Stored
<1>6. CASE Register(c) = 0 /\ Job(c) # NoJob
  <2>1. Obeyed(c, ch) = [ch EXCEPT !.busy = TRUE, !.job = Job(c)]
    BY <1>2, <1>4, <1>6 DEF Obeyed
  <2> QED BY <1>1, <1>2, <1>6, <2>1 DEF Stored, IsChip, Latches
<1>7. CASE Register(c) = 0 /\ Job(c) = NoJob
  <2>1. Obeyed(c, ch) = ch
    BY <1>2, <1>4, <1>7 DEF Obeyed
  <2> QED BY <1>1, <1>2, <1>7, <2>1 DEF Stored
<1> QED BY <1>5, <1>6, <1>7

(* DoneIsBoolean: also a job cut short leaves bits.                        *)
LEMMA DoneIsBoolean ==
  ASSUME Booleans, NEW point
  PROVE  DoneUpTo(point) \in [Cells -> BOOLEAN]
BY DEF Booleans, DoneUpTo

LEMMA AllOk ==
  ASSUME NEW c \in Order, NEW s \in Seen(c), s.ok
  PROVE  s.cmds = {c}
BY BusAssumption DEF Seen, All, Failures, spi_bus_write, spi_bus_read, qspi_bus_write, qspi_bus_read, Nothing, UpTo

-----------------------------------------------------------------------------
(* TransactionCourse: what the chip makes of one more command brings the   *)
(* call nearer to what it is for.                                          *)
LEMMA TransactionCourse ==
  ASSUME EffectInv, Transaction
  PROVE  Booleans' /\ Suffix' /\ Harmless' /\ OnCourse'
<1>0. PICK c : c = Head(todo)
  OBVIOUS
<1>1. /\ pc = "send" /\ todo # << >> /\ todo \in Seq(Order) /\ Len(todo) \in Nat
      /\ UNCHANGED <<op, address, w, left, ret>> /\ todo' = Tail(todo)
      /\ pc' = IF Tail(todo) # << >> THEN "send" ELSE IF op \in Polled THEN "poll" ELSE "ready"
  BY LenProperties DEF Transaction, EffectInv, IInv, Planned, Typed, write
<1>2. /\ c \in Order /\ c = todo[1] /\ Tail(todo) \in Seq(Order)
      /\ Len(todo) >= 1 /\ Len(Tail(todo)) = Len(todo) - 1
      /\ \A i \in 1 .. Len(Tail(todo)) : Tail(todo)[i] = todo[i + 1]
  BY <1>0, <1>1, HeadTailProperties, EmptySeq
<1>3. Clean(c) /\ Confined(c)
  <2>1. \A i \in 1 .. Len(todo) : Clean(todo[i]) /\ Confined(todo[i])
    BY <1>1 DEF EffectInv, IInv, Planned
  <2>2. Clean(todo[1]) /\ Confined(todo[1])
    BY <1>1, <1>2, <2>1
  <2> QED BY <1>2, <2>2
<1>4. IsChip(chip) /\ Owned(chip, owner) /\ mem \in [Cells -> BOOLEAN] /\ op \in Calls
      /\ \A a \in DOMAIN chip.job : chip.job[a] \in BOOLEAN
  BY DEF EffectInv, IInv, Typed, Booleans
<1>5. PICK s \in Seen(c) :
        /\ expect' = IF s.ok THEN expect ELSE Unknown
        /\ \/ s.cmds = {} /\ UNCHANGED <<mem, chip, owner, blind>>
           \/ \E x \in s.cmds :
                /\ chip' = Told(x)
                /\ IF chip.busy /\ ~Told(x).busy THEN Abort ELSE UNCHANGED mem
  BY <1>0 DEF Transaction
<1>6. Booleans'
  <2>1. CASE UNCHANGED <<mem, chip>>
    BY <1>1, <1>4, <2>1 DEF Booleans
  <2>2. ASSUME NEW x \in s.cmds, chip' = Told(x),
               IF chip.busy /\ ~Told(x).busy THEN Abort ELSE UNCHANGED mem
        PROVE  Booleans'
    <3>1. Part(x, c) /\ x \in Order
      BY <1>2, SeenIsPart DEF Part
    <3>2. Clean(x)
      <4>1. w \in [addr : Nat, data : Seq(BOOLEAN)]
        BY DEF EffectInv, IInv, Typed
      <4> QED BY <1>2, <1>3, <3>1, <4>1, PartsAreLike
    <3>3. Told(x).job = NoJob \/ Told(x).job = chip.job \/ Told(x).job = Job(x)
      <4>1. /\ ~Told(x).busy => Told(x).job = NoJob
            /\ Told(x).busy /\ chip.busy => Told(x).job = chip.job
            /\ Told(x).busy /\ ~chip.busy => Told(x).job \in {NoJob, Job(x)}
        BY <1>4, <3>1, <3>2, ToldIsOrderly
      <4> QED BY <4>1
    <3>4. \A a \in DOMAIN chip'.job : chip'.job[a] \in BOOLEAN
      <4>1. DOMAIN NoJob = {}
        BY DEF NoJob
      <4>2. \A a \in DOMAIN Job(x) : Job(x)[a] \in BOOLEAN
        BY <1>4, <3>1, JobIsBoolean
      <4> QED BY <1>4, <2>2, <3>3, <4>1, <4>2
    <3>5. mem' \in [Cells -> BOOLEAN]
      <4>1. CASE Abort
        BY <4>1, DoneIsBoolean DEF Abort, EffectInv
      <4>2. CASE UNCHANGED mem
        BY <1>4, <4>2
      <4> QED BY <2>2, <4>1, <4>2
    <3> QED BY <1>1, <1>4, <3>4, <3>5 DEF Booleans
  <2> QED BY <1>5, <2>1, <2>2
<1>7. Suffix'
  BY <1>1 DEF EffectInv, Suffix
<1>8. Harmless'
  <2>0. op # "none"
    BY <1>1 DEF EffectInv, Harmless
  <2> SUFFICES ASSUME op \in Reading, NEW i \in 1 .. Len(Tail(todo))
               PROVE  Tail(todo)[i].opcode \notin Starting
    BY <1>1, <2>0 DEF Harmless
  <2>1. i + 1 \in 1 .. Len(todo)
    BY <1>1, <1>2
  <2> QED BY <1>1, <1>2, <2>1 DEF EffectInv, Harmless
<1>9. OnCourse'
  <2> SUFFICES ASSUME expect' # Unknown PROVE Sending' /\ Polling' /\ Done'
    BY DEF OnCourse
  <2>1. s.ok /\ expect' = expect /\ Sending /\ Done
    <3>1. expect' = IF s.ok THEN expect ELSE Unknown
      BY <1>5
    <3>2. s.ok /\ expect' = expect
      BY <3>1
    <3>3. expect # Unknown
      BY <3>2
    <3> QED BY <3>2, <3>3, Zenon DEF EffectInv, OnCourse
  <2>2. chip' = Told(c) /\ (~chip.busy \/ Told(c).busy => mem' = mem)
    <3>1. s.cmds = {c}
      BY <1>2, <2>1, AllOk
    <3>2. chip' = Told(c) /\ IF chip.busy /\ ~Told(c).busy THEN Abort ELSE UNCHANGED mem
      BY <1>5, <3>1
    <3> QED BY <3>2
  <2>3. CASE op \in Reading
    <3>1. c.opcode \notin Starting /\ ~chip.busy
      BY <1>1, <1>2, <2>1, <2>3 DEF EffectInv, Harmless, Done
    <3>2. ~chip'.busy /\ chip'.sr = chip.sr /\ mem' = mem
      BY <1>4, <2>2, <3>1, TellQuietly
    <3>3. op \notin Changing
      BY <2>3 DEF Reading, Changing
    <3> QED BY <1>1, <2>1, <2>3, <3>2, <3>3 DEF Sending, Polling, Done
  <2>4. CASE op \in Changing
    <3>0. PICK d : d = todo[Len(todo)]
      OBVIOUS
    <3>1. /\ ~chip.busy /\ ~chip.asleep /\ d.opcode \in Starting
          /\ expect.mem = Final(Applied(d)) /\ expect.sr = Stored(d)
          /\ op = "write_SR" <=> Register(d) # 0
          /\ op = "write_SR" => d.data # << >>
          /\ \/ Len(todo) = 2 /\ todo[1] = w25q_enable_write
             \/ Len(todo) = 2 /\ todo[1] = w25q_enable_vsr_write /\ op = "write_SR"
             \/ Len(todo) = 1 /\ (chip.wel \/ (chip.vsr /\ op = "write_SR"))
      BY <1>1, <2>1, <2>4, <3>0 DEF Sending
    <3>2. mem' = mem
      BY <2>2, <3>1
    <3>3. op \notin Reading
      BY <2>4 DEF Reading, Changing
    <3>4. CASE Len(todo) = 2
      <4>1. Tail(todo) # << >> /\ Len(todo') = 1 /\ todo'[1] = d /\ pc' = "send"
        <5>1. Len(Tail(todo)) = 1
          BY <1>2, <3>4
        <5>3. Tail(todo) # << >>
          <6>1. PICK rest : rest = Tail(todo)
            OBVIOUS
          <6>2. rest # << >>
            BY <5>1, <6>1
          <6> QED BY <6>1, <6>2
        <5>2. Tail(todo)[1] = todo[2]
          BY <1>2, <5>1
        <5> QED BY <1>1, <3>0, <3>4, <5>1, <5>2, <5>3
      <4>2. c \in {w25q_enable_write, w25q_enable_vsr_write}
            /\ (c = w25q_enable_write \/ (c = w25q_enable_vsr_write /\ op = "write_SR"))
        BY <1>2, <3>1, <3>4
      <4>3. /\ ~chip'.busy /\ ~chip'.asleep /\ chip'.sr = chip.sr
            /\ chip'.wel \/ (chip'.vsr /\ op = "write_SR")
        BY <1>4, <2>2, <3>1, <4>2, TellEnable
      <4>4. Final(Applied(d))' = Final(Applied(d)) /\ Stored(d)' = Stored(d)
        BY <1>1, <3>2, <4>3 DEF Final, Applied, Stored, Job, Programmed
      <4>5. Sending'
        BY <1>1, <2>1, <3>1, <4>1, <4>3, <4>4 DEF Sending
      <4> QED BY <1>1, <3>3, <4>1, <4>5 DEF Polling, Done
    <3>5. CASE Len(todo) = 1
      <4>1. c = d /\ Tail(todo) = << >> /\ pc' = "poll"
        <5>1. Len(Tail(todo)) = 0
          BY <1>2, <3>5
        <5>2. Tail(todo) = << >>
          BY <1>2, <5>1, EmptySeq
        <5>3. op \in Polled
          BY <2>4 DEF Changing, Polled
        <5> QED BY <1>1, <1>2, <3>0, <3>5, <5>2, <5>3
      <4>2. chip.job = NoJob
        BY <1>4, <3>1 DEF Owned
      <4>3. ~chip'.asleep /\ chip'.sr = Stored(c) /\ chip'.job = Job(c)
        BY <1>2, <1>4, <2>2, <3>1, <3>5, <4>1, <4>2, TellStart
      <4>4. Final(Settled)' = Final(Applied(c))
        <5>1. Settled' = Applied(c)
          <6>1. \A a \in Cells : a < Capacity
            BY GeometryAssumption DEF Cells
          <6> QED BY <3>2, <4>3, <6>1 DEF Settled, DoneUpTo, Applied
        <5> QED BY <1>1, <5>1 DEF Final
      <4>5. Polling'
        BY <1>1, <2>1, <3>1, <4>1, <4>3, <4>4 DEF Polling
      <4> QED BY <1>1, <3>3, <4>1, <4>5 DEF Sending, Done
    <3> QED BY <3>1, <3>4, <3>5
  <2>5. CASE op \notin Reading \cup Changing
    BY <1>1, <2>5 DEF Sending, Polling, Done
  <2> QED BY <2>3, <2>4, <2>5
<1> QED BY <1>6, <1>7, <1>8, <1>9

(* FinishCourse: the chip has done what it was told.                       *)
LEMMA FinishCourse ==
  ASSUME EffectInv, Finish
  PROVE  Booleans' /\ Suffix' /\ Harmless' /\ OnCourse'
<1>1. /\ chip.busy /\ mem' = Settled
      /\ chip' = [Quiet(chip) EXCEPT !.armed = chip.armed]
      /\ UNCHANGED <<pc, op, todo, address, w, left, ret, expect>>
  BY DEF Finish, write, Settled
<1>2. chip'.job = NoJob /\ chip'.sr = chip.sr /\ chip'.asleep = chip.asleep
  BY <1>1 DEF EffectInv, IInv, Typed, IsChip, Latches, Quiet
<1>3. DOMAIN NoJob = {}
  BY DEF NoJob
<1>4. mem' \in [Cells -> BOOLEAN]
  BY <1>1, DoneIsBoolean DEF EffectInv, Settled
<1>5. Settled' = mem'
  <2>1. mem' = [a \in Cells |-> mem'[a]]
    BY <1>4
  <2> QED BY <1>2, <1>3, <2>1 DEF Settled, DoneUpTo
<1>6. Booleans' /\ Suffix' /\ Harmless'
  BY <1>1, <1>2, <1>3, <1>4 DEF EffectInv, Booleans, Suffix, Harmless
<1>7. OnCourse'
  <2> SUFFICES ASSUME expect # Unknown PROVE Sending' /\ Polling' /\ Done'
    BY <1>1 DEF OnCourse
  <2>1. Sending /\ Polling /\ Done
    BY DEF EffectInv, OnCourse
  <2>2. Final(Settled)' = Final(Settled)
    BY <1>1, <1>5 DEF Final
  <2>3. Polling'
    BY <1>1, <1>2, <2>1, <2>2 DEF Polling
  <2> QED BY <1>1, <2>1, <2>3 DEF Sending, Done
<1> QED BY <1>6, <1>7

(* SimpleCourse: a call that only reads or sets a latch.                   *)
LEMMA SimpleCourse ==
  ASSUME EffectInv, NEW name \in Reading, NEW commands, Simple(name), Send(commands),
         \A i \in 1 .. Len(commands) : commands[i].opcode \notin Starting
  PROVE  Booleans' /\ Suffix' /\ Harmless' /\ OnCourse'
<1>1. Begin(name, mem, chip.sr, TRUE) /\ pc' = "send" /\ todo' = commands /\ name \in Calls
  BY DEF Simple, Send, Reading, Calls
<1>2. /\ Booleans' /\ op' = name /\ UNCHANGED <<mem, chip>>
      /\ expect' # Unknown => ~chip.busy /\ expect'.mem = mem /\ expect'.sr = chip.sr
  BY <1>1 DEF Begin, EffectInv, Booleans
<1>3. name \notin Changing /\ name # "prog" /\ name # "none"
  BY DEF Reading, Changing
<1>4. Suffix' /\ Harmless'
  BY <1>1, <1>2, <1>3 DEF Suffix, Harmless
<1>5. OnCourse'
  BY <1>1, <1>2, <1>3 DEF OnCourse, Sending, Polling, Done
<1> QED BY <1>2, <1>4, <1>5

LEMMA SimplesCourse ==
  ASSUME EffectInv,
         \/ w25q_init \/ w25q_read \/ w25q_power_down \/ w25_release_power_down
         \/ w25q_disable_write \/ EnableWrite \/ EnableVsrWrite \/ Reset
  PROVE  Booleans' /\ Suffix' /\ Harmless' /\ OnCourse'
<1> DEFINE Mild(s) == \A i \in 1 .. Len(s) : s[i].opcode \notin Starting
<1>1. ASSUME NEW o, o \notin Starting PROVE Mild(<<Plain(o)>>)
  BY <1>1 DEF Plain, Command
<1>2. Mild(w25q_reset)
  BY DEF w25q_reset, Plain, Command, Starting
<1>3. \A o \in {"READ_DATA", "PWR_DOWN", "REL_PWR_DOWN", "WRITE_DISABLE", "WRITE_ENABLE",
               "WRITE_ENABLE_VSR"} : Mild(<<Plain(o)>>)
  <2>1. \A o \in {"READ_DATA", "PWR_DOWN", "REL_PWR_DOWN", "WRITE_DISABLE", "WRITE_ENABLE",
               "WRITE_ENABLE_VSR"} : o \notin Starting
    BY DEF Starting
  <2> HIDE DEF Mild
  <2> QED BY <1>1, <2>1
<1>4. ASSUME NEW name \in Reading, NEW commands, Simple(name), Send(commands), Mild(commands)
      PROVE  Booleans' /\ Suffix' /\ Harmless' /\ OnCourse'
  BY <1>4, SimpleCourse
<1> HIDE DEF Mild
<1>5. CASE w25q_init \/ Reset
  BY <1>2, <1>4, <1>5 DEF w25q_init, Reset, Reading
<1>6. CASE \/ w25q_read \/ w25q_power_down \/ w25_release_power_down
           \/ w25q_disable_write \/ EnableWrite \/ EnableVsrWrite
  BY <1>3, <1>4, <1>6 DEF w25q_read, w25q_power_down, w25_release_power_down, w25q_disable_write,
     EnableWrite, EnableVsrWrite, w25q_enable_write, w25q_enable_vsr_write, Reading
<1> QED BY <1>5, <1>6

(* ErasesCourse: what an erase is for is the chip's answer to its command. *)
LEMMA ErasesCourse ==
  ASSUME EffectInv,
         erase_flash_region \/ w25q_block_erase_32k \/ w25q_block_erase_64k \/ w25q_chip_erase
  PROVE  Booleans' /\ Suffix' /\ Harmless' /\ OnCourse'
<1>1. ASSUME NEW name \in {"block_erase_32k", "block_erase_64k"}, NEW a, NEW length, NEW commands,
             Erase(name, a, length), Send(commands)
      PROVE  Booleans' /\ Suffix' /\ Harmless' /\ OnCourse'
  <2>1. PICK memory : Begin(name, memory, chip.sr, TRUE) /\ pc' = "send"
    BY <1>1 DEF Erase, Send
  <2>2. Booleans' /\ op' = name
    BY <2>1 DEF Begin, EffectInv, Booleans, Calls
  <2>3. op' \notin Reading \cup Changing
    BY <2>2 DEF Reading, Changing
  <2> QED BY <2>1, <2>2, <2>3 DEF Suffix, Harmless, OnCourse, Sending, Polling, Done, Changing
<1>2. ASSUME NEW name \in {"sector_erase_4k", "chip_erase"}, NEW a \in Nat, NEW length, NEW c,
             Erase(name, a, length), Send(<<w25q_enable_write, c>>), c.opcode \in Starting, Register(c) = 0,
             Job(c) = Erased(AlignedBlock(a, length))
      PROVE  Booleans' /\ Suffix' /\ Harmless' /\ OnCourse'
  <2> DEFINE memory == [x \in Cells |-> x \in AlignedBlock(a, length) \/ mem[x]]
  <2>1. /\ Begin(name, memory, chip.sr, TRUE)
        /\ pc' = "send" /\ todo' = <<w25q_enable_write, c>> /\ address' = a
    BY <1>2 DEF Erase, Send, At
  <2> HIDE DEF memory
  <2>2. /\ Booleans' /\ op' = name /\ UNCHANGED <<mem, chip>>
        /\ expect' # Unknown => /\ ~chip.busy /\ ~chip.asleep
                                /\ expect'.mem = memory /\ expect'.sr = chip.sr
    <3>1. name \in Calls
      BY DEF Calls, Changing
    <3> QED BY <2>1, <3>1 DEF Begin, EffectInv, Booleans
  <2>3. op' # "prog" /\ op' # "write_SR" /\ op' # "none" /\ op' \in Changing /\ op' \notin Reading
    BY <2>2 DEF Changing, Reading
  <2>4. memory = Final(Applied(c))'
    <3>1. DOMAIN Job(c)' = AlignedBlock(a, length) /\ \A x \in AlignedBlock(a, length) : Job(c)'[x] = TRUE
      <4>1. Job(c)' = Job(c)
        BY <2>2 DEF Job, Programmed
      <4> QED BY <1>2, <4>1 DEF Erased
    <3>2. mem' \in [Cells -> BOOLEAN] /\ mem' = mem
      BY <2>2 DEF Booleans
    <3> QED BY <2>3, <3>1, <3>2 DEF memory, Final, Applied
  <2>5. Len(todo') = 2 /\ todo'[1] = w25q_enable_write /\ todo'[2] = c
    BY <2>1
  <2>6. Stored(c)' = chip.sr
    BY <1>2, <2>2 DEF Stored
  <2>7. Suffix' /\ Harmless'
    BY <2>1, <2>3 DEF Suffix, Harmless
  <2>8. expect' # Unknown => Sending'
    BY <1>2, <2>1, <2>2, <2>3, <2>4, <2>5, <2>6 DEF Sending
  <2> QED BY <2>1, <2>2, <2>3, <2>7, <2>8 DEF OnCourse, Polling, Done
<1>3. CASE w25q_chip_erase
  <2> DEFINE c == Plain("CHIP_ERASE")
  <2>1. c.opcode \in Starting /\ Register(c) = 0 /\ Job(c) = Erased(Cells)
    BY DEF Plain, Command, Starting, Register, Job
  <2>2. AlignedBlock(0, Capacity) = Cells
    <3>1. \A x \in Cells : x \div Capacity = 0
      BY GeometryAssumption DEF Cells
    <3>2. 0 \div Capacity = 0
      BY GeometryAssumption
    <3> QED BY <3>1, <3>2 DEF AlignedBlock
  <2>3. Erase("chip_erase", 0, Capacity) /\ Send(<<w25q_enable_write, c>>)
    BY <1>3 DEF w25q_chip_erase
  <2> HIDE DEF c
  <2> QED BY <1>2, <2>1, <2>2, <2>3
<1>4. CASE erase_flash_region
  <2>1. PICK block \in 0 .. (Capacity \div W25Q_BLOCK_SIZE) - 1 :
          w25q_sector_erase_4k(block * W25Q_BLOCK_SIZE)
    BY <1>4 DEF erase_flash_region
  <2> DEFINE a == block * W25Q_BLOCK_SIZE
             c == Command("SECTOR_ERASE_4K", a, << >>)
  <2>2. a \in Nat
    BY GeometryAssumption
  <2>3. Erase("sector_erase_4k", a, W25Q_BLOCK_SIZE) /\ Send(<<w25q_enable_write, c>>)
    BY <2>1 DEF w25q_sector_erase_4k
  <2> HIDE DEF a
  <2>4. c.opcode \in Starting /\ Register(c) = 0 /\ Job(c) = Erased(AlignedBlock(a, W25Q_BLOCK_SIZE))
    BY DEF Command, Starting, Register, Job
  <2> HIDE DEF c
  <2> QED BY <1>2, <2>2, <2>3, <2>4
<1>5. CASE w25q_block_erase_32k \/ w25q_block_erase_64k
  BY <1>1, <1>5 DEF w25q_block_erase_32k, w25q_block_erase_64k
<1> QED BY <1>3, <1>4, <1>5

(* RegistersCourse: the value written is the one read, changed.            *)
LEMMA RegistersCourse ==
  ASSUME EffectInv, w25q_write_SR \/ w25q_enable_qspi \/ w25q_disable_qspi
  PROVE  Booleans' /\ Suffix' /\ Harmless' /\ OnCourse'
<1>1. ASSUME NEW e \in {w25q_enable_write, w25q_enable_vsr_write}, NEW n \in 1 .. 3, NEW state, NEW bits,
             ChangeSr(e, n, state, bits)
      PROVE  Booleans' /\ Suffix' /\ Harmless' /\ OnCourse'
  <2>1. PICK ok \in {TRUE, ~Faults} :
          LET old == IF ok THEN chip.sr[n] ELSE {}
          IN  /\ Begin("write_SR", mem, [chip.sr EXCEPT ![n] = NewValue(n, @, state, bits)], ok)
              /\ pc' = "send" /\ op' = "write_SR"
              /\ todo' = <<e, Command(WriteSr[n], 0, <<NewValue(n, old, state, bits)>>)>>
    BY <1>1 DEF ChangeSr, Send, Begin
  <2>2. PICK v : v = NewValue(n, IF ok THEN chip.sr[n] ELSE {}, state, bits)
    OBVIOUS
  <2>3. PICK c : c = Command(WriteSr[n], 0, <<v>>)
    OBVIOUS
  <2>4. todo' = <<e, c>>
    BY <2>1, <2>2, <2>3
  <2>5. /\ Booleans' /\ UNCHANGED <<mem, chip>>
        /\ expect' # Unknown => /\ ok = TRUE /\ ~chip.busy /\ ~chip.asleep /\ expect'.mem = mem
                                /\ expect'.sr = [chip.sr EXCEPT ![n] = NewValue(n, @, state, bits)]
    <3>1. "write_SR" \in Calls
      BY DEF Calls, Changing
    <3>2. PICK r : r = [chip.sr EXCEPT ![n] = NewValue(n, @, state, bits)]
      OBVIOUS
    <3>3. Begin("write_SR", mem, r, ok)
      BY <2>1, <3>2
    <3>4. UNCHANGED <<mem, chip>> /\ Booleans'
      BY <3>3 DEF Begin, EffectInv, Booleans, Calls, Changing
    <3>5. expect' # Unknown => /\ ok = TRUE /\ ~chip.busy /\ ~chip.asleep
                              /\ expect'.mem = mem /\ expect'.sr = r
      BY <2>1, <3>3 DEF Begin
    <3> QED BY <3>2, <3>4, <3>5
  <2>6. c.opcode \in Starting /\ Register(c) = n /\ c.data # << >> /\ c.data[1] = v /\ Job(c) = NoJob
    <3>1. c.opcode \in {"WRITE_SR1", "WRITE_SR2", "WRITE_SR3"} /\ c.data = <<v>> /\ Register(c) = n
      BY <2>3 DEF Command, WriteSr, Register
    <3> QED BY <3>1 DEF Starting, Job
  <2>7. op' \in Changing /\ op' \notin Reading /\ op' # "prog" /\ op' = "write_SR"
    BY <2>1 DEF Changing, Reading
  <2>8. Suffix' /\ Harmless'
    BY <2>1, <2>7 DEF Suffix, Harmless
  <2>9. Final(Applied(c))' = mem
    <3>1. Job(c)' = NoJob /\ DOMAIN NoJob = {}
      <4>1. Job(c)' = Job(c)
        BY <2>5 DEF Job, Programmed
      <4> QED BY <2>6, <4>1 DEF NoJob
    <3>2. mem' \in [Cells -> BOOLEAN] /\ mem' = mem
      BY <2>5 DEF Booleans
    <3> QED BY <2>7, <3>1, <3>2 DEF Final, Applied
  <2>10. expect' # Unknown => expect'.sr = Stored(c)'
    <3> SUFFICES ASSUME expect' # Unknown PROVE expect'.sr = Stored(c)'
      OBVIOUS
    <3>1. v = NewValue(n, chip.sr[n], state, bits)
      BY <2>2, <2>5
    <3>2. chip.sr \in [1 .. 3 -> SUBSET Bits]
      BY DEF EffectInv, IInv, Typed, IsChip
    <3>3. expect'.sr = [chip.sr EXCEPT ![n] = v]
      BY <2>5, <3>1, <3>2
    <3> QED BY <2>5, <2>6, <3>3 DEF Stored
  <2>11. Len(todo') = 2 /\ todo'[1] = e /\ todo'[2] = c
    BY <2>4
  <2>12. expect' # Unknown => Sending'
    BY <1>1, <2>5, <2>6, <2>7, <2>9, <2>10, <2>11 DEF Sending
  <2> QED BY <2>1, <2>5, <2>7, <2>8, <2>12 DEF OnCourse, Polling, Done
<1>2. CASE w25q_write_SR
  <2>1. PICK m \in Masks, state \in BOOLEAN : ChangeSr(w25q_enable_vsr_write, m.n, state, m.bits)
    BY <1>2 DEF w25q_write_SR
  <2>2. m.n \in 1 .. 3
    BY MasksAssumption
  <2> QED BY <1>1, <2>1, <2>2
<1>3. CASE w25q_enable_qspi \/ w25q_disable_qspi
  <2>1. PICK state \in BOOLEAN : ChangeSr(w25q_enable_write, 2, state, {"QE"})
    BY <1>3 DEF w25q_enable_qspi, w25q_disable_qspi
  <2> QED BY <1>1, <2>1
<1> QED BY <1>2, <1>3

(* ProgramsPage: a program that ends within its page clears the bits that  *)
(* are clear in its data.                                                  *)
LEMMA ProgramsPage ==
  ASSUME NEW addr \in Nat, NEW data \in Seq(BOOLEAN), addr + Len(data) <= PageBoundary(addr)
  PROVE  /\ DOMAIN Programmed(addr, data) = addr .. addr + Len(data) - 1
         /\ \A a \in addr .. addr + Len(data) - 1 :
              Programmed(addr, data)[a] = (mem[a] /\ data[a - addr + 1])
<1> DEFINE n == Len(data)
           page == addr - (addr % W25Q_PAGE_SIZE)
           Target(i) == page + ((addr - page + i - 1) % W25Q_PAGE_SIZE)
           Cell(a) == mem[a] /\ \E i \in 1 .. n : /\ Target(i) = a /\ data[i]
                                               /\ \A j \in i + 1 .. n : Target(j) # a
<1>1. n \in Nat /\ W25Q_PAGE_SIZE \in Nat \ {0} /\ \A i \in 1 .. n : data[i] \in BOOLEAN
  BY LenProperties, ElementOfSeq, GeometryAssumption
<1>2. Programmed(addr, data) = [a \in {Target(i) : i \in 1 .. n} |-> Cell(a)]
  BY DEF Programmed
<1>3. \A i \in 1 .. n : Target(i) = addr + i - 1
  BY <1>1, NoWrap DEF PageBoundary
<1> HIDE DEF Target, page, n
<1>4. {Target(i) : i \in 1 .. n} = addr .. addr + n - 1
  <2>1. \A a \in addr .. addr + n - 1 : a - addr + 1 \in 1 .. n /\ Target(a - addr + 1) = a
    BY <1>1, <1>3
  <2>2. \A i \in 1 .. n : Target(i) \in addr .. addr + n - 1
    BY <1>1, <1>3
  <2> QED BY <2>1, <2>2
<1>5. ASSUME NEW a \in addr .. addr + n - 1 PROVE Cell(a) = (mem[a] /\ data[a - addr + 1])
  <2>1. PICK k \in 1 .. n : k = a - addr + 1 /\ Target(k) = a
    BY <1>1, <1>3
  <2>2. \A i \in 1 .. n : Target(i) = a => i = k
    BY <1>1, <1>3, <2>1
  <2>3. \A j \in k + 1 .. n : j \in 1 .. n /\ j # k
    BY <1>1, <2>1
  <2>4. data[k] => \E i \in 1 .. n : Target(i) = a /\ data[i] /\ \A j \in i + 1 .. n : Target(j) # a
    BY <2>1, <2>2, <2>3
  <2>5. (\E i \in 1 .. n : Target(i) = a /\ data[i] /\ \A j \in i + 1 .. n : Target(j) # a) => data[k]
    BY <2>2
  <2>6. Cell(a) = (mem[a] /\ data[k])
    BY <2>4, <2>5, Zenon
  <2> QED BY <2>1, <2>6
<1> HIDE DEF Cell
<1>6. \A a \in addr .. addr + n - 1 : Programmed(addr, data)[a] = (mem[a] /\ data[a - addr + 1])
  BY <1>2, <1>4, <1>5
<1> QED BY <1>2, <1>4, <1>6 DEF n

(* PageCourse: what a write is for is one more page, and then the rest.    *)
LEMMA PageCourse ==
  ASSUME NEW addr \in Nat, NEW bytes \in Seq(BOOLEAN), bytes # << >>, NEW written,
         NextPage(addr, bytes, addr + Len(bytes) - 1, written),
         UNCHANGED <<mem, chip>>, mem \in [Cells -> BOOLEAN], op' = "prog",
         w' \in [addr : Nat, data : Seq(BOOLEAN)],
         w'.addr <= addr, addr + Len(bytes) = w'.addr + Len(w'.data),
         \A i \in 1 .. Len(bytes) : bytes[i] = w'.data[addr - w'.addr + i]
  PROVE  /\ Suffix' /\ pc' = "send"
         /\ /\ ~chip.busy /\ ~chip.asleep /\ expect'.sr = chip.sr
            /\ expect'.mem = [a \in Cells |->
                                mem[a] /\ (a \in addr .. w'.addr + Len(w'.data) - 1 => w'.data[a - w'.addr + 1])]
            => Sending'
<1> DEFINE n == ThisWrite(addr, bytes, addr + Len(bytes) - 1)
           now == SubSeq(bytes, 1, n)
           later == SubSeq(bytes, n + 1, Len(bytes))
           top == w'.addr + Len(w'.data)
<1>1. n \in 1 .. Len(bytes) /\ addr + n <= PageBoundary(addr)
  BY WriteEndsInPage
<1>2. PICK c : c = Command("PAGE_PROGRAM", addr, now)
  OBVIOUS
<1>3. /\ pc' = "send" /\ todo' = <<w25q_enable_write, c>> /\ address' = addr + n /\ left' = later
  BY <1>2 DEF NextPage, Send
<1> HIDE DEF n
<1>4. Len(bytes) \in Nat /\ w'.addr \in Nat /\ Len(w'.data) \in Nat /\ top = addr + Len(bytes) /\ n \in Nat
  BY <1>1, LenProperties
<1>5. now \in Seq(BOOLEAN) /\ Len(now) = n /\ \A i \in 1 .. n : now[i] = bytes[i]
  BY <1>1, <1>4, SubSeqProperties
<1>6. Len(later) = Len(bytes) - n /\ \A i \in 1 .. Len(bytes) - n : later[i] = bytes[n + i]
  <2>1. later \in Seq(BOOLEAN) /\ Len(later) = Len(bytes) - n
    BY <1>1, <1>4, SubSeqProperties
  <2>2. \A i \in 1 .. Len(bytes) - n : later[i] = bytes[(n + 1) + i - 1]
    BY <1>1, <1>4, SubSeqProperties
  <2>3. \A i \in 1 .. Len(bytes) - n : (n + 1) + i - 1 = n + i
    BY <1>4
  <2> QED BY <2>1, <2>2, <2>3
<1> HIDE DEF now, later
<1>7. Suffix'
  <2> SUFFICES ASSUME NEW i \in 1 .. Len(later) PROVE later[i] = w'.data[(addr + n) - w'.addr + i]
    BY <1>3, Zenon DEF Suffix
  <2>1. n + i \in 1 .. Len(bytes) /\ addr - w'.addr + (n + i) = addr + n - w'.addr + i
    BY <1>1, <1>4, <1>6
  <2>2. PICK k : k = (addr + n) - w'.addr + i
    OBVIOUS
  <2>3. addr - w'.addr + (n + i) = k
    BY <1>4, <1>6, <2>1, <2>2
  <2>4. bytes[n + i] = w'.data[k]
    BY <2>1, <2>3
  <2>5. later[i] = bytes[n + i]
    BY <1>6
  <2> QED BY <2>2, <2>4, <2>5
<1>8. c.opcode = "PAGE_PROGRAM" /\ c.addr = addr /\ c.data = now /\ Register(c) = 0 /\ c.opcode \in Starting
  BY <1>2 DEF Command, Register, Starting
<1>9. /\ DOMAIN Job(c)' = addr .. addr + n - 1
      /\ \A a \in addr .. addr + n - 1 : Job(c)'[a] = (mem[a] /\ now[a - addr + 1])
  <2>1. Job(c) = Programmed(addr, now)
    BY <1>8 DEF Job
  <2>2. Job(c)' = Job(c)
    BY DEF Job, Programmed
  <2>3. addr + Len(now) <= PageBoundary(addr) /\ now \in Seq(BOOLEAN) /\ Len(now) = n
    BY <1>1, <1>5
  <2>4. /\ DOMAIN Programmed(addr, now) = addr .. addr + Len(now) - 1
        /\ \A a \in addr .. addr + Len(now) - 1 :
             Programmed(addr, now)[a] = (mem[a] /\ now[a - addr + 1])
    BY <2>3, ProgramsPage
  <2>5. PICK job : job = Programmed(addr, now)
    OBVIOUS
  <2> QED BY <2>1, <2>2, <2>3, <2>4, <2>5
<1>10. SUFFICES ASSUME ~chip.busy, ~chip.asleep, expect'.sr = chip.sr,
                       expect'.mem = [a \in Cells |->
                         mem[a] /\ (a \in addr .. w'.addr + Len(w'.data) - 1 => w'.data[a - w'.addr + 1])]
                PROVE  Sending'
  BY <1>3, <1>7, Zenon
<1>11. Final(Applied(c))' = expect'.mem
  <2> DEFINE one(a) == IF a \in addr .. addr + n - 1 THEN Job(c)'[a] ELSE mem[a]
             all(a) == mem[a] /\ (a \in addr .. top - 1 => w'.data[a - w'.addr + 1])
  <2>1. Applied(c)' = [a \in Cells |-> one(a)]
    BY <1>9 DEF Applied
  <2>2. Final(Applied(c))' =
          [a \in Cells |-> one(a) /\ (a \in addr + n .. top - 1 => w'.data[a - w'.addr + 1])]
    <3> HIDE DEF one
    <3> QED BY <1>3, <2>1 DEF Final
  <2>3. ASSUME NEW a \in Cells
        PROVE  (one(a) /\ (a \in addr + n .. top - 1 => w'.data[a - w'.addr + 1])) = all(a)
    <3>1. a \in Nat /\ mem[a] \in BOOLEAN
      <4>1. a \in Nat
        BY GeometryAssumption DEF Cells
      <4> QED BY <4>1
    <3>2. CASE a \in addr .. addr + n - 1
      <4>1. a - addr + 1 \in 1 .. n /\ a - addr + 1 \in 1 .. Len(bytes)
        BY <1>1, <1>4, <3>1, <3>2
      <4>2. addr - w'.addr + (a - addr + 1) = a - w'.addr + 1
        BY <1>4, <3>1
      <4>3. now[a - addr + 1] = w'.data[a - w'.addr + 1]
        BY <1>5, <4>1, <4>2
      <4>4. a \in addr .. top - 1 /\ a \notin addr + n .. top - 1
        BY <1>1, <1>4, <3>1, <3>2
      <4> QED BY <1>9, <3>2, <4>3, <4>4
    <3>3. CASE a \notin addr .. addr + n - 1
      <4>1. a \in addr + n .. top - 1 <=> a \in addr .. top - 1
        BY <1>1, <1>4, <3>1, <3>3
      <4> QED BY <3>3, <4>1
    <3> QED BY <3>2, <3>3
  <2> HIDE DEF one
  <2> QED BY <1>10, <2>2, <2>3
<1>12. Len(todo') = 2 /\ todo'[1] = w25q_enable_write /\ todo'[2] = c /\ Stored(c)' = chip.sr
  BY <1>3, <1>8 DEF Stored
<1> QED BY <1>8, <1>10, <1>11, <1>12 DEF Sending

LEMMA ProgCourse ==
  ASSUME EffectInv, prog_flash_region
  PROVE  Booleans' /\ Suffix' /\ Harmless' /\ OnCourse'
<1>1. PICK x \in Writes :
        /\ pc = "ready" /\ op' = "prog" /\ UNCHANGED <<mem, chip>> /\ w' = x
        /\ expect' # Unknown =>
             /\ ~chip.busy /\ ~chip.asleep /\ expect'.sr = chip.sr
             /\ expect'.mem = [a \in Cells |->
                   mem[a] /\ (a \in x.addr .. x.addr + Len(x.data) - 1 => x.data[a - x.addr + 1])]
        /\ IF x.data # << >>
           THEN NextPage(x.addr, x.data, x.addr + Len(x.data) - 1, 0)
           ELSE address' = x.addr /\ left' = << >> /\ ret' = 0 /\ UNCHANGED <<pc, todo>>
  <2>1. PICK x \in Writes :
          /\ Begin("prog", [a \in Cells |->
                   mem[a] /\ (a \in x.addr .. x.addr + Len(x.data) - 1 => x.data[a - x.addr + 1])],
                   chip.sr, TRUE)
          /\ w' = x
          /\ IF x.data # << >>
             THEN NextPage(x.addr, x.data, x.addr + Len(x.data) - 1, 0)
             ELSE address' = x.addr /\ left' = << >> /\ ret' = 0 /\ UNCHANGED <<pc, todo>>
    BY DEF prog_flash_region
  <2>2. ASSUME NEW memory, Begin("prog", memory, chip.sr, TRUE)
        PROVE  /\ pc = "ready" /\ op' = "prog" /\ UNCHANGED <<mem, chip>>
               /\ expect' # Unknown =>
                    ~chip.busy /\ ~chip.asleep /\ expect'.sr = chip.sr /\ expect'.mem = memory
    BY <2>2 DEF Begin
  <2> QED BY <2>1, <2>2, Zenon
<1>2. x.addr \in Nat /\ x.data \in Seq(BOOLEAN) /\ x \in [addr : Nat, data : Seq(BOOLEAN)]
  BY WritesAssumption, GeometryAssumption DEF Cells
<1>3. Booleans' /\ mem \in [Cells -> BOOLEAN] /\ "prog" \in Changing /\ "prog" \notin Reading
  BY <1>1 DEF EffectInv, Booleans, Calls, Changing, Reading
<1>4. CASE x.data # << >>
  <2>1. \A i \in 1 .. Len(x.data) : x.data[i] = x.data[x.addr - x.addr + i]
    BY <1>2
  <2>2. NextPage(x.addr, x.data, x.addr + Len(x.data) - 1, 0)
    BY <1>1, <1>4
  <2>3. /\ w' \in [addr : Nat, data : Seq(BOOLEAN)]
        /\ w'.addr <= x.addr /\ x.addr + Len(x.data) = w'.addr + Len(w'.data)
        /\ \A i \in 1 .. Len(x.data) : x.data[i] = w'.data[x.addr - w'.addr + i]
    BY <1>1, <1>2, <2>1
  <2>4. op' = "prog" /\ UNCHANGED <<mem, chip>> /\ w' = x
    BY <1>1
  <2>5. /\ Suffix' /\ pc' = "send"
        /\ /\ ~chip.busy /\ ~chip.asleep /\ expect'.sr = chip.sr
           /\ expect'.mem = [a \in Cells |->
                 mem[a] /\ (a \in x.addr .. w'.addr + Len(w'.data) - 1 => w'.data[a - w'.addr + 1])]
           => Sending'
    BY <1>2, <1>3, <1>4, <2>2, <2>3, <2>4, PageCourse
  <2>6. expect' # Unknown => Sending'
    BY <1>1, <2>4, <2>5
  <2> QED BY <1>1, <1>3, <2>5, <2>6 DEF Harmless, OnCourse, Polling, Done
<1>5. CASE x.data = << >>
  <2>1. /\ pc' = "ready" /\ Len(x.data) = 0
    BY <1>1, <1>5
  <2>2. expect' # Unknown => expect'.mem = mem
    <3>1. \A a \in Cells : a \notin x.addr .. x.addr + Len(x.data) - 1
      BY <1>2, <2>1, GeometryAssumption DEF Cells
    <3> QED BY <1>1, <1>3, <3>1
  <2> QED BY <1>1, <1>3, <2>1, <2>2 DEF Suffix, Harmless, OnCourse, Sending, Polling, Done
<1> QED BY <1>4, <1>5

(* PollsCourse: the poll that finds the chip idle finds it done.           *)
LEMMA PollsCourse ==
  ASSUME EffectInv, PollIdle \/ PollFails \/ PollAsleep
  PROVE  Booleans' /\ Suffix' /\ Harmless' /\ OnCourse'
<1>1. /\ pc = "poll" /\ AfterPoll /\ UNCHANGED <<mem, chip, op>>
      /\ expect' # Unknown => expect' = expect /\ ((~chip.busy /\ ~chip.asleep) \/ chip.asleep)
  BY DEF PollIdle, PollFails, PollAsleep, AfterPoll
<1>2. Booleans' /\ mem \in [Cells -> BOOLEAN] /\ op \in Calls
  BY <1>1 DEF EffectInv, Booleans
<1>3. /\ address \in Nat /\ left \in Seq(BOOLEAN) /\ w \in [addr : Nat, data : Seq(BOOLEAN)]
      /\ op = "prog" => w.addr <= address /\ address + Len(left) = w.addr + Len(w.data)
  BY <1>1 DEF EffectInv, IInv, Typed, Remaining
<1>4. expect # Unknown => Polling /\ Done
  BY DEF EffectInv, OnCourse
<1>5. ASSUME expect' # Unknown, op \in Changing
      PROVE  ~chip.busy /\ ~chip.asleep /\ expect.mem = Final(mem) /\ expect.sr = chip.sr
  <2>1. ~chip.asleep /\ expect.mem = Final(Settled) /\ expect.sr = chip.sr
    BY <1>1, <1>4, <1>5 DEF Polling
  <2>2. ~chip.busy
    BY <1>1, <1>5, <2>1
  <2>3. Settled = mem
    BY <2>2, SettledIdle DEF EffectInv
  <2> QED BY <2>1, <2>2, <2>3
<1>6. "prog" \in Changing /\ "prog" \notin Reading /\ Changing \cap Reading = {}
  BY DEF Changing, Reading
<1>7. CASE op = "prog" /\ left # << >>
  <2>1. /\ NextPage(address, left, w.addr + Len(w.data) - 1, ret) /\ w' = w /\ op' = "prog"
        /\ w.addr + Len(w.data) - 1 = address + Len(left) - 1
    BY <1>1, <1>3, <1>7 DEF AfterPoll
  <2>2. NextPage(address, left, address + Len(left) - 1, ret)
    BY <2>1
  <2>3. \A i \in 1 .. Len(left) : left[i] = w.data[address - w.addr + i]
    BY <1>1, <1>7 DEF EffectInv, Suffix
  <2>4. /\ w' \in [addr : Nat, data : Seq(BOOLEAN)]
        /\ w'.addr <= address /\ address + Len(left) = w'.addr + Len(w'.data)
        /\ \A i \in 1 .. Len(left) : left[i] = w'.data[address - w'.addr + i]
    BY <1>3, <1>7, <2>1, <2>3
  <2>5. /\ Suffix' /\ pc' = "send"
        /\ /\ ~chip.busy /\ ~chip.asleep /\ expect'.sr = chip.sr
           /\ expect'.mem = [a \in Cells |->
                 mem[a] /\ (a \in address .. w'.addr + Len(w'.data) - 1 => w'.data[a - w'.addr + 1])]
           => Sending'
    BY <1>1, <1>2, <1>3, <1>7, <2>1, <2>2, <2>4, PageCourse
  <2>6. expect' # Unknown => Sending'
    <3> SUFFICES ASSUME expect' # Unknown PROVE Sending'
      OBVIOUS
    <3>1. ~chip.busy /\ ~chip.asleep /\ expect.mem = Final(mem) /\ expect.sr = chip.sr
      BY <1>5, <1>6, <1>7
    <3>2. expect' = expect
      BY <1>1
    <3>3. Final(mem) = [a \in Cells |->
                 mem[a] /\ (a \in address .. w'.addr + Len(w'.data) - 1 => w'.data[a - w'.addr + 1])]
      BY <1>7, <2>1 DEF Final
    <3> QED BY <2>5, <3>1, <3>2, <3>3
  <2> QED BY <1>2, <1>6, <2>1, <2>5, <2>6 DEF Harmless, OnCourse, Polling, Done
<1>8. CASE ~(op = "prog" /\ left # << >>)
  <2>1. /\ pc' = IF op = "init" THEN "id" ELSE "ready"
        /\ UNCHANGED <<todo, w, left, ret>>
    BY <1>1, <1>8 DEF AfterPoll
  <2>2. Suffix' /\ Harmless'
    <3>1. op # "none"
      BY <1>1 DEF EffectInv, Harmless
    <3> QED BY <1>1, <2>1, <3>1 DEF Suffix, Harmless
  <2>3. ASSUME expect' # Unknown PROVE Sending' /\ Polling' /\ Done'
    <3>1. CASE op \in Reading
      BY <1>1, <1>4, <1>6, <2>1, <2>3, <3>1 DEF Sending, Polling, Done
    <3>2. CASE op \in Changing
      <4>1. ~chip.busy /\ expect.mem = Final(mem) /\ expect.sr = chip.sr /\ expect' = expect
        BY <1>1, <1>5, <2>3, <3>2
      <4>2. Final(mem) = mem
        <5>1. op = "prog" => \A a \in Cells : a \notin address .. w.addr + Len(w.data) - 1
          <6> SUFFICES ASSUME op = "prog", NEW a \in Cells PROVE a \notin address .. w.addr + Len(w.data) - 1
            OBVIOUS
          <6>1. Len(left) = 0
            BY <1>8
          <6>2. address = w.addr + Len(w.data) /\ address \in Nat
            BY <1>3, <6>1
          <6> DEFINE n == w.addr + Len(w.data)
          <6>3. n \in Nat /\ address = n
            BY <6>2
          <6> HIDE DEF n
          <6>4. a \in Nat /\ a \notin n .. n - 1
            BY <6>3, GeometryAssumption DEF Cells
          <6>5. \A x, y \in Nat : n = x + y => x + y - 1 = n - 1
            BY <6>3
          <6>6. w.addr \in Nat /\ Len(w.data) \in Nat
            BY <1>3
          <6>7. w.addr + Len(w.data) - 1 = n - 1
            BY <6>5, <6>6 DEF n
          <6> QED BY <6>3, <6>4, <6>7
        <5> QED BY <1>2, <5>1 DEF Final
      <4> QED BY <1>1, <1>6, <2>1, <3>2, <4>1, <4>2 DEF Sending, Polling, Done
    <3>3. CASE op \notin Reading \cup Changing
      BY <1>1, <3>3 DEF Sending, Polling, Done
    <3> QED BY <3>1, <3>2, <3>3
  <2> QED BY <1>2, <2>2, <2>3 DEF OnCourse
<1> QED BY <1>7, <1>8

(* StopsCourse: the answer to w25q_init, and the restarts. *)
LEMMA StopsCourse ==
  ASSUME EffectInv, CheckId \/ Restart \/ PowerLoss
  PROVE  Booleans' /\ Suffix' /\ Harmless' /\ OnCourse'
<1>1. CASE CheckId
  <2>1. /\ pc = "id" /\ UNCHANGED <<mem, chip, op, todo, address, w, left>> /\ pc' \in {"ready", "off"}
        /\ expect' # Unknown => expect' = expect
    BY <1>1 DEF CheckId, write
  <2>2. op \in Reading /\ op \notin Changing
    BY <2>1 DEF EffectInv, Harmless, Reading, Changing
  <2> QED BY <2>1, <2>2 DEF EffectInv, Booleans, Suffix, Harmless, OnCourse, Sending, Polling, Done
<1>2. CASE Restart \/ PowerLoss
  <2>1. /\ pc' = "off" /\ op' = "none" /\ expect' = Unknown
        /\ UNCHANGED <<mem, chip>> \/ (Abort /\ chip' = [Quiet(chip) EXCEPT !.asleep = FALSE])
    BY <1>2 DEF Restart, PowerLoss, Off
  <2>2. Booleans'
    <3>1. CASE UNCHANGED <<mem, chip>>
      BY <2>1, <3>1 DEF EffectInv, Booleans, Calls
    <3>2. CASE Abort /\ chip' = [Quiet(chip) EXCEPT !.asleep = FALSE]
      <4>1. mem' \in [Cells -> BOOLEAN]
        BY <3>2, DoneIsBoolean DEF Abort, EffectInv
      <4>2. chip'.job = NoJob /\ DOMAIN NoJob = {}
        BY <3>2 DEF EffectInv, IInv, Typed, IsChip, Latches, Quiet, NoJob
      <4> QED BY <2>1, <4>1, <4>2 DEF Booleans, Calls
    <3> QED BY <2>1, <3>1, <3>2
  <2> QED BY <2>1, <2>2 DEF Suffix, Harmless, OnCourse
<1> QED BY <1>1, <1>2

-----------------------------------------------------------------------------
LEMMA EffectInitially == Init => EffectInv
<1> SUFFICES ASSUME Init PROVE EffectInv
  OBVIOUS
<1>1. /\ mem = Erased(Cells) /\ chip.job = NoJob /\ pc = "off" /\ op = "none" /\ expect = Unknown
  BY DEF Init
<1>2. Booleans
  <2>1. DOMAIN NoJob = {}
    BY DEF NoJob
  <2> QED BY <1>1, <2>1 DEF Booleans, Erased, Calls
<1> QED BY <1>1, <1>2, Initially DEF EffectInv, Suffix, Harmless, OnCourse

LEMMA EffectStep == EffectInv /\ [Next]_vars => EffectInv'
<1> SUFFICES ASSUME EffectInv, [Next]_vars PROVE EffectInv'
  OBVIOUS
<1>1. IInv'
  BY EveryStep DEF EffectInv
<1>2. Booleans' /\ Suffix' /\ Harmless' /\ OnCourse'
  <2>1. CASE UNCHANGED vars
    <3>1. UNCHANGED <<mem, chip, pc, op, todo, address, w, left, expect>>
      BY <2>1 DEF vars, write
    <3>2. Booleans' /\ Suffix' /\ Harmless'
      BY <3>1 DEF EffectInv, Booleans, Suffix, Harmless
    <3>3. \A c : Applied(c)' = Applied(c) /\ Stored(c)' = Stored(c)
      BY <3>1 DEF Applied, Stored, Job, Programmed
    <3>4. Sending => Sending'
      <4>1. PICK c : c = todo[Len(todo)]
        OBVIOUS
      <4>2. Final(Applied(c))' = Final(Applied(c)) /\ Stored(c)' = Stored(c)
        BY <3>1, <3>3 DEF Final
      <4> QED BY <3>1, <4>1, <4>2 DEF Sending
    <3>5. Final(Settled)' = Final(Settled)
      BY <3>1 DEF Final, Settled, DoneUpTo
    <3> QED BY <3>1, <3>2, <3>4, <3>5 DEF EffectInv, OnCourse, Polling, Done
  <2> QED BY <2>1, FinishCourse, TransactionCourse, SimplesCourse, ErasesCourse, RegistersCourse, ProgCourse,
             PollsCourse, StopsCourse DEF Next
<1> QED BY <1>1, <1>2 DEF EffectInv

(* CallsTakeEffect (w25q_write, the sector and chip erase, w25q_write_SR1  *)
(* to _SR3): a call during which no transaction failed has done to every   *)
(* cell and status register what it is for and nothing else, and has       *)
(* waited for the chip to finish, for any geometry and any write.          *)
THEOREM CallsTakeEffect == Spec => []CallTakesEffect
<1>1. EffectInv => CallTakesEffect
  <2> SUFFICES ASSUME EffectInv, pc = "ready", expect # Unknown,
                      op \notin {"block_erase_32k", "block_erase_64k"}
               PROVE  mem = expect.mem /\ chip.sr = expect.sr /\ ~chip.busy
    BY DEF CallTakesEffect
  <2>1. op \in Reading \/ op \in Changing
    BY DEF EffectInv, Booleans, Calls, Harmless
  <2> QED BY <2>1 DEF EffectInv, OnCourse, Done
<1>2. EffectInv /\ [Next]_vars => EffectInv'
  BY EffectStep
<1> QED BY <1>1, <1>2, EffectInitially, PTL DEF Spec

=============================================================================
