----------------------------- MODULE ComPacket -----------------------------
(***************************************************************************)
(* Src/com_packet.c: packets are made by one program, sent as bytes, and   *)
(* searched for by another in whatever its receive buffer holds.  Between  *)
(* the two, bytes may come before or after the packet, be cut off, or one  *)
(* of them be damaged.  com_packet_parse runs one iteration per step while *)
(* the tick goes on.                                                       *)
(*                                                                         *)
(* A uint32_t of a packet is kept as the four bytes it is sent as.         *)
(***************************************************************************)
EXTENDS Integers, Sequences

CONSTANTS
  COM_PACKET_PAYLOAD_SIZE,
  Crc(_),          \* crc32_calc, of the bytes of whole words
  source_address, dest_address,
  Payloads,        \* what callers pass as data or para_data
  Beyond,          \* the bytes behind a packet in its maker's memory
  NULL,            \* para_data may also be that
  Commands,        \* values of cmd_type_t
  SetCommands,     \* CMD_SET_CAL, CMD_SET_ALPHA
  ParaCommands,    \* CMD_GET_CAL, CMD_GET_POS, CMD_GET_ALPHA, CMD_STEP_ON, CMD_STEP_OFF
  Before, After,   \* what may surround a packet in the receive buffer
  Timeouts,        \* values of cp_timeout
  Reused,          \* bound: packets that a receiver may leave as they are and parse into again
  TickMod,         \* the tick counts modulo this
  MaxElapsed       \* bound: ticks while a parse runs

Byte == 0 .. 255

(* The longest payload_length, of a report, is still one byte.             *)
ASSUME PayloadAssumption == COM_PACKET_PAYLOAD_SIZE % 4 = 0 /\ COM_PACKET_PAYLOAD_SIZE \in 8 .. 128
ASSUME BytesAssumption ==
  /\ Commands \cup {source_address, dest_address} \subseteq Byte
  /\ Payloads \cup Before \cup After \subseteq Seq(Byte)
ASSUME BeyondAssumption == Beyond \in [1 .. COM_PACKET_PAYLOAD_SIZE -> Byte]
ASSUME CommandAssumption ==
  SetCommands \subseteq Commands /\ ParaCommands \subseteq Commands /\ NULL \notin Commands
ASSUME TickAssumption ==
  /\ TickMod \in Nat \ {0} /\ MaxElapsed \in Nat /\ MaxElapsed < TickMod
  /\ Timeouts \subseteq 0 .. TickMod - 1

COM_PACKET_HEADER_SIZE == 14
COM_PACKET_VERSION == 2
COM_ADDR_NONE == 0
COM_PACKET_NORMAL == 0
COM_PACKET_CMD == 1
COM_PACKET_ACK == 2
COM_PACKET_NACK == 3
COM_PACKET_FALSE == 4
COM_PACKET_BAD_CRC == 5
COM_PACKET_POS == 6
COM_PACKET_CAL_FACTOR == 7
COM_PACKET_DEVICES == 8
COM_PACKET_TIMEOUT == 9
COM_PACKET_NOINIT == 10
CMD_BAD_CMD == 255

(* The special types that carry a payload. *)
Reports == {COM_PACKET_POS, COM_PACKET_CAL_FACTOR, COM_PACKET_DEVICES}

U32(k) == <<k % 256, (k \div 256) % 256, 0, 0>>
ZeroU32 == <<0, 0, 0, 0>>
ACK_CRC32 == <<1, 208, 188, 10>>
NACK_CRC32 == <<2, 208, 188, 10>>

VARIABLES
  required_cb_registered, cp_timeout,
  sent,            \* the packet made last
  order,           \* history: the command it was made for, in full, or NULL
  data,            \* the receive buffer
  pc, index, retval, timeout_counter, packet,    \* com_packet_parse
  given,           \* history: what packet held when the parse began
  now,             \* get_tick()
  elapsed          \* history: ticks since the parse began

parse == <<index, retval, timeout_counter, packet, given>>
time == <<now, elapsed>>
vars == <<required_cb_registered, cp_timeout, sent, order, data, pc, parse, time>>

NoPayload == [i \in 1 .. COM_PACKET_PAYLOAD_SIZE |-> 0]

com_packet_clear ==
  [version |-> COM_PACKET_VERSION, src_addr |-> source_address,
   dest_addr |-> COM_ADDR_NONE, packet_type |-> COM_PACKET_NORMAL,
   payload_length |-> 0, padding |-> 0, packet_size |-> ZeroU32, crc32 |-> ZeroU32,
   payload |-> NoPayload]

(* A payload that starts with these bytes; what does not fit is cut.       *)
Payload(bytes) ==
  [i \in 1 .. COM_PACKET_PAYLOAD_SIZE |-> IF i <= Len(bytes) THEN bytes[i] ELSE 0]

(* The first bytes of a payload; a payload_length that is too large reads  *)
(* on behind the packet.                                                   *)
Held(payload, length) == SubSeq(payload \o Beyond, 1, length)

(* crc32_calc is given payload_length / 4 words. *)
WordsOf(payload, length) == Held(payload, length - (length % 4))

(* How the creators end: the addresses, the type, the size and the crc.    *)
Seal(type, payload, length, padding) ==
  [version |-> COM_PACKET_VERSION, src_addr |-> source_address,
   dest_addr |-> dest_address, packet_type |-> type,
   payload_length |-> length, padding |-> padding,
   packet_size |-> U32(COM_PACKET_HEADER_SIZE + length),
   crc32 |-> Crc(WordsOf(payload, length)), payload |-> payload]

PaddingAfter(size) == 4 - (size % 4)

(* Variant: the length is stored before it is cut. *)
CreateUncut(bytes) ==
  [Seal(COM_PACKET_NORMAL, Payload(bytes), COM_PACKET_PAYLOAD_SIZE, 0)
     EXCEPT !.payload_length = Len(bytes) + PaddingAfter(Len(bytes))]

com_packet_create(bytes) ==
  IF Len(bytes) >= COM_PACKET_PAYLOAD_SIZE
  THEN Seal(COM_PACKET_NORMAL, Payload(bytes), COM_PACKET_PAYLOAD_SIZE, 0)
  ELSE Seal(COM_PACKET_NORMAL, Payload(bytes), Len(bytes) + PaddingAfter(Len(bytes)),
            PaddingAfter(Len(bytes)))

(* payload_length and padding of a command.  Without para_data a command   *)
(* that takes parameters keeps the payload length of a cleared packet.     *)
CmdExtent(command, para) ==
  IF command \notin SetCommands \cup ParaCommands THEN <<4, 3>>
  ELSE IF para = NULL THEN <<0, 0>>
  ELSE IF command \in SetCommands /\ Len(para) >= COM_PACKET_PAYLOAD_SIZE
  THEN <<COM_PACKET_PAYLOAD_SIZE, 0>>
  ELSE <<Len(para) + 1 + PaddingAfter(Len(para) + 1), PaddingAfter(Len(para) + 1)>>

CmdParameters(command, para) ==
  IF command \in SetCommands \cup ParaCommands /\ para # NULL THEN para ELSE << >>

(* Variant: the command is put where the parameters end. *)
CreateCmdNoOffset(command, para) ==
  LET extent == CmdExtent(command, para)
  IN  Seal(COM_PACKET_CMD, Payload(CmdParameters(command, para) \o <<command>>),
           extent[1], extent[2])

(* payload[0] is the command. *)
com_packet_create_cmd(command, para) ==
  LET extent == CmdExtent(command, para)
  IN  Seal(COM_PACKET_CMD, Payload(<<command>> \o CmdParameters(command, para)),
           extent[1], extent[2])

com_packet_get_cmd(p) == IF p.packet_type = COM_PACKET_CMD THEN p.payload[1] ELSE CMD_BAD_CMD

(* com_packet_create_special; a NULL para_data leaves the packet cleared.  *)
(* The padding of a report takes in the size once more.                    *)
ReportPadding(size) == size + PaddingAfter(size)

com_packet_create_special(type, para) ==
  CASE type \in {COM_PACKET_BAD_CRC, COM_PACKET_FALSE, COM_PACKET_CMD} -> com_packet_clear
    [] type = COM_PACKET_ACK -> [Seal(type, NoPayload, 0, 0) EXCEPT !.crc32 = ACK_CRC32]
    [] type = COM_PACKET_NACK -> [Seal(type, NoPayload, 0, 0) EXCEPT !.crc32 = NACK_CRC32]
    [] type = COM_PACKET_NORMAL -> IF para = NULL THEN com_packet_clear ELSE com_packet_create(para)
    [] OTHER ->
         IF para = NULL THEN com_packet_clear
         ELSE IF Len(para) >= COM_PACKET_PAYLOAD_SIZE
         THEN Seal(type, Payload(para), COM_PACKET_PAYLOAD_SIZE, 0)
         ELSE Seal(type, Payload(para), Len(para) + ReportPadding(Len(para)),
                   ReportPadding(Len(para)))

(* The bytes of a packet on the line. *)
Frame(p) ==
  <<p.version, p.src_addr, p.dest_addr, p.packet_type, p.payload_length, p.padding>>
    \o p.packet_size \o p.crc32 \o Held(p.payload, p.payload_length)

(* cp_buf_to_packet: the bytes beyond payload_length keep what they held,  *)
(* and so do all if there would be too many.                               *)
cp_buf_to_packet(p, buf, at) ==
  [version |-> buf[at + 1], src_addr |-> buf[at + 2], dest_addr |-> buf[at + 3],
   packet_type |-> buf[at + 4], payload_length |-> buf[at + 5], padding |-> buf[at + 6],
   packet_size |-> SubSeq(buf, at + 7, at + 10), crc32 |-> SubSeq(buf, at + 11, at + 14),
   payload |-> [i \in 1 .. COM_PACKET_PAYLOAD_SIZE |->
                  IF i <= buf[at + 5] /\ buf[at + 5] <= COM_PACKET_PAYLOAD_SIZE THEN buf[at + 14 + i] ELSE p.payload[i]]]

(* Variant: the payload_length is not compared with what fits. *)
WellFormedAnySize(buf, at) ==
  /\ buf[at + 1] = COM_PACKET_VERSION
  /\ SubSeq(buf, at + 7, at + 10) = U32(COM_PACKET_HEADER_SIZE + buf[at + 5])
  /\ at + COM_PACKET_HEADER_SIZE + buf[at + 5] <= Len(buf)

(* Variant: a packet that ends exactly with the buffer is not seen. *)
WellFormedBefore(buf, at) ==
  /\ buf[at + 1] = COM_PACKET_VERSION
  /\ buf[at + 5] <= COM_PACKET_PAYLOAD_SIZE
  /\ SubSeq(buf, at + 7, at + 10) = U32(COM_PACKET_HEADER_SIZE + buf[at + 5])
  /\ at + COM_PACKET_HEADER_SIZE + buf[at + 5] < Len(buf)

WellFormed(buf, at) ==
  /\ buf[at + 1] = COM_PACKET_VERSION
  /\ buf[at + 5] <= COM_PACKET_PAYLOAD_SIZE
  /\ SubSeq(buf, at + 7, at + 10) = U32(COM_PACKET_HEADER_SIZE + buf[at + 5])
  /\ at + COM_PACKET_HEADER_SIZE + buf[at + 5] <= Len(buf)

(* Variant: a packet of the plain type is taken without looking at its crc.*)
CrcMatchesAlways(buf, at) == TRUE

CrcMatches(buf, at) ==
  SubSeq(buf, at + 11, at + 14)
    = Crc(WordsOf(SubSeq(buf, at + 15, at + 14 + buf[at + 5]), buf[at + 5]))

(* The switch on the packet type: what retval becomes if it was r.  The    *)
(* reports compare with a crc that is not calculated.                      *)
Verdict(buf, at, r) ==
  LET type == buf[at + 4]
      crc == SubSeq(buf, at + 11, at + 14)
      Or(test, otherwise) == IF test THEN type ELSE otherwise
  IN  CASE type = COM_PACKET_NORMAL -> Or(CrcMatches(buf, at), r)
        [] type = COM_PACKET_CMD -> Or(CrcMatches(buf, at), COM_PACKET_BAD_CRC)
        [] type = COM_PACKET_ACK -> Or(crc = ACK_CRC32, COM_PACKET_BAD_CRC)
        [] type = COM_PACKET_NACK -> Or(crc = NACK_CRC32, COM_PACKET_BAD_CRC)
        [] type \in Reports -> Or(crc = ZeroU32, COM_PACKET_BAD_CRC)
        [] OTHER -> COM_PACKET_FALSE

Carrying == {COM_PACKET_NORMAL, COM_PACKET_CMD} \cup Reports

-----------------------------------------------------------------------------
Init ==
  /\ required_cb_registered = FALSE
  /\ cp_timeout \in Timeouts
  /\ sent = com_packet_clear /\ order = NULL
  /\ data = << >>
  /\ pc = "ready" /\ index = 0 /\ retval = COM_PACKET_FALSE /\ timeout_counter = 0
  /\ packet = com_packet_clear /\ given = packet
  /\ now \in 0 .. TickMod - 1 /\ elapsed = 0

com_packet_init ==
  /\ pc = "ready" /\ ~required_cb_registered
  /\ required_cb_registered' = TRUE
  /\ UNCHANGED <<cp_timeout, sent, order, data, pc, parse, time>>

Make(command) ==
  /\ pc = "ready" /\ required_cb_registered
  /\ pc' = "made"
  /\ order' = command
  /\ UNCHANGED <<required_cb_registered, cp_timeout, data, parse, time>>

Create == \E d \in Payloads : Make(NULL) /\ sent' = com_packet_create(d)

(* The parameters of a command that does not cut them fit: more would be   *)
(* written behind the packet.  The padding need not fit.                   *)
Parameters(c) ==
  {d \in Payloads \cup {NULL} : c \in ParaCommands /\ d # NULL => Len(d) < COM_PACKET_PAYLOAD_SIZE}

CreateCmd ==
  \E c \in Commands : \E d \in Parameters(c) :
    /\ Make(IF d = NULL /\ c \in SetCommands \cup ParaCommands THEN NULL ELSE c)
    /\ sent' = com_packet_create_cmd(c, d)

CreateSpecial ==
  \E t \in {COM_PACKET_ACK, COM_PACKET_NACK, COM_PACKET_FALSE} \cup Reports, d \in Payloads \cup {NULL} :
    Make(NULL) /\ sent' = com_packet_create_special(t, d)

(* The packet arrives whole, cut short, or with one byte damaged.          *)
Arrivals(b, p) ==
  LET f == Frame(p)
  IN  {b \o f \o a : a \in After}
        \cup {b \o SubSeq(f, 1, k) : k \in 0 .. Len(f) - 1}
        \cup {b \o [f EXCEPT ![k] = (@ + 1) % 256] : k \in 1 .. Len(f)}

Arrive ==
  /\ pc = "made"
  /\ pc' = "arrived"
  /\ \E b \in Before : data' \in Arrivals(b, sent)
  /\ UNCHANGED <<required_cb_registered, cp_timeout, sent, order, parse, time>>

ParseTooEarly ==
  /\ pc = "ready" /\ ~required_cb_registered /\ retval # COM_PACKET_NOINIT
  /\ retval' = COM_PACKET_NOINIT
  /\ UNCHANGED <<required_cb_registered, cp_timeout, sent, order, data, pc, index,
                 timeout_counter, packet, given, time>>

ParseBegin ==
  /\ pc = "arrived"
  /\ pc' = IF Len(data) < COM_PACKET_HEADER_SIZE THEN "done" ELSE "parsing"
  /\ index' = 0 /\ retval' = COM_PACKET_FALSE /\ timeout_counter' = now
  /\ elapsed' = 0
  /\ UNCHANGED <<required_cb_registered, cp_timeout, sent, order, data, packet, given, now>>

Searching ==
  /\ pc = "parsing"
  /\ index + COM_PACKET_HEADER_SIZE <= Len(data) /\ retval = COM_PACKET_FALSE

(* Variant: the time-out comes when its last tick begins. *)
TimedOutAtLimit == (now - timeout_counter) % TickMod >= cp_timeout

TimedOut == (now - timeout_counter) % TickMod > cp_timeout

ParseStep ==
  /\ Searching
  /\ LET r == IF TimedOut THEN COM_PACKET_TIMEOUT ELSE COM_PACKET_FALSE
     IN  retval' = IF WellFormed(data, index) THEN Verdict(data, index, r) ELSE r
  /\ packet' = IF retval' \in Carrying THEN cp_buf_to_packet(packet, data, index) ELSE packet
  /\ index' = index + 1
  /\ UNCHANGED <<required_cb_registered, cp_timeout, sent, order, data, pc,
                 timeout_counter, given, time>>

ParseReturn ==
  /\ pc = "parsing" /\ ~Searching
  /\ pc' = "done"
  /\ UNCHANGED <<required_cb_registered, cp_timeout, sent, order, data, parse, time>>

Tick ==
  /\ Searching /\ elapsed < MaxElapsed
  /\ now' = (now + 1) % TickMod
  /\ elapsed' = elapsed + 1
  /\ UNCHANGED <<required_cb_registered, cp_timeout, sent, order, data, pc, parse>>

(* The receiver goes on with another timeout.  Nothing clears its packet   *)
(* but the receiver itself.                                                *)
Again ==
  /\ pc = "done"
  /\ pc' = "ready"
  /\ packet' = com_packet_clear \/ (packet \in Reused /\ packet' = packet)
  /\ given' = packet'
  /\ cp_timeout' \in Timeouts
  /\ sent' = com_packet_clear /\ order' = NULL /\ data' = << >>
  /\ index' = 0 /\ retval' = COM_PACKET_FALSE /\ timeout_counter' = 0
  /\ elapsed' = 0
  /\ UNCHANGED <<required_cb_registered, now>>

Next ==
  \/ com_packet_init \/ Create \/ CreateCmd \/ CreateSpecial
  \/ Arrive \/ ParseTooEarly \/ ParseBegin \/ ParseStep \/ ParseReturn \/ Tick \/ Again

Spec == Init /\ [][Next]_vars

-----------------------------------------------------------------------------
PacketType(longest) ==
  [version : Byte, src_addr : Byte, dest_addr : Byte, packet_type : Byte,
   payload_length : 0 .. longest, padding : Byte,
   packet_size : [1 .. 4 -> Byte], crc32 : [1 .. 4 -> Byte],
   payload : [1 .. COM_PACKET_PAYLOAD_SIZE -> Byte]]

(* TypeOK: no plain packet made and no packet taken says it has more       *)
(* payload than fits, and the search stays within the buffer.              *)
TypeOK ==
  /\ required_cb_registered \in BOOLEAN /\ cp_timeout \in Timeouts
  /\ sent \in PacketType(2 * COM_PACKET_PAYLOAD_SIZE - 1)
  /\ sent.packet_type = COM_PACKET_NORMAL => sent \in PacketType(COM_PACKET_PAYLOAD_SIZE)
  /\ packet \in PacketType(COM_PACKET_PAYLOAD_SIZE) /\ given \in PacketType(COM_PACKET_PAYLOAD_SIZE)
  /\ data \in Seq(Byte)
  /\ pc \in {"ready", "made", "arrived", "parsing", "done"}
  /\ index \in 0 .. Len(data)
  /\ retval \in COM_PACKET_NORMAL .. COM_PACKET_NOINIT
  /\ timeout_counter \in 0 .. TickMod - 1
  /\ now \in 0 .. TickMod - 1 /\ elapsed \in 0 .. MaxElapsed

Content(p) == Held(p.payload, p.payload_length)

(* The packet lies whole in the buffer, and nothing before it looks like   *)
(* a packet of a type that ends the search.                                *)
InTheClear ==
  \E b \in 0 .. Len(data) - Len(Frame(sent)) :
    /\ SubSeq(data, b + 1, b + Len(Frame(sent))) = Frame(sent)
    /\ \A i \in 0 .. b - 1 : WellFormed(data, i) =>
         /\ data[i + 4] = COM_PACKET_NORMAL /\ ~CrcMatches(data, i)

(* IntactIsReceived: a parse in time finds an intact packet whatever noise *)
(* or broken packet lies before it, takes it with all its fields, and a    *)
(* command arrives as the command it was made with.  (Reports, and         *)
(* commands made without their para_data, do not: see the README.)         *)
IntactIsReceived ==
  pc = "done" /\ elapsed <= cp_timeout /\ InTheClear
    /\ sent.packet_type \in {COM_PACKET_NORMAL, COM_PACKET_CMD, COM_PACKET_ACK, COM_PACKET_NACK}
    /\ sent.packet_size # ZeroU32 /\ sent.payload_length <= COM_PACKET_PAYLOAD_SIZE =>
  /\ retval = sent.packet_type
  /\ retval \in Carrying =>
       /\ Frame(packet) = Frame(sent)
       /\ order # NULL => com_packet_get_cmd(packet) = order

(* ReportsAreRefused: an intact report ends the search as a damaged one    *)
(* would, unless its check sum happens to be 0: the parser compares with   *)
(* that, the creator stores the one of the payload.                        *)
ReportsAreRefused ==
  pc = "done" /\ elapsed <= cp_timeout /\ InTheClear
    /\ sent.packet_type \in Reports /\ sent.payload_length <= COM_PACKET_PAYLOAD_SIZE =>
  retval = IF sent.crc32 = ZeroU32 THEN sent.packet_type ELSE COM_PACKET_BAD_CRC

(* AcceptedIsThere: a packet that a parse hands over lies in the buffer    *)
(* byte for byte, no longer than a payload is, and the check sum of a      *)
(* plain packet or a command is the check sum of the payload handed over.  *)
AcceptedIsThere ==
  pc = "done" /\ retval \in Carrying =>
    /\ retval = packet.packet_type
    /\ \E at \in 0 .. Len(data) - Len(Frame(packet)) :
         SubSeq(data, at + 1, at + Len(Frame(packet))) = Frame(packet)
    /\ retval \in {COM_PACKET_NORMAL, COM_PACKET_CMD} =>
         packet.crc32 = Crc(WordsOf(packet.payload, packet.payload_length))

Acknowledgement == Frame(com_packet_create_special(COM_PACKET_ACK, NULL))

(* The search goes on behind such a place. *)
Passed(at) == WellFormed(data, at) => Verdict(data, at, COM_PACKET_FALSE) = COM_PACKET_FALSE

(* Nothing in the buffer is a packet but the one sent, or what is left of  *)
(* it, and acknowledgements.                                               *)
Alone ==
  \E b \in Before :
    /\ data \in Arrivals(b, sent)
    /\ \A i \in 0 .. Len(data) - COM_PACKET_HEADER_SIZE :
         i # Len(b) => Passed(i) \/ SubSeq(data, i + 1, i + COM_PACKET_HEADER_SIZE) = Acknowledgement

(* AcceptedWasSent: a packet that a parse hands over carries the payload   *)
(* that was sent, whatever was cut off, damaged or left in the buffer, if  *)
(* neither that nor a payload holds another packet.                        *)
AcceptedWasSent ==
  pc = "done" /\ retval \in {COM_PACKET_NORMAL, COM_PACKET_CMD} /\ Alone =>
    Content(packet) = Content(sent)

(* CommandIsOrdered: a command that a parse hands over is the one that the *)
(* last packet was made for.  If that was made without its parameters, it  *)
(* carries no payload, and what is read is the first byte that the         *)
(* receiver's packet held before: 0, or the command taken before it.       *)
CommandIsOrdered ==
  pc = "done" /\ retval = COM_PACKET_CMD /\ sent.packet_type = COM_PACKET_CMD /\ Alone =>
    com_packet_get_cmd(packet) = IF order = NULL THEN given.payload[1] ELSE order

AckBehind ==
  \E n \in 0 .. Len(data) : SubSeq(data, n + 1, Len(data)) = Acknowledgement

(* OversizeIsPassedOver: a packet that its creator gave a payload_length   *)
(* larger than the payload (com_packet.c:167, 183, 265) is not taken, and  *)
(* an ACK that lies behind it is found all the same.                       *)
OversizeIsPassedOver ==
  pc = "done" /\ sent.payload_length > COM_PACKET_PAYLOAD_SIZE /\ Alone =>
    /\ retval \notin Carrying /\ packet = given
    /\ elapsed <= cp_timeout /\ AckBehind => retval = COM_PACKET_ACK

(* TimeoutIsReal: a parse gives up only after more than cp_timeout ticks,  *)
(* also when the tick wraps in the middle, and it has then taken nothing.  *)
TimeoutIsReal ==
  pc = "done" /\ retval = COM_PACKET_TIMEOUT =>
    elapsed > cp_timeout /\ packet = given

(* CrcTells: what the theorems about AcceptedWasSent and CommandIsOrdered  *)
(* assume of the check sum: it sees one damaged byte.                      *)
CrcTells ==
  \A p \in {com_packet_create(d) : d \in Payloads}
             \cup UNION {{com_packet_create_cmd(c, d) : d \in Parameters(c)} : c \in Commands} :
    LET words == WordsOf(p.payload, p.payload_length)
    IN  \A k \in 1 .. Len(words) : Crc([words EXCEPT ![k] = (@ + 1) % 256]) # Crc(words)

=============================================================================
