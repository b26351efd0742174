-------------------------- MODULE ComPacket_proofs --------------------------
(***************************************************************************)
(* For any tick, time-outs, buffers and check sum: com_packet_parse gives  *)
(* up only when more than cp_timeout ticks have gone by, though it sees    *)
(* the tick only modulo TickMod.  For any check sum of four bytes: what    *)
(* the creators make and the parser takes is a packet, whatever bytes      *)
(* arrive, and a packet that arrives intact is received, with all its      *)
(* fields, however much lies before and behind it; and what is handed over *)
(* lies in the buffer, with the check sum it says.  Reports are refused,   *)
(* unless their check sum is 0.  If nothing else in the buffer is a packet *)
(* (Alone), one whose length is too large is passed over, and, for a check *)
(* sum that tells one damaged byte, what is handed over has the payload,   *)
(* and orders the command, that was sent; without a payload it orders what *)
(* the receiver's packet held before.                                      *)
(***************************************************************************)
EXTENDS ComPacket, SequenceTheorems, TLAPS

(* A packet other than the one a parse was given was taken by that parse. *)
Untaken == packet = given

IInv ==
  /\ cp_timeout \in Timeouts
  /\ now \in 0 .. TickMod - 1 /\ elapsed \in 0 .. MaxElapsed
  /\ pc \in {"ready", "made", "arrived", "parsing", "done"}
  /\ pc = "parsing" => /\ timeout_counter \in 0 .. TickMod - 1
                       /\ (timeout_counter + elapsed) % TickMod = now
  /\ pc \in {"parsing", "done"} /\ retval = COM_PACKET_TIMEOUT => elapsed > cp_timeout
  /\ ~Untaken => pc \in {"parsing", "done"} /\ retval \in Carrying

(* Codes: the results of a parse that carry a packet are not the others. *)
LEMMA Codes ==
  /\ COM_PACKET_TIMEOUT \notin Carrying /\ COM_PACKET_FALSE \notin Carrying
  /\ COM_PACKET_NOINIT \notin Carrying /\ COM_PACKET_TIMEOUT # COM_PACKET_FALSE
  /\ COM_PACKET_TIMEOUT # COM_PACKET_BAD_CRC
BY DEF Carrying, Reports, COM_PACKET_TIMEOUT, COM_PACKET_FALSE, COM_PACKET_NOINIT,
       COM_PACKET_NORMAL, COM_PACKET_CMD, COM_PACKET_POS, COM_PACKET_CAL_FACTOR,
       COM_PACKET_DEVICES, COM_PACKET_BAD_CRC

(* TickIsElapsed: the difference of two ticks is the time between them,    *)
(* wherever the tick wraps, as long as it is less than a whole turn.       *)
LEMMA TickIsElapsed ==
  ASSUME NEW t \in 0 .. TickMod - 1, NEW e \in 0 .. MaxElapsed
  PROVE  /\ ((t + e) % TickMod) \in 0 .. TickMod - 1
         /\ (((t + e) % TickMod) - t) % TickMod = e
         /\ (((t + e) % TickMod) + 1) % TickMod = (t + (e + 1)) % TickMod
<1>1. CASE t + e < TickMod
  <2>1. (t + e) % TickMod = t + e /\ e % TickMod = e
    BY <1>1, TickAssumption
  <2>2. QED
    BY <2>1, <1>1, TickAssumption
<1>2. CASE t + e >= TickMod
  <2>1. (t + e) % TickMod = t + e - TickMod
    BY <1>2, TickAssumption
  <2>2. (e - TickMod) % TickMod = e
    BY TickAssumption
  <2>3. (t + e - TickMod) + 1 < TickMod
    BY <1>2, TickAssumption
  <2>4. (t + (e + 1)) % TickMod = t + (e + 1) - TickMod
    BY <1>2, TickAssumption
  <2>5. ((t + e - TickMod) + 1) % TickMod = t + (e + 1) - TickMod
    BY <1>2, <2>3, TickAssumption
  <2>6. QED
    BY <1>2, <2>1, <2>2, <2>4, <2>5, TickAssumption
<1>3. QED
  BY <1>1, <1>2, TickAssumption

(* VerdictIsNotTime: no packet makes a parse end as timed out. *)
LEMMA VerdictIsNotTime ==
  ASSUME NEW buf, NEW at, NEW r, Verdict(buf, at, r) = COM_PACKET_TIMEOUT
  PROVE  r = COM_PACKET_TIMEOUT
BY DEF Verdict, Reports, COM_PACKET_TIMEOUT, COM_PACKET_FALSE, COM_PACKET_NORMAL,
       COM_PACKET_CMD, COM_PACKET_ACK, COM_PACKET_NACK, COM_PACKET_POS,
       COM_PACKET_CAL_FACTOR, COM_PACKET_DEVICES, COM_PACKET_BAD_CRC

-----------------------------------------------------------------------------
(* Initially: IInv when the program starts. *)
LEMMA Initially == Init => IInv
BY TickAssumption DEF Init, IInv, Untaken

(* StepKept: an iteration of the search keeps IInv. *)
LEMMA StepKept ==
  ASSUME IInv, ParseStep
  PROVE  IInv'
<1>1. /\ pc = "parsing" /\ retval = COM_PACKET_FALSE
      /\ UNCHANGED <<cp_timeout, pc, timeout_counter, given, now, elapsed>>
  BY DEF ParseStep, Searching, time
<1>2. packet' = packet \/ retval' \in Carrying
  BY DEF ParseStep
<1>3. Untaken
  BY <1>1, Codes DEF IInv
<1>4. retval' = COM_PACKET_TIMEOUT => TimedOut
  <2> DEFINE r == IF TimedOut THEN COM_PACKET_TIMEOUT ELSE COM_PACKET_FALSE
  <2>1. retval' = IF WellFormed(data, index) THEN Verdict(data, index, r) ELSE r
    BY DEF ParseStep
  <2> HIDE DEF r
  <2>2. retval' = COM_PACKET_TIMEOUT => r = COM_PACKET_TIMEOUT
    BY <2>1, VerdictIsNotTime
  <2>3. QED
    BY <2>2, Codes DEF r
<1>5. TimedOut => elapsed > cp_timeout
  BY <1>1, TickIsElapsed DEF TimedOut, IInv
<1>6. QED
  BY <1>1, <1>2, <1>3, <1>4, <1>5 DEF IInv, Untaken

(* InvKept: every action keeps IInv. *)
LEMMA InvKept == IInv /\ [Next]_vars => IInv'
<1> SUFFICES ASSUME IInv, [Next]_vars PROVE IInv'
  OBVIOUS
<1> USE DEF IInv, Untaken, time, parse
<1>1. CASE com_packet_init
  BY <1>1 DEF com_packet_init
<1>2. ASSUME NEW c, Make(c) PROVE IInv'
  BY <1>2 DEF Make
<1>3. CASE Create \/ CreateCmd \/ CreateSpecial
  BY <1>2, <1>3 DEF Create, CreateCmd, CreateSpecial
<1>4. CASE Arrive
  BY <1>4 DEF Arrive
<1>6. CASE ParseTooEarly
  BY <1>6, Codes DEF ParseTooEarly
<1>7. CASE ParseBegin
  <2>1. now % TickMod = now /\ 0 \in 0 .. MaxElapsed
    BY TickAssumption
  <2>2. QED
    BY <1>7, <2>1, Codes DEF ParseBegin
<1>8. CASE ParseStep
  BY <1>8, StepKept
<1>9. CASE ParseReturn
  BY <1>9 DEF ParseReturn
<1>10. CASE Tick
  <2>1. pc = "parsing" /\ elapsed' = elapsed + 1 /\ elapsed' \in 0 .. MaxElapsed
        /\ now' = (now + 1) % TickMod
    BY <1>10, TickAssumption DEF Tick, Searching
  <2>2. (timeout_counter + elapsed') % TickMod = now' /\ now' \in 0 .. TickMod - 1
    <3>1. timeout_counter \in 0 .. TickMod - 1 /\ (timeout_counter + elapsed) % TickMod = now
      BY <2>1
    <3>2. (now + 1) % TickMod = (timeout_counter + (elapsed + 1)) % TickMod
      BY <3>1, TickIsElapsed
    <3>3. (now + 1) % TickMod \in 0 .. TickMod - 1
      BY TickAssumption
    <3>4. QED
      BY ONLY <2>1, <3>2, <3>3
  <2>3. retval # COM_PACKET_TIMEOUT
    BY <1>10, Codes DEF Tick, Searching
  <2>4. QED
    BY <1>10, <2>1, <2>2, <2>3 DEF Tick
<1>11. CASE Again
  BY <1>11, Codes, TickAssumption DEF Again
<1>12. CASE UNCHANGED vars
  BY <1>12 DEF vars
<1>13. QED
  BY <1>1, <1>3, <1>4, <1>6, <1>7, <1>8, <1>9, <1>10, <1>11, <1>12 DEF Next

(* TimeoutsAreReal: TimeoutIsReal for any tick and any time-out below its  *)
(* turn, on any buffer.                                                    *)
THEOREM TimeoutsAreReal == Spec => []TimeoutIsReal
<1>1. IInv => TimeoutIsReal
  BY Codes DEF IInv, Untaken, TimeoutIsReal
<1>2. QED
  BY Initially, InvKept, <1>1, PTL DEF Spec

-----------------------------------------------------------------------------
(* crc32_calc returns a uint32_t, whatever it is given. *)
CrcIsWord == \A bytes \in Seq(Byte) : Crc(bytes) \in [1 .. 4 -> Byte]

(* SizeFacts: the constants in numbers. *)
LEMMA SizeFacts ==
  /\ COM_PACKET_PAYLOAD_SIZE \in Nat /\ COM_PACKET_PAYLOAD_SIZE >= 8 /\ COM_PACKET_PAYLOAD_SIZE <= 128
  /\ COM_PACKET_HEADER_SIZE = 14
  /\ Byte = 0 .. 255 /\ 0 \in Byte /\ COM_PACKET_VERSION \in Byte
  /\ Beyond \in Seq(Byte) /\ Len(Beyond) = COM_PACKET_PAYLOAD_SIZE
BY PayloadAssumption, BeyondAssumption DEF COM_PACKET_HEADER_SIZE, Byte, COM_PACKET_VERSION

(* AddressFacts: the addresses and commands are bytes, payloads are made   *)
(* of them.                                                                *)
LEMMA AddressFacts ==
  /\ source_address \in Byte /\ dest_address \in Byte
  /\ Commands \subseteq Byte
  /\ \A d \in Payloads \cup {NULL} : d # NULL => d \in Seq(Byte)
<1>1. {source_address, dest_address} \subseteq Byte /\ Commands \subseteq Byte /\ Payloads \subseteq Seq(Byte)
  BY BytesAssumption, Zenon
<1> QED BY <1>1, Zenon

(* PaddingFacts: the padding is 1 to 4 bytes. *)
LEMMA PaddingFacts ==
  ASSUME NEW k \in Nat
  PROVE  PaddingAfter(k) \in 1 .. 4
<1>1. k % 4 \in 0 .. 3
  OBVIOUS
<1> QED BY <1>1 DEF PaddingAfter

(* WordIsSeq: the four bytes of a uint32_t as a sequence. *)
LEMMA WordIsSeq ==
  ASSUME NEW x \in [1 .. 4 -> Byte]
  PROVE  x \in Seq(Byte) /\ Len(x) = 4
OBVIOUS

(* WordEqual: a uint32_t is its four bytes. *)
LEMMA WordEqual ==
  ASSUME NEW x \in [1 .. 4 -> Byte], NEW y \in [1 .. 4 -> Byte], \A j \in 1 .. 4 : x[j] = y[j]
  PROVE  x = y
OBVIOUS

(* WordTypes: the sizes and check sums of the code are uint32_t. *)
LEMMA WordTypes ==
  /\ \A k \in Nat : U32(k) \in [1 .. 4 -> Byte]
  /\ ZeroU32 \in [1 .. 4 -> Byte] /\ ACK_CRC32 \in [1 .. 4 -> Byte] /\ NACK_CRC32 \in [1 .. 4 -> Byte]
<1>1. ASSUME NEW a \in Byte, NEW b \in Byte, NEW c \in Byte, NEW d \in Byte
      PROVE  <<a, b, c, d>> \in [1 .. 4 -> Byte]
  OBVIOUS
<1>2. \A k \in Nat : k % 256 \in Byte /\ k \div 256 \in Nat
  BY DEF Byte
<1>3. 0 \in Byte /\ 1 \in Byte /\ 2 \in Byte /\ 10 \in Byte /\ 188 \in Byte /\ 208 \in Byte
  BY DEF Byte
<1> HIDE DEF Byte
<1> QED BY <1>1, <1>2, <1>3 DEF U32, ZeroU32, ACK_CRC32, NACK_CRC32

(* SliceIs: a piece of a buffer. *)
LEMMA SliceIs ==
  ASSUME NEW buf \in Seq(Byte), NEW at \in Nat, NEW n \in Nat, at + n <= Len(buf)
  PROVE  LET s == SubSeq(buf, at + 1, at + n)
         IN  s \in Seq(Byte) /\ Len(s) = n /\ \A j \in 1 .. n : s[j] = buf[at + j]
<1>0. PICK l \in Nat : l = Len(buf)
  BY LenProperties
<1>1. \A i \in at + 1 .. at + n : i \in 1 .. Len(buf)
  BY <1>0
<1>2. \A i \in at + 1 .. at + n : buf[i] \in Byte
  BY <1>1, ElementOfSeq
<1>3. /\ SubSeq(buf, at + 1, at + n) \in Seq(Byte)
      /\ Len(SubSeq(buf, at + 1, at + n)) = IF at + 1 <= at + n THEN at + n - (at + 1) + 1 ELSE 0
      /\ \A i \in 1 .. at + n - (at + 1) + 1 : SubSeq(buf, at + 1, at + n)[i] = buf[at + 1 + i - 1]
  <2>1. PICK first \in Int, last \in Int : first = at + 1 /\ last = at + n
    OBVIOUS
  <2>2. \A i \in first .. last : buf[i] \in Byte
    BY <1>2, <2>1
  <2>3. /\ SubSeq(buf, first, last) \in Seq(Byte)
        /\ Len(SubSeq(buf, first, last)) = IF first <= last THEN last - first + 1 ELSE 0
        /\ \A i \in 1 .. last - first + 1 : SubSeq(buf, first, last)[i] = buf[first + i - 1]
    BY <2>2, SubSeqProperties
  <2> QED BY <2>1, <2>3
<1>4. at + n - (at + 1) + 1 = n /\ \A j \in 1 .. n : at + 1 + j - 1 = at + j
  OBVIOUS
<1> QED BY <1>3, <1>4

(* SliceIsWord: four bytes of a buffer as a uint32_t. *)
LEMMA SliceIsWord ==
  ASSUME NEW buf \in Seq(Byte), NEW at \in Nat, at + 14 <= Len(buf)
  PROVE  LET size == SubSeq(buf, at + 7, at + 10)
             crc == SubSeq(buf, at + 11, at + 14)
         IN  /\ size \in [1 .. 4 -> Byte] /\ \A j \in 1 .. 4 : size[j] = buf[at + 6 + j]
             /\ crc \in [1 .. 4 -> Byte] /\ \A j \in 1 .. 4 : crc[j] = buf[at + 10 + j]
<1>0. PICK l \in Nat : l = Len(buf)
  BY LenProperties
<1>1. (at + 6) + 1 = at + 7 /\ (at + 6) + 4 = at + 10 /\ (at + 10) + 1 = at + 11 /\ (at + 10) + 4 = at + 14
  OBVIOUS
<1>2. \A s \in Seq(Byte) : Len(s) = 4 => s \in [1 .. 4 -> Byte]
  <2> TAKE s \in Seq(Byte)
  <2> HAVE Len(s) = 4
  <2>1. s \in [1 .. Len(s) -> Byte]
    BY LenProperties
  <2> QED BY <2>1
<1>3. at + 6 \in Nat /\ (at + 6) + 4 <= Len(buf) /\ at + 10 \in Nat /\ (at + 10) + 4 <= Len(buf)
  BY <1>0
<1>4. LET s == SubSeq(buf, (at + 6) + 1, (at + 6) + 4)
      IN  s \in Seq(Byte) /\ Len(s) = 4 /\ \A j \in 1 .. 4 : s[j] = buf[(at + 6) + j]
  BY <1>3, SliceIs
<1>5. LET s == SubSeq(buf, (at + 10) + 1, (at + 10) + 4)
      IN  s \in Seq(Byte) /\ Len(s) = 4 /\ \A j \in 1 .. 4 : s[j] = buf[(at + 10) + j]
  BY <1>3, SliceIs
<1> QED BY <1>1, <1>2, <1>4, <1>5

(* Appended: where the bytes of two pieces are in the whole. *)
LEMMA Appended ==
  ASSUME NEW s \in Seq(Byte), NEW t \in Seq(Byte)
  PROVE  /\ s \o t \in Seq(Byte) /\ Len(s \o t) = Len(s) + Len(t)
         /\ \A j \in 1 .. Len(s) : (s \o t)[j] = s[j]
         /\ \A j \in 1 .. Len(t) : (s \o t)[Len(s) + j] = t[j]
<1>0. PICK m \in Nat, n \in Nat : m = Len(s) /\ n = Len(t)
  BY LenProperties
<1>1. /\ s \o t \in Seq(Byte) /\ Len(s \o t) = Len(s) + Len(t)
      /\ \A j \in 1 .. Len(s) + Len(t) : (s \o t)[j] = IF j <= Len(s) THEN s[j] ELSE t[j - Len(s)]
  BY ConcatProperties
<1>2. \A j \in 1 .. m + n : (s \o t)[j] = IF j <= m THEN s[j] ELSE t[j - m]
  BY <1>0, <1>1
<1>3. \A j \in 1 .. m : j \in 1 .. m + n /\ j <= m
  OBVIOUS
<1>4. \A j \in 1 .. n : m + j \in 1 .. m + n /\ ~(m + j <= m) /\ (m + j) - m = j
  OBVIOUS
<1>5. \A j \in 1 .. m : (s \o t)[j] = s[j]
  BY <1>2, <1>3
<1>6. \A j \in 1 .. n : (s \o t)[m + j] = t[j]
  <2> TAKE j \in 1 .. n
  <2>1. PICK i : i = m + j
    OBVIOUS
  <2>2. i \in 1 .. m + n /\ ~(i <= m) /\ i - m = j
    BY <1>4, <2>1
  <2>3. (s \o t)[i] = t[i - m]
    BY <1>2, <2>2
  <2> QED BY <2>1, <2>2, <2>3
<1> QED BY <1>0, <1>1, <1>5, <1>6

(* HeldIs: what of a payload, and of the memory behind it, is read. *)
LEMMA HeldIs ==
  ASSUME NEW payload \in Seq(Byte), NEW n \in Nat, n <= Len(payload) + COM_PACKET_PAYLOAD_SIZE
  PROVE  /\ Held(payload, n) \in Seq(Byte) /\ Len(Held(payload, n)) = n
         /\ \A j \in 1 .. n : Held(payload, n)[j] = IF j <= Len(payload) THEN payload[j]
                                                   ELSE Beyond[j - Len(payload)]
<1> DEFINE s == payload \o Beyond
<1>0. PICK l \in Nat : l = Len(payload)
  BY LenProperties
<1>2. PICK z \in Nat : z = COM_PACKET_PAYLOAD_SIZE /\ z = Len(Beyond)
  BY SizeFacts
<1>1. /\ s \in Seq(Byte) /\ Len(s) = l + z
      /\ \A j \in 1 .. l + z : s[j] = IF j <= l THEN payload[j] ELSE Beyond[j - l]
  <2>1. /\ s \in Seq(Byte) /\ Len(s) = Len(payload) + Len(Beyond)
        /\ \A j \in 1 .. Len(payload) + Len(Beyond) :
             s[j] = IF j <= Len(payload) THEN payload[j] ELSE Beyond[j - Len(payload)]
    <3>1. Beyond \in Seq(Byte)
      BY SizeFacts
    <3> QED BY <3>1, ConcatProperties
  <2> QED BY <2>1, <1>0, <1>2
<1> HIDE DEF s
<1>3. \A j \in 1 .. n : j \in 1 .. l + z /\ j \in 1 .. Len(s) /\ s[j] \in Byte
  <2> TAKE j \in 1 .. n
  <2>1. j \in 1 .. l + z /\ j \in 1 .. Len(s)
    BY <1>0, <1>1, <1>2
  <2> QED BY <2>1, <1>1, ElementOfSeq
<1>4. PICK t : t = SubSeq(s, 1, n)
  OBVIOUS
<1>5. t \in Seq(Byte) /\ Len(t) = n /\ \A j \in 1 .. n : t[j] = s[j]
  <2>1. /\ SubSeq(s, 1, n) \in Seq(Byte)
        /\ Len(SubSeq(s, 1, n)) = IF 1 <= n THEN n - 1 + 1 ELSE 0
        /\ \A i \in 1 .. n - 1 + 1 : SubSeq(s, 1, n)[i] = s[1 + i - 1]
    BY <1>3, SubSeqProperties
  <2> QED BY <1>4, <2>1
<1>6. Held(payload, n) = t
  BY <1>4 DEF Held, s
<1> QED BY <1>0, <1>1, <1>3, <1>5, <1>6

(* HeldAlike: payloads that agree are read alike. *)
LEMMA HeldAlike ==
  ASSUME NEW x \in Seq(Byte), NEW y \in Seq(Byte), NEW n \in Nat, n <= Len(x), n <= Len(y),
         \A j \in 1 .. n : x[j] = y[j]
  PROVE  Held(x, n) = Held(y, n)
<1>1. Len(x) \in Nat /\ Len(y) \in Nat
  BY LenProperties
<1>2. n <= Len(x) + COM_PACKET_PAYLOAD_SIZE /\ n <= Len(y) + COM_PACKET_PAYLOAD_SIZE
  BY <1>1, SizeFacts
<1>3. PICK u \in Seq(Byte) : u = Held(x, n) /\ Len(u) = n /\ \A j \in 1 .. n : u[j] = x[j]
  BY <1>1, <1>2, HeldIs
<1>4. PICK v \in Seq(Byte) : v = Held(y, n) /\ Len(v) = n /\ \A j \in 1 .. n : v[j] = y[j]
  BY <1>1, <1>2, HeldIs
<1>5. u = v
  BY <1>3, <1>4, SeqEqual
<1> QED BY <1>3, <1>4, <1>5

(* WordsAlike: payloads that agree have the same check sum. *)
LEMMA WordsAlike ==
  ASSUME NEW x \in Seq(Byte), NEW y \in Seq(Byte), NEW n \in Nat, n <= Len(x), n <= Len(y),
         \A j \in 1 .. n : x[j] = y[j]
  PROVE  WordsOf(x, n) = WordsOf(y, n)
<1>1. PICK m \in Nat : m = n - (n % 4) /\ m <= n
  OBVIOUS
<1>2. PICK w \in Nat, v \in Nat : w = Len(x) /\ v = Len(y) /\ m <= w /\ m <= v
  BY <1>1, LenProperties
<1>3. \A j \in 1 .. m : j \in 1 .. n
  BY <1>1
<1>4. \A j \in 1 .. m : x[j] = y[j]
  BY <1>3
<1>5. Held(x, m) = Held(y, m)
  BY <1>2, <1>4, HeldAlike
<1> QED BY <1>1, <1>5 DEF WordsOf

(* PayloadIs: a payload holds the bytes it starts with. *)
LEMMA PayloadIs ==
  ASSUME NEW bytes \in Seq(Byte)
  PROVE  /\ Payload(bytes) \in [1 .. COM_PACKET_PAYLOAD_SIZE -> Byte]
         /\ Len(bytes) >= 1 => Payload(bytes)[1] = bytes[1]
<1>1. \A i \in 1 .. COM_PACKET_PAYLOAD_SIZE : i <= Len(bytes) => bytes[i] \in Byte
  BY SizeFacts, LenProperties, ElementOfSeq
<1>2. 1 \in 1 .. COM_PACKET_PAYLOAD_SIZE
  BY SizeFacts
<1> QED BY <1>1, <1>2, SizeFacts DEF Payload

(* PayloadIsSeq: a payload as a sequence. *)
LEMMA PayloadIsSeq ==
  ASSUME NEW payload \in [1 .. COM_PACKET_PAYLOAD_SIZE -> Byte]
  PROVE  payload \in Seq(Byte) /\ Len(payload) = COM_PACKET_PAYLOAD_SIZE
BY SizeFacts

-----------------------------------------------------------------------------
(* The packets that the creators make. *)
Longest == 2 * COM_PACKET_PAYLOAD_SIZE - 1

Fits(p) == p.packet_type = COM_PACKET_NORMAL => p \in PacketType(COM_PACKET_PAYLOAD_SIZE)

(* What the parser will look for in a packet that was not left cleared. *)
Sealed(p) ==
  /\ p.version = COM_PACKET_VERSION
  /\ p.packet_size = U32(COM_PACKET_HEADER_SIZE + p.payload_length)
  /\ p.packet_type \in {COM_PACKET_NORMAL, COM_PACKET_CMD} =>
       p.crc32 = Crc(WordsOf(p.payload, p.payload_length))
  /\ p.packet_type = COM_PACKET_ACK => p.crc32 = ACK_CRC32
  /\ p.packet_type = COM_PACKET_NACK => p.crc32 = NACK_CRC32

Orders(p, command) ==
  command # NULL =>
    /\ p.packet_type = COM_PACKET_CMD /\ p.payload_length >= 1 /\ p.payload[1] = command

Made(p, command) ==
  /\ p \in PacketType(Longest) /\ Fits(p)
  /\ p = com_packet_clear \/ Sealed(p)
  /\ Orders(p, command)

(* ClearIsMade: com_packet_clear. *)
LEMMA ClearIsMade ==
  com_packet_clear \in PacketType(COM_PACKET_PAYLOAD_SIZE) /\ Made(com_packet_clear, NULL)
<1>1. NoPayload \in [1 .. COM_PACKET_PAYLOAD_SIZE -> Byte]
  BY SizeFacts DEF NoPayload
<1>2. source_address \in Byte /\ COM_ADDR_NONE \in Byte /\ COM_PACKET_NORMAL \in Byte
  BY AddressFacts DEF COM_ADDR_NONE, COM_PACKET_NORMAL, Byte
<1>3. 0 \in 0 .. COM_PACKET_PAYLOAD_SIZE /\ 0 \in 0 .. Longest
  BY SizeFacts DEF Longest
<1> QED BY <1>1, <1>2, <1>3, SizeFacts, WordTypes
    DEF com_packet_clear, PacketType, Made, Fits, Orders

(* SealIs: the fields of a sealed packet. *)
LEMMA SealIs ==
  ASSUME CrcIsWord, NEW type \in Byte, NEW payload \in [1 .. COM_PACKET_PAYLOAD_SIZE -> Byte],
         NEW length \in 0 .. Longest, NEW padding \in Byte
  PROVE  LET p == Seal(type, payload, length, padding)
         IN  /\ p \in PacketType(Longest)
             /\ length <= COM_PACKET_PAYLOAD_SIZE => p \in PacketType(COM_PACKET_PAYLOAD_SIZE)
             /\ p.packet_type = type /\ p.payload_length = length /\ p.payload = payload
             /\ type \notin {COM_PACKET_ACK, COM_PACKET_NACK} => Sealed(p)
<1>1. WordsOf(payload, length) \in Seq(Byte)
  <2>1. length \in Nat /\ length % 4 \in 0 .. 3 /\ length % 4 <= length
    BY SizeFacts DEF Longest
  <2>2. length - (length % 4) \in Nat /\ length - (length % 4) <= COM_PACKET_PAYLOAD_SIZE + COM_PACKET_PAYLOAD_SIZE
    BY <2>1, SizeFacts DEF Longest
  <2> QED BY <2>2, HeldIs, PayloadIsSeq DEF WordsOf
<1>2. Crc(WordsOf(payload, length)) \in [1 .. 4 -> Byte]
  BY <1>1 DEF CrcIsWord
<1>3. PICK crc \in [1 .. 4 -> Byte] : crc = Crc(WordsOf(payload, length))
  BY <1>2
<1>4. PICK size \in [1 .. 4 -> Byte] : size = U32(COM_PACKET_HEADER_SIZE + length)
  <2>1. COM_PACKET_HEADER_SIZE + length \in Nat
    BY SizeFacts DEF Longest
  <2> QED BY <2>1, WordTypes
<1>5. Seal(type, payload, length, padding)
        = [version |-> COM_PACKET_VERSION, src_addr |-> source_address,
           dest_addr |-> dest_address, packet_type |-> type,
           payload_length |-> length, padding |-> padding,
           packet_size |-> size, crc32 |-> crc, payload |-> payload]
  BY <1>3, <1>4 DEF Seal
<1>6. source_address \in Byte /\ dest_address \in Byte /\ COM_PACKET_VERSION \in Byte
  BY AddressFacts, SizeFacts
<1>7. length <= COM_PACKET_PAYLOAD_SIZE => length \in 0 .. COM_PACKET_PAYLOAD_SIZE
  BY SizeFacts
<1>8. PICK p : p = Seal(type, payload, length, padding)
  OBVIOUS
<1>9. /\ p.version = COM_PACKET_VERSION /\ p.packet_type = type /\ p.payload_length = length
      /\ p.payload = payload /\ p.packet_size = size /\ p.crc32 = crc
  BY <1>5, <1>8
<1>10. /\ p \in PacketType(Longest)
       /\ length <= COM_PACKET_PAYLOAD_SIZE => p \in PacketType(COM_PACKET_PAYLOAD_SIZE)
  BY <1>5, <1>6, <1>7, <1>8 DEF PacketType
<1>11. type \notin {COM_PACKET_ACK, COM_PACKET_NACK} => Sealed(p)
  BY <1>3, <1>4, <1>9, Zenon DEF Sealed
<1> QED BY <1>8, <1>9, <1>10, <1>11, Zenon

(* CreateIsMade: com_packet_create. *)
LEMMA CreateIsMade ==
  ASSUME CrcIsWord, NEW d \in Seq(Byte)
  PROVE  Made(com_packet_create(d), NULL)
<1>1. Len(d) \in Nat /\ Payload(d) \in [1 .. COM_PACKET_PAYLOAD_SIZE -> Byte]
  BY LenProperties, PayloadIs
<1>2. COM_PACKET_NORMAL \in Byte /\ COM_PACKET_NORMAL \notin {COM_PACKET_ACK, COM_PACKET_NACK}
  BY DEF COM_PACKET_NORMAL, COM_PACKET_ACK, COM_PACKET_NACK, Byte
<1>3. ASSUME NEW length \in 0 .. COM_PACKET_PAYLOAD_SIZE, NEW padding \in Byte
      PROVE  Made(Seal(COM_PACKET_NORMAL, Payload(d), length, padding), NULL)
  <2>1. length \in 0 .. Longest
    BY SizeFacts DEF Longest
  <2>2. PICK p : p = Seal(COM_PACKET_NORMAL, Payload(d), length, padding)
    OBVIOUS
  <2>3. /\ p \in PacketType(Longest) /\ p \in PacketType(COM_PACKET_PAYLOAD_SIZE) /\ Sealed(p)
    BY <1>1, <1>2, <1>3, <2>1, <2>2, SealIs
  <2> QED BY <2>2, <2>3 DEF Made, Fits, Orders
<1>4. CASE Len(d) >= COM_PACKET_PAYLOAD_SIZE
  BY <1>3, <1>4, SizeFacts DEF com_packet_create
<1>5. CASE Len(d) < COM_PACKET_PAYLOAD_SIZE
  <2>1. Len(d) + PaddingAfter(Len(d)) \in 0 .. COM_PACKET_PAYLOAD_SIZE
    <3>1. Len(d) % 4 \in 0 .. 3
      BY <1>1
    <3>2. Len(d) + PaddingAfter(Len(d)) <= COM_PACKET_PAYLOAD_SIZE
      BY <1>1, <1>5, PayloadAssumption DEF PaddingAfter
    <3> QED BY <1>1, <3>2, PaddingFacts
  <2>2. PaddingAfter(Len(d)) \in Byte
    BY <1>1, PaddingFacts DEF Byte
  <2>3. com_packet_create(d)
          = Seal(COM_PACKET_NORMAL, Payload(d), Len(d) + PaddingAfter(Len(d)), PaddingAfter(Len(d)))
    BY <1>1, <1>5, SizeFacts DEF com_packet_create
  <2> QED BY <1>3, <2>1, <2>2, <2>3, Zenon
<1> QED BY <1>1, <1>4, <1>5, SizeFacts

(* CmdIsMade: com_packet_create_cmd, with its parameters. *)
LEMMA CmdIsMade ==
  ASSUME CrcIsWord, NEW c \in Commands, NEW d \in Payloads \cup {NULL},
         c \in ParaCommands /\ d # NULL => Len(d) < COM_PACKET_PAYLOAD_SIZE
  PROVE  Made(com_packet_create_cmd(c, d),
              IF d = NULL /\ c \in SetCommands \cup ParaCommands THEN NULL ELSE c)
<1> DEFINE e == CmdExtent(c, d)
           bytes == <<c>> \o CmdParameters(c, d)
           order1 == IF d = NULL /\ c \in SetCommands \cup ParaCommands THEN NULL ELSE c
<1>1. c \in Byte
  BY AddressFacts
<1>2. d # NULL => d \in Seq(Byte) /\ Len(d) \in Nat
  BY AddressFacts, LenProperties
<1>3. bytes \in Seq(Byte) /\ Len(bytes) >= 1 /\ bytes[1] = c
  <2>0. << >> \in Seq(Byte)
    OBVIOUS
  <2>1. PICK q \in Seq(Byte) : q = CmdParameters(c, d)
    BY <1>2, <2>0, Zenon DEF CmdParameters
  <2>2. <<c>> \in Seq(Byte) /\ Len(<<c>>) = 1 /\ <<c>>[1] = c
    BY <1>1
  <2> QED BY <2>1, <2>2, ConcatProperties, LenProperties
<1>4. /\ e[1] \in 0 .. Longest /\ e[2] \in Byte
      /\ order1 # NULL => e[1] >= 1
  <2>1. CASE c \notin SetCommands \cup ParaCommands
    <3>1. e = <<4, 3>>
      BY <2>1 DEF CmdExtent
    <3> QED BY <3>1, SizeFacts DEF Longest, Byte
  <2>2. CASE c \in SetCommands \cup ParaCommands /\ d = NULL
    <3>1. e = <<0, 0>> /\ order1 = NULL
      BY <2>2 DEF CmdExtent
    <3> QED BY <3>1, SizeFacts DEF Longest, Byte
  <2>3. CASE c \in SetCommands \cup ParaCommands /\ d # NULL
    <3>1. CASE c \in SetCommands /\ Len(d) >= COM_PACKET_PAYLOAD_SIZE
      <4>1. e = <<COM_PACKET_PAYLOAD_SIZE, 0>>
        BY <2>3, <3>1 DEF CmdExtent
      <4> QED BY <4>1, SizeFacts DEF Longest, Byte
    <3>2. CASE ~(c \in SetCommands /\ Len(d) >= COM_PACKET_PAYLOAD_SIZE)
      <4>1. PICK k \in Nat : k = Len(d) + 1 /\ k <= COM_PACKET_PAYLOAD_SIZE
        BY <1>2, <2>3, <3>2, SizeFacts
      <4>2. e = <<k + PaddingAfter(k), PaddingAfter(k)>>
        BY <2>3, <3>2, <4>1 DEF CmdExtent
      <4>3. PaddingAfter(k) \in 1 .. 4
        BY PaddingFacts
      <4> QED BY <4>1, <4>2, <4>3, SizeFacts DEF Longest, Byte
    <3> QED BY <3>1, <3>2
  <2> QED BY <2>1, <2>2, <2>3
<1>5. Payload(bytes) \in [1 .. COM_PACKET_PAYLOAD_SIZE -> Byte] /\ Payload(bytes)[1] = c
  BY <1>3, PayloadIs
<1>6. com_packet_create_cmd(c, d) = Seal(COM_PACKET_CMD, Payload(bytes), e[1], e[2])
  BY DEF com_packet_create_cmd
<1> HIDE DEF e, bytes
<1>7. /\ COM_PACKET_CMD \in Byte /\ COM_PACKET_CMD \notin {COM_PACKET_ACK, COM_PACKET_NACK}
      /\ COM_PACKET_CMD # COM_PACKET_NORMAL
  BY DEF COM_PACKET_CMD, COM_PACKET_ACK, COM_PACKET_NACK, COM_PACKET_NORMAL, Byte
<1>8. PICK p : p = com_packet_create_cmd(c, d)
  OBVIOUS
<1>9. /\ p \in PacketType(Longest) /\ Sealed(p)
      /\ p.packet_type = COM_PACKET_CMD /\ p.payload_length = e[1] /\ p.payload = Payload(bytes)
  BY <1>4, <1>5, <1>6, <1>7, <1>8, SealIs
<1>10. order1 # NULL => order1 = c
  OBVIOUS
<1>11. Made(p, order1)
  BY <1>4, <1>5, <1>7, <1>9, <1>10 DEF Made, Fits, Orders
<1> QED BY <1>8, <1>11

(* SpecialIsMade: com_packet_create_special. *)
LEMMA SpecialIsMade ==
  ASSUME CrcIsWord, NEW d \in Payloads \cup {NULL},
         NEW t \in {COM_PACKET_ACK, COM_PACKET_NACK, COM_PACKET_FALSE} \cup Reports
  PROVE  Made(com_packet_create_special(t, d), NULL)
<1>0. /\ COM_PACKET_ACK = 2 /\ COM_PACKET_NACK = 3 /\ COM_PACKET_FALSE = 4
      /\ COM_PACKET_BAD_CRC = 5 /\ COM_PACKET_CMD = 1 /\ COM_PACKET_NORMAL = 0
      /\ Reports = {6, 7, 8}
  BY DEF COM_PACKET_ACK, COM_PACKET_NACK, COM_PACKET_FALSE, COM_PACKET_BAD_CRC, COM_PACKET_CMD,
         COM_PACKET_NORMAL, Reports, COM_PACKET_POS, COM_PACKET_CAL_FACTOR, COM_PACKET_DEVICES
<1>1. NoPayload \in [1 .. COM_PACKET_PAYLOAD_SIZE -> Byte] /\ 0 \in 0 .. Longest /\ 0 \in Byte
  BY SizeFacts DEF NoPayload, Longest
<1>2. CASE t = COM_PACKET_FALSE
  BY <1>0, <1>2, ClearIsMade DEF com_packet_create_special
<1>3. CASE t \in {COM_PACKET_ACK, COM_PACKET_NACK}
  <2>1. PICK word \in [1 .. 4 -> Byte] :
          word = IF t = COM_PACKET_ACK THEN ACK_CRC32 ELSE NACK_CRC32
    BY WordTypes
  <2>2. PICK q : q = Seal(t, NoPayload, 0, 0)
    OBVIOUS
  <2>3. com_packet_create_special(t, d) = [q EXCEPT !.crc32 = word]
    BY <1>0, <1>3, <2>1, <2>2 DEF com_packet_create_special
  <2>4. q \in PacketType(Longest) /\ q.packet_type = t /\ q.payload_length = 0
    <3>1. t \in Byte
      BY <1>0, <1>3 DEF Byte
    <3> QED BY <1>1, <2>2, <3>1, SealIs
  <2>5. q.version = COM_PACKET_VERSION /\ q.packet_size = U32(COM_PACKET_HEADER_SIZE + 0)
    BY <2>2 DEF Seal
  <2>6. PICK p : p = [q EXCEPT !.crc32 = word]
    OBVIOUS
  <2>7. /\ p \in PacketType(Longest) /\ p.packet_type = t /\ p.payload_length = 0
        /\ p.version = COM_PACKET_VERSION /\ p.packet_size = U32(COM_PACKET_HEADER_SIZE + 0)
        /\ p.crc32 = word
    BY <2>4, <2>5, <2>6 DEF PacketType
  <2>8. Sealed(p) /\ Fits(p)
    BY <1>0, <1>3, <2>1, <2>7 DEF Sealed, Fits
  <2> QED BY <2>3, <2>6, <2>7, <2>8 DEF Made, Orders
<1>4. CASE t \in Reports
  <2>0. /\ t \in Byte /\ t \notin {COM_PACKET_ACK, COM_PACKET_NACK} /\ t # COM_PACKET_NORMAL
    BY <1>0, <1>4 DEF Byte
  <2>1. com_packet_create_special(t, d)
          = IF d = NULL THEN com_packet_clear
            ELSE IF Len(d) >= COM_PACKET_PAYLOAD_SIZE
            THEN Seal(t, Payload(d), COM_PACKET_PAYLOAD_SIZE, 0)
            ELSE Seal(t, Payload(d), Len(d) + ReportPadding(Len(d)), ReportPadding(Len(d)))
    BY <1>0, <1>4 DEF com_packet_create_special
  <2>2. CASE d = NULL
    BY <2>1, <2>2, ClearIsMade
  <2>3. CASE d # NULL
    <3>1. d \in Seq(Byte) /\ Len(d) \in Nat /\ Payload(d) \in [1 .. COM_PACKET_PAYLOAD_SIZE -> Byte]
      BY <2>3, AddressFacts, LenProperties, PayloadIs
    <3>2. ASSUME NEW length \in 0 .. Longest, NEW padding \in Byte
          PROVE  Made(Seal(t, Payload(d), length, padding), NULL)
      <4>1. PICK p : p = Seal(t, Payload(d), length, padding)
        OBVIOUS
      <4>2. p \in PacketType(Longest) /\ Sealed(p) /\ p.packet_type = t
        BY <2>0, <3>1, <3>2, <4>1, SealIs
      <4> QED BY <2>0, <4>1, <4>2 DEF Made, Fits, Orders
    <3>3. CASE Len(d) >= COM_PACKET_PAYLOAD_SIZE
      <4>1. COM_PACKET_PAYLOAD_SIZE \in 0 .. Longest
        BY SizeFacts DEF Longest
      <4> QED BY <1>1, <2>1, <2>3, <3>2, <3>3, <4>1
    <3>4. CASE Len(d) < COM_PACKET_PAYLOAD_SIZE
      <4>1. PICK k \in Nat : k = Len(d) /\ k < COM_PACKET_PAYLOAD_SIZE
        BY <3>1, <3>4
      <4>2. ReportPadding(k) \in Byte /\ k + ReportPadding(k) \in 0 .. Longest
        <5>1. k % 4 \in 0 .. 3 /\ (COM_PACKET_PAYLOAD_SIZE - k >= 4 \/ k % 4 = 4 - (COM_PACKET_PAYLOAD_SIZE - k))
          BY <4>1, PayloadAssumption
        <5>2. ReportPadding(k) = k + (4 - (k % 4))
          BY DEF ReportPadding, PaddingAfter
        <5>3. PICK r \in 0 .. 3 : r = k % 4
          BY <5>1
        <5>4. PICK p \in Nat : p = k + (4 - r) /\ p <= COM_PACKET_PAYLOAD_SIZE /\ k + p <= Longest
          <6>1. PICK z \in Nat : z = COM_PACKET_PAYLOAD_SIZE /\ z - k >= 1 /\ (z - k >= 4 \/ r = 4 - (z - k))
            BY <4>1, <5>1, <5>3, SizeFacts
          <6>2. Longest = z + z - 1
            BY <6>1 DEF Longest
          <6> QED BY <4>1, <6>1, <6>2
        <5>5. ReportPadding(k) = p
          BY <5>2, <5>3, <5>4
        <5>6. Longest \in Nat
          BY SizeFacts DEF Longest
        <5>7. p \in Byte /\ k + p \in 0 .. Longest
          <6>1. p \in 0 .. 255 /\ k + p \in 0 .. Longest
            <7>1. COM_PACKET_PAYLOAD_SIZE \in Nat /\ COM_PACKET_PAYLOAD_SIZE <= 128
              BY SizeFacts
            <7>2. p \in 0 .. 255
              BY <5>4, <7>1
            <7>3. k + p \in Nat
              OBVIOUS
            <7>4. k + p \in 0 .. Longest
              BY <5>4, <5>6, <7>3
            <7> QED BY <7>2, <7>4
          <6> QED BY <6>1 DEF Byte
        <5> QED BY <5>5, <5>7
      <4>3. com_packet_create_special(t, d) = Seal(t, Payload(d), k + ReportPadding(k), ReportPadding(k))
        BY <2>1, <2>3, <3>4, <4>1, SizeFacts
      <4> QED BY <3>2, <4>2, <4>3, Zenon
    <3> QED BY <3>1, <3>3, <3>4, SizeFacts
  <2> QED BY <2>2, <2>3
<1> QED BY <1>2, <1>3, <1>4

-----------------------------------------------------------------------------
(* FrameShape: where the fields of a packet are in its bytes. *)
LEMMA FrameShape ==
  ASSUME NEW p \in PacketType(Longest)
  PROVE  LET f == Frame(p)
             held == Held(p.payload, p.payload_length)
         IN  /\ held \in Seq(Byte) /\ Len(held) = p.payload_length
             /\ f \in Seq(Byte) /\ Len(f) = 14 + p.payload_length
             /\ f[1] = p.version /\ f[2] = p.src_addr /\ f[3] = p.dest_addr
             /\ f[4] = p.packet_type /\ f[5] = p.payload_length /\ f[6] = p.padding
             /\ \A j \in 1 .. 4 : f[6 + j] = p.packet_size[j] /\ f[10 + j] = p.crc32[j]
             /\ \A j \in 1 .. p.payload_length : f[14 + j] = held[j]
<1>1. /\ p.version \in Byte /\ p.src_addr \in Byte /\ p.dest_addr \in Byte
      /\ p.packet_type \in Byte /\ p.padding \in Byte
      /\ p.payload_length \in 0 .. Longest
      /\ p.packet_size \in [1 .. 4 -> Byte] /\ p.crc32 \in [1 .. 4 -> Byte]
      /\ p.payload \in [1 .. COM_PACKET_PAYLOAD_SIZE -> Byte]
  BY DEF PacketType
<1>2. PICK n \in Nat : n = p.payload_length /\ n <= COM_PACKET_PAYLOAD_SIZE + COM_PACKET_PAYLOAD_SIZE /\ n \in Byte
  <2>1. PICK z \in Nat : z = COM_PACKET_PAYLOAD_SIZE /\ z <= 128 /\ p.payload_length \in 0 .. z + z - 1
    BY <1>1, SizeFacts DEF Longest
  <2>2. p.payload_length \in Nat /\ p.payload_length <= z + z /\ p.payload_length \in 0 .. 255
    BY <2>1
  <2> QED BY <2>1, <2>2 DEF Byte
<1>3. PICK held \in Seq(Byte) : held = Held(p.payload, p.payload_length) /\ Len(held) = n
  BY <1>1, <1>2, PayloadIsSeq, HeldIs
<1>4. PICK head \in Seq(Byte) :
        /\ head = <<p.version, p.src_addr, p.dest_addr, p.packet_type, p.payload_length, p.padding>>
        /\ Len(head) = 6
        /\ head[1] = p.version /\ head[2] = p.src_addr /\ head[3] = p.dest_addr
        /\ head[4] = p.packet_type /\ head[5] = p.payload_length /\ head[6] = p.padding
  <2>2. p.payload_length \in Byte
    BY <1>2
  <2>3. PICK h : h = <<p.version, p.src_addr, p.dest_addr, p.packet_type, p.payload_length, p.padding>>
    OBVIOUS
  <2>4. /\ h \in Seq(Byte) /\ Len(h) = 6
        /\ h[1] = p.version /\ h[2] = p.src_addr /\ h[3] = p.dest_addr
        /\ h[4] = p.packet_type /\ h[5] = p.payload_length /\ h[6] = p.padding
    BY <1>1, <2>2, <2>3
  <2> QED BY <2>3, <2>4, Zenon
<1>5. PICK size \in Seq(Byte) : size = p.packet_size /\ Len(size) = 4
  BY <1>1, WordIsSeq
<1>6. PICK crc \in Seq(Byte) : crc = p.crc32 /\ Len(crc) = 4
  BY <1>1, WordIsSeq
<1>7. PICK f1 \in Seq(Byte) :
        /\ f1 = head \o size /\ Len(f1) = 10
        /\ \A j \in 1 .. 6 : f1[j] = head[j]
        /\ \A j \in 1 .. 4 : f1[6 + j] = size[j]
  <2>1. /\ head \o size \in Seq(Byte) /\ Len(head \o size) = Len(head) + Len(size)
        /\ \A j \in 1 .. Len(head) : (head \o size)[j] = head[j]
        /\ \A j \in 1 .. Len(size) : (head \o size)[Len(head) + j] = size[j]
    BY Appended
  <2>2. Len(head) = 6 /\ Len(size) = 4
    BY <1>4, <1>5
  <2>3. PICK whole : whole = head \o size
    OBVIOUS
  <2>4. /\ whole \in Seq(Byte) /\ Len(whole) = 6 + 4
        /\ \A j \in 1 .. 6 : whole[j] = head[j]
        /\ \A j \in 1 .. 4 : whole[6 + j] = size[j]
    BY <2>1, <2>2, <2>3, Zenon
  <2>5. 6 + 4 = 10
    OBVIOUS
  <2> QED BY <2>3, <2>4, <2>5, Zenon
<1>8. PICK f2 \in Seq(Byte) :
        /\ f2 = f1 \o crc /\ Len(f2) = 14
        /\ \A j \in 1 .. 10 : f2[j] = f1[j]
        /\ \A j \in 1 .. 4 : f2[10 + j] = crc[j]
  <2>1. /\ f1 \o crc \in Seq(Byte) /\ Len(f1 \o crc) = Len(f1) + Len(crc)
        /\ \A j \in 1 .. Len(f1) : (f1 \o crc)[j] = f1[j]
        /\ \A j \in 1 .. Len(crc) : (f1 \o crc)[Len(f1) + j] = crc[j]
    BY Appended
  <2>2. Len(f1) = 10 /\ Len(crc) = 4
    BY <1>6, <1>7
  <2>3. PICK whole : whole = f1 \o crc
    OBVIOUS
  <2>4. /\ whole \in Seq(Byte) /\ Len(whole) = 10 + 4
        /\ \A j \in 1 .. 10 : whole[j] = f1[j]
        /\ \A j \in 1 .. 4 : whole[10 + j] = crc[j]
    BY <2>1, <2>2, <2>3, Zenon
  <2>5. 10 + 4 = 14
    OBVIOUS
  <2> QED BY <2>3, <2>4, <2>5, Zenon
<1>9. PICK f3 \in Seq(Byte) :
        /\ f3 = f2 \o held /\ Len(f3) = 14 + n
        /\ \A j \in 1 .. 14 : f3[j] = f2[j]
        /\ \A j \in 1 .. n : f3[14 + j] = held[j]
  <2>1. /\ f2 \o held \in Seq(Byte) /\ Len(f2 \o held) = Len(f2) + Len(held)
        /\ \A j \in 1 .. Len(f2) : (f2 \o held)[j] = f2[j]
        /\ \A j \in 1 .. Len(held) : (f2 \o held)[Len(f2) + j] = held[j]
    BY Appended
  <2>2. Len(f2) = 14 /\ Len(held) = n
    BY <1>3, <1>8
  <2>3. PICK whole : whole = f2 \o held
    OBVIOUS
  <2>4. /\ whole \in Seq(Byte) /\ Len(whole) = 14 + n
        /\ \A j \in 1 .. 14 : whole[j] = f2[j]
        /\ \A j \in 1 .. n : whole[14 + j] = held[j]
    BY <2>1, <2>2, <2>3
  <2> QED BY <2>3, <2>4, Zenon
<1>10. Frame(p) = f3
  BY <1>3, <1>4, <1>5, <1>6, <1>7, <1>8, <1>9, Zenon DEF Frame
<1>11. \A j \in 1 .. 6 : f3[j] = head[j]
  <2> TAKE j \in 1 .. 6
  <2>1. j \in 1 .. 10 /\ j \in 1 .. 14
    OBVIOUS
  <2> QED BY <2>1, <1>7, <1>8, <1>9
<1>12. \A j \in 1 .. 4 : f3[6 + j] = p.packet_size[j] /\ f3[10 + j] = p.crc32[j]
  <2> TAKE j \in 1 .. 4
  <2>1. /\ 6 + j \in 1 .. 10 /\ 6 + j \in 1 .. 14 /\ 10 + j \in 1 .. 14
    OBVIOUS
  <2>2. f3[6 + j] = f2[6 + j] /\ f2[6 + j] = f1[6 + j] /\ f1[6 + j] = size[j]
    BY <2>1, <1>7, <1>8, <1>9
  <2>3. f3[10 + j] = f2[10 + j] /\ f2[10 + j] = crc[j]
    BY <2>1, <1>8, <1>9
  <2> QED BY <1>5, <1>6, <2>2, <2>3
<1>13. /\ f3[1] = p.version /\ f3[2] = p.src_addr /\ f3[3] = p.dest_addr
       /\ f3[4] = p.packet_type /\ f3[5] = p.payload_length /\ f3[6] = p.padding
  <2>1. 1 \in 1 .. 6 /\ 2 \in 1 .. 6 /\ 3 \in 1 .. 6 /\ 4 \in 1 .. 6 /\ 5 \in 1 .. 6 /\ 6 \in 1 .. 6
    OBVIOUS
  <2> QED BY <1>4, <1>11, <2>1
<1> QED BY <1>2, <1>3, <1>9, <1>10, <1>12, <1>13

-----------------------------------------------------------------------------
(* Types: TypeOK with what it needs. *)
AtRest == pc \in {"ready", "made", "arrived"} => index = 0

Types == TypeOK /\ AtRest /\ Made(sent, order)

(* VerdictIsCode: the switch on the packet type yields a packet_type_t. *)
LEMMA VerdictIsCode ==
  ASSUME NEW buf, NEW at, NEW r \in COM_PACKET_NORMAL .. COM_PACKET_NOINIT
  PROVE  Verdict(buf, at, r) \in COM_PACKET_NORMAL .. COM_PACKET_NOINIT
BY DEF Verdict, Reports, COM_PACKET_NOINIT, COM_PACKET_FALSE, COM_PACKET_NORMAL,
       COM_PACKET_CMD, COM_PACKET_ACK, COM_PACKET_NACK, COM_PACKET_POS,
       COM_PACKET_CAL_FACTOR, COM_PACKET_DEVICES, COM_PACKET_BAD_CRC

(* TakenIsPacket: what cp_buf_to_packet takes from a well-formed place. *)
LEMMA TakenIsPacket ==
  ASSUME NEW p \in PacketType(COM_PACKET_PAYLOAD_SIZE), NEW buf \in Seq(Byte), NEW at \in Nat,
         WellFormed(buf, at), at + COM_PACKET_HEADER_SIZE <= Len(buf)
  PROVE  cp_buf_to_packet(p, buf, at) \in PacketType(COM_PACKET_PAYLOAD_SIZE)
<1>0. PICK l \in Nat : l = Len(buf) /\ at + 14 <= l
  BY LenProperties, SizeFacts
<1>1. \A i \in 1 .. l : buf[i] \in Byte
  BY <1>0, ElementOfSeq
<1>2. /\ buf[at + 1] \in Byte /\ buf[at + 2] \in Byte /\ buf[at + 3] \in Byte
      /\ buf[at + 4] \in Byte /\ buf[at + 5] \in Byte /\ buf[at + 6] \in Byte
  <2>1. \A i \in 1 .. 6 : at + i \in 1 .. l
    BY <1>0
  <2> QED BY <1>1, <2>1
<1>3. PICK n \in Nat : n = buf[at + 5] /\ n <= COM_PACKET_PAYLOAD_SIZE /\ at + 14 + n <= l
  <2>1. buf[at + 5] \in Nat
    <3>1. PICK n : n = buf[at + 5]
      OBVIOUS
    <3>2. n \in 0 .. 255
      BY <1>2, <3>1, Zenon DEF Byte
    <3>3. n \in Nat
      BY <3>2
    <3> QED BY <3>1, <3>3, Zenon
  <2>2. buf[at + 5] <= COM_PACKET_PAYLOAD_SIZE /\ at + COM_PACKET_HEADER_SIZE + buf[at + 5] <= Len(buf)
    BY DEF WellFormed
  <2>3. PICK n \in Nat : n = buf[at + 5]
    BY <2>1
  <2> QED BY <1>0, <2>2, <2>3, SizeFacts
<1>4. SubSeq(buf, at + 7, at + 10) \in [1 .. 4 -> Byte] /\ SubSeq(buf, at + 11, at + 14) \in [1 .. 4 -> Byte]
  BY <1>0, SliceIsWord
<1>5. [i \in 1 .. COM_PACKET_PAYLOAD_SIZE |->
          IF i <= buf[at + 5] /\ buf[at + 5] <= COM_PACKET_PAYLOAD_SIZE THEN buf[at + 14 + i] ELSE p.payload[i]]
        \in [1 .. COM_PACKET_PAYLOAD_SIZE -> Byte]
  <2>1. \A i \in 1 .. COM_PACKET_PAYLOAD_SIZE : p.payload[i] \in Byte
    BY DEF PacketType
  <2>2. \A i \in 1 .. COM_PACKET_PAYLOAD_SIZE : i <= n => at + 14 + i \in 1 .. l
    BY <1>0, <1>3
  <2> QED BY <1>1, <1>3, <2>1, <2>2
<1>6. buf[at + 5] \in 0 .. COM_PACKET_PAYLOAD_SIZE
  BY <1>3, SizeFacts
<1> QED BY <1>2, <1>4, <1>5, <1>6 DEF cp_buf_to_packet, PacketType

(* MadeIsSent: a creator leaves a packet that is made for the order. *)
LEMMA MadeIsSent ==
  ASSUME CrcIsWord, Create \/ CreateCmd \/ CreateSpecial
  PROVE  /\ Made(sent', order') /\ pc = "ready" /\ pc' = "made"
         /\ UNCHANGED <<required_cb_registered, cp_timeout, data, parse, time>>
<1>1. CASE Create
  <2>1. PICK d \in Payloads : Make(NULL) /\ sent' = com_packet_create(d)
    BY <1>1 DEF Create
  <2>2. d \in Seq(Byte)
    BY BytesAssumption
  <2> QED BY <2>1, <2>2, CreateIsMade DEF Make
<1>2. CASE CreateCmd
  <2>1. PICK c \in Commands, d \in Payloads \cup {NULL} :
          /\ c \in ParaCommands /\ d # NULL => Len(d) < COM_PACKET_PAYLOAD_SIZE
          /\ Make(IF d = NULL /\ c \in SetCommands \cup ParaCommands THEN NULL ELSE c)
          /\ sent' = com_packet_create_cmd(c, d)
    BY <1>2, Zenon DEF CreateCmd, Parameters
  <2> QED BY <2>1, CmdIsMade DEF Make
<1>3. CASE CreateSpecial
  <2>1. PICK t \in {COM_PACKET_ACK, COM_PACKET_NACK, COM_PACKET_FALSE} \cup Reports,
             d \in Payloads \cup {NULL} :
          Make(NULL) /\ sent' = com_packet_create_special(t, d)
    BY <1>3 DEF CreateSpecial
  <2> QED BY <2>1, SpecialIsMade DEF Make
<1> QED BY <1>1, <1>2, <1>3

(* DamagedIs: a packet with one byte damaged. *)
LEMMA DamagedIs ==
  ASSUME NEW f \in Seq(Byte), NEW k \in 1 .. Len(f)
  PROVE  LET g == [f EXCEPT ![k] = (@ + 1) % 256]
         IN  /\ g \in Seq(Byte) /\ Len(g) = Len(f) /\ g[k] = (f[k] + 1) % 256 /\ g[k] # f[k]
             /\ \A j \in 1 .. Len(f) : j # k => g[j] = f[j]
<1>1. PICK v \in Byte : v = f[k]
  BY ElementOfSeq
<1>2. (v + 1) % 256 \in Byte /\ (v + 1) % 256 # v
  <2>1. v \in 0 .. 255 /\ (v = 255 => (v + 1) % 256 = 0) /\ (v < 255 => (v + 1) % 256 = v + 1)
    BY DEF Byte
  <2> QED BY <2>1 DEF Byte
<1>3. PICK w \in Byte : w = (f[k] + 1) % 256 /\ w # f[k]
  BY <1>1, <1>2
<1>4. PICK g : g = [f EXCEPT ![k] = w]
  OBVIOUS
<1>5. g \in Seq(Byte) /\ Len(g) = Len(f) /\ g[k] = w /\ \A j \in 1 .. Len(f) : j # k => g[j] = f[j]
  BY <1>4, ExceptSeq
<1>6. g = [f EXCEPT ![k] = (@ + 1) % 256]
  BY <1>3, <1>4
<1> QED BY <1>3, <1>5, <1>6

(* What is left of the bytes f when g arrives: all of them, the first, or  *)
(* all but one.                                                            *)
Whole(f, g) == Len(g) >= Len(f) /\ \A j \in 1 .. Len(f) : g[j] = f[j]
Cut(f, g) == Len(g) < Len(f) /\ \A j \in 1 .. Len(g) : g[j] = f[j]
DamagedAt(f, g, k) ==
  /\ Len(g) = Len(f) /\ g[k] = (f[k] + 1) % 256 /\ g[k] # f[k]
  /\ \A j \in 1 .. Len(f) : j # k => g[j] = f[j]
Left(f, g) == Whole(f, g) \/ Cut(f, g) \/ \E k \in 1 .. Len(f) : DamagedAt(f, g, k)

(* ArrivalsAre: the bytes before a packet, and what is left of the packet. *)
LEMMA ArrivalsAre ==
  ASSUME NEW p \in PacketType(Longest), NEW b \in Before, NEW bytes \in Arrivals(b, p)
  PROVE  \E g \in Seq(Byte) : bytes = b \o g /\ Left(Frame(p), g)
<1>1. PICK f \in Seq(Byte) : f = Frame(p)
  BY FrameShape
<1>2. b \in Seq(Byte) /\ After \subseteq Seq(Byte)
  BY BytesAssumption
<1>3. \/ \E a \in After : bytes = b \o f \o a
      \/ \E k \in 0 .. Len(f) - 1 : bytes = b \o SubSeq(f, 1, k)
      \/ \E k \in 1 .. Len(f) : bytes = b \o [f EXCEPT ![k] = (@ + 1) % 256]
  BY <1>1, Zenon DEF Arrivals
<1>4. SUFFICES \E g \in Seq(Byte) : bytes = b \o g /\ Left(f, g)
  BY <1>1
<1>5. PICK l \in Nat : l = Len(f)
  BY LenProperties
<1>6. CASE \E a \in After : bytes = b \o f \o a
  <2>1. PICK a \in Seq(Byte) : bytes = b \o f \o a
    BY <1>2, <1>6
  <2>2. PICK g : g = f \o a
    OBVIOUS
  <2>3. g \in Seq(Byte) /\ Len(g) = Len(f) + Len(a) /\ \A j \in 1 .. Len(f) : g[j] = f[j]
    BY <2>2, Appended
  <2>4. bytes = b \o g
    BY <1>2, <2>1, <2>2, ConcatAssociative
  <2>5. Whole(f, g)
    BY <1>5, <2>3, LenProperties DEF Whole
  <2> QED BY <2>3, <2>4, <2>5 DEF Left
<1>7. CASE \E k \in 0 .. Len(f) - 1 : bytes = b \o SubSeq(f, 1, k)
  <2>1. PICK k \in 0 .. l - 1 : bytes = b \o SubSeq(f, 1, k)
    BY <1>5, <1>7
  <2>2. k \in Nat /\ k < l /\ 0 \in Nat /\ 0 + k <= Len(f) /\ 0 + 1 = 1 /\ 0 + k = k
    BY <1>5
  <2>3. LET s == SubSeq(f, 0 + 1, 0 + k)
        IN  s \in Seq(Byte) /\ Len(s) = k /\ \A j \in 1 .. k : s[j] = f[0 + j]
    BY <2>2, SliceIs
  <2>4. PICK g : g = SubSeq(f, 1, k)
    OBVIOUS
  <2>5. g \in Seq(Byte) /\ Len(g) = k /\ \A j \in 1 .. k : g[j] = f[j]
    BY <2>2, <2>3, <2>4
  <2>6. Cut(f, g)
    BY <1>5, <2>2, <2>5 DEF Cut
  <2> QED BY <2>1, <2>4, <2>5, <2>6 DEF Left
<1>8. CASE \E k \in 1 .. Len(f) : bytes = b \o [f EXCEPT ![k] = (@ + 1) % 256]
  <2>1. PICK k \in 1 .. Len(f) : bytes = b \o [f EXCEPT ![k] = (@ + 1) % 256]
    BY <1>8
  <2>2. PICK g : g = [f EXCEPT ![k] = (@ + 1) % 256]
    OBVIOUS
  <2>3. g \in Seq(Byte) /\ DamagedAt(f, g, k)
    BY <2>2, DamagedIs DEF DamagedAt
  <2> QED BY <2>1, <2>2, <2>3 DEF Left
<1> QED BY <1>3, <1>6, <1>7, <1>8

(* ArrivedIsBytes: what arrives is bytes. *)
LEMMA ArrivedIsBytes ==
  ASSUME Types, Arrive
  PROVE  /\ data' \in Seq(Byte) /\ pc = "made" /\ pc' = "arrived"
         /\ UNCHANGED <<required_cb_registered, cp_timeout, sent, order, parse, time>>
<1>0. PICK bytes : bytes = data'
  OBVIOUS
<1>1. PICK b \in Before : bytes = data' /\ bytes \in Arrivals(b, sent)
  BY <1>0 DEF Arrive
<1>2. b \in Seq(Byte) /\ sent \in PacketType(Longest)
  BY BytesAssumption DEF Types, Made
<1>3. PICK g \in Seq(Byte) : bytes = b \o g
  BY <1>1, <1>2, ArrivalsAre
<1>4. data' \in Seq(Byte)
  BY <1>1, <1>2, <1>3, ConcatProperties
<1> QED BY <1>4 DEF Arrive

(* TypesInitially: before the first packet is made. *)
LEMMA TypesInitially == Init => Types
<1> SUFFICES ASSUME Init PROVE Types
  OBVIOUS
<1>1. Made(sent, order) /\ sent = com_packet_clear /\ packet = com_packet_clear /\ given = packet
  BY ClearIsMade DEF Init
<1>2. data \in Seq(Byte) /\ Len(data) = 0
  BY DEF Init
<1>3. /\ COM_PACKET_FALSE \in COM_PACKET_NORMAL .. COM_PACKET_NOINIT
      /\ 0 \in 0 .. MaxElapsed /\ 0 \in 0 .. TickMod - 1
  BY TickAssumption DEF COM_PACKET_NORMAL, COM_PACKET_NOINIT, COM_PACKET_FALSE
<1>4. /\ sent \in PacketType(Longest) /\ sent \in PacketType(COM_PACKET_PAYLOAD_SIZE)
      /\ packet \in PacketType(COM_PACKET_PAYLOAD_SIZE) /\ given \in PacketType(COM_PACKET_PAYLOAD_SIZE)
  BY <1>1, ClearIsMade DEF Made
<1>5. index \in 0 .. Len(data) /\ index = 0
  BY <1>2 DEF Init
<1>6. /\ required_cb_registered \in BOOLEAN /\ cp_timeout \in Timeouts
      /\ pc \in {"ready", "made", "arrived", "parsing", "done"}
      /\ retval \in COM_PACKET_NORMAL .. COM_PACKET_NOINIT
      /\ timeout_counter \in 0 .. TickMod - 1
      /\ now \in 0 .. TickMod - 1 /\ elapsed \in 0 .. MaxElapsed
  BY <1>3 DEF Init
<1> QED BY <1>1, <1>2, <1>4, <1>5, <1>6 DEF Types, TypeOK, AtRest, Longest

(* StepKeepsTypes: an iteration of the search. *)
LEMMA StepKeepsTypes ==
  ASSUME Types, ParseStep
  PROVE  Types'
<1>1. PICK l \in Nat : l = Len(data) /\ data \in Seq(Byte)
  BY LenProperties DEF Types, TypeOK
<1>2. pc = "parsing" /\ index \in Nat /\ index + 14 <= l /\ index' = index + 1 /\ index' \in 0 .. Len(data)
  BY <1>1, SizeFacts DEF ParseStep, Searching, Types, TypeOK
<1>3. retval' \in COM_PACKET_NORMAL .. COM_PACKET_NOINIT
  <2>1. PICK r \in COM_PACKET_NORMAL .. COM_PACKET_NOINIT :
          retval' = IF WellFormed(data, index) THEN Verdict(data, index, r) ELSE r
    <3>1. COM_PACKET_TIMEOUT \in COM_PACKET_NORMAL .. COM_PACKET_NOINIT /\ COM_PACKET_FALSE \in COM_PACKET_NORMAL .. COM_PACKET_NOINIT
      BY DEF COM_PACKET_NORMAL, COM_PACKET_NOINIT, COM_PACKET_FALSE, COM_PACKET_TIMEOUT
    <3> QED BY <3>1, Zenon DEF ParseStep
  <2> QED BY <2>1, VerdictIsCode
<1>4. packet' \in PacketType(COM_PACKET_PAYLOAD_SIZE)
  <2>1. CASE retval' \notin Carrying
    BY <2>1 DEF ParseStep, Types, TypeOK
  <2>2. CASE retval' \in Carrying
    <3>1. WellFormed(data, index) /\ packet' = cp_buf_to_packet(packet, data, index)
      BY <2>2, Codes DEF ParseStep
    <3>2. index + COM_PACKET_HEADER_SIZE <= Len(data) /\ packet \in PacketType(COM_PACKET_PAYLOAD_SIZE)
      BY DEF ParseStep, Searching, Types, TypeOK
    <3> QED BY <1>1, <1>2, <3>1, <3>2, TakenIsPacket
  <2> QED BY <2>1, <2>2
<1>5. /\ UNCHANGED <<required_cb_registered, cp_timeout, sent, order, data, pc, timeout_counter, given>>
      /\ now' = now /\ elapsed' = elapsed
  BY DEF ParseStep, time
<1> QED BY <1>2, <1>3, <1>4, <1>5 DEF Types, TypeOK, AtRest, Made, Fits, Sealed, Orders

(* TypesKept: every action keeps Types. *)
LEMMA TypesKept == ASSUME CrcIsWord, Types, [Next]_vars PROVE Types'
<1>1. data \in Seq(Byte) /\ Len(data) \in Nat
  BY LenProperties DEF Types, TypeOK
<1>2. /\ COM_PACKET_FALSE \in COM_PACKET_NORMAL .. COM_PACKET_NOINIT
      /\ COM_PACKET_NOINIT \in COM_PACKET_NORMAL .. COM_PACKET_NOINIT
      /\ 0 \in 0 .. MaxElapsed /\ 0 \in 0 .. TickMod - 1
  BY TickAssumption DEF COM_PACKET_NORMAL, COM_PACKET_NOINIT, COM_PACKET_FALSE
<1>3. Made(sent, order) /\ UNCHANGED <<sent, order>> => Made(sent', order')
  BY DEF Made, Fits, Sealed, Orders
<1> USE DEF Types, TypeOK, AtRest, parse, time
<1>4. CASE com_packet_init
  BY <1>3, <1>4 DEF com_packet_init
<1>5. CASE Create \/ CreateCmd \/ CreateSpecial
  <2>1. sent' \in PacketType(Longest) /\ Fits(sent')
    BY <1>5, MadeIsSent DEF Made
  <2> QED BY <1>5, <2>1, MadeIsSent DEF Fits, Longest
<1>6. CASE Arrive
  <2>1. index' = 0 /\ 0 \in 0 .. Len(data')
    <3>1. Len(data') \in Nat
      BY <1>6, ArrivedIsBytes, LenProperties
    <3> QED BY <1>6, <3>1, ArrivedIsBytes
  <2> QED BY <1>3, <1>6, <2>1, ArrivedIsBytes
<1>7. CASE ParseTooEarly
  BY <1>2, <1>3, <1>7 DEF ParseTooEarly
<1>8. CASE ParseBegin
  <2>1. 0 \in 0 .. Len(data)
    BY <1>1
  <2> QED BY <1>2, <1>3, <1>8, <2>1 DEF ParseBegin
<1>9. CASE ParseStep
  BY <1>9, StepKeepsTypes
<1>10. CASE ParseReturn
  BY <1>3, <1>10 DEF ParseReturn
<1>11. CASE Tick
  <2>1. elapsed' \in 0 .. MaxElapsed /\ now' \in 0 .. TickMod - 1
    <3>1. elapsed \in 0 .. MaxElapsed /\ elapsed < MaxElapsed /\ now \in Nat
      BY <1>11, TickAssumption DEF Tick
    <3> QED BY <1>11, <3>1, TickAssumption DEF Tick
  <2> QED BY <1>3, <1>11, <2>1 DEF Tick, Searching
<1>12. CASE Again
  <2>1. /\ Made(sent', order') /\ sent' = com_packet_clear
        /\ packet' \in {com_packet_clear, packet} /\ given' = packet'
    BY <1>12, ClearIsMade DEF Again
  <2>2. /\ sent' \in PacketType(Longest) /\ sent' \in PacketType(COM_PACKET_PAYLOAD_SIZE)
        /\ packet' \in PacketType(COM_PACKET_PAYLOAD_SIZE) /\ given' \in PacketType(COM_PACKET_PAYLOAD_SIZE)
    BY <2>1, ClearIsMade DEF Made
  <2>3. data' \in Seq(Byte) /\ Len(data') = 0 /\ index' = 0 /\ index' \in 0 .. Len(data')
    BY <1>12 DEF Again
  <2> QED BY <1>2, <1>12, <2>1, <2>2, <2>3 DEF Again, Longest
<1>13. CASE UNCHANGED vars
  BY <1>3, <1>13 DEF vars
<1> QED BY <1>4, <1>5, <1>6, <1>7, <1>8, <1>9, <1>10, <1>11, <1>12, <1>13 DEF Next

(* PacketsAreTyped: TypeOK for any packets, orders and noise; a report's    *)
(* payload_length stays within a byte, a plain packet's within the payload.*)
THEOREM PacketsAreTyped ==
  ASSUME CrcIsWord
  PROVE  Spec => []TypeOK
<1>1. Init => Types
  BY TypesInitially
<1>2. Types /\ [Next]_vars => Types'
  BY TypesKept
<1>3. Types => TypeOK
  BY DEF Types
<1> QED BY <1>1, <1>2, <1>3, PTL DEF Spec

-----------------------------------------------------------------------------
(* A packet that was not left cleared, of the types that the parser knows  *)
(* and a size that it takes.                                               *)
Eligible ==
  /\ sent.packet_type \in {COM_PACKET_NORMAL, COM_PACKET_CMD, COM_PACKET_ACK, COM_PACKET_NACK} \cup Reports
  /\ sent # com_packet_clear /\ sent.payload_length <= COM_PACKET_PAYLOAD_SIZE

(* How the search ends at the packet. *)
Outcome == IF sent.packet_type \in Reports /\ sent.crc32 # ZeroU32 THEN COM_PACKET_BAD_CRC
           ELSE sent.packet_type

(* The packet lies at b, in the clear. *)
LiesAt(b) ==
  /\ b \in 0 .. Len(data) - Len(Frame(sent))
  /\ SubSeq(data, b + 1, b + Len(Frame(sent))) = Frame(sent)
  /\ \A i \in 0 .. b - 1 : WellFormed(data, i) =>
       /\ data[i + 4] = COM_PACKET_NORMAL /\ ~CrcMatches(data, i)

Received ==
  /\ retval = Outcome
  /\ retval \in Carrying =>
       /\ Frame(packet) = Frame(sent)
       /\ order # NULL => com_packet_get_cmd(packet) = order

(* The search has not come to the packet and has taken nothing, or it has  *)
(* found the packet.                                                       *)
Search ==
  pc \in {"parsing", "done"} /\ elapsed <= cp_timeout /\ Eligible =>
    \A b : LiesAt(b) =>
      \/ pc = "parsing" /\ index <= b /\ retval = COM_PACKET_FALSE
      \/ Received

(* FrameFits: a packet that lies at b is within the buffer. *)
LEMMA FrameFits ==
  ASSUME Types, NEW b, LiesAt(b)
  PROVE  /\ b \in Nat /\ Len(data) \in Nat /\ sent.payload_length \in Nat
         /\ b + 14 + sent.payload_length <= Len(data)
         /\ \A j \in 1 .. 14 + sent.payload_length : data[b + j] = Frame(sent)[j]
<1>1. PICK n \in Nat : n = sent.payload_length
  <2>1. sent \in PacketType(Longest) /\ Longest \in Nat
    BY SizeFacts DEF Types, Made, Longest
  <2>2. sent.payload_length \in 0 .. Longest
    BY <2>1 DEF PacketType
  <2> QED BY <2>1, <2>2
<1>2. Len(Frame(sent)) = 14 + n
  BY <1>1, FrameShape DEF Types, Made
<1>3. PICK l \in Nat : l = Len(data) /\ data \in Seq(Byte)
  BY LenProperties DEF Types, TypeOK
<1>4. b \in Nat /\ b + (14 + n) <= l
  BY <1>2, <1>3 DEF LiesAt
<1>5. \A j \in 1 .. 14 + n : SubSeq(data, b + 1, b + (14 + n))[j] = data[b + j]
  <2>1. 14 + n \in Nat /\ b + (14 + n) <= Len(data)
    BY <1>3, <1>4
  <2> QED BY <1>3, <1>4, <2>1, SliceIs
<1>6. SubSeq(data, b + 1, b + (14 + n)) = Frame(sent)
  BY <1>2 DEF LiesAt
<1>7. \A j \in 1 .. 14 + n : data[b + j] = Frame(sent)[j]
  BY <1>5, <1>6
<1>8. b + 14 + n <= Len(data)
  BY <1>3, <1>4
<1>9. b \in Nat /\ Len(data) \in Nat
  BY <1>3, <1>4
<1> QED BY <1>1, <1>7, <1>8, <1>9, Zenon

(* FourTypes: what the four types are not. *)
LEMMA FourTypes ==
  ASSUME NEW t \in {COM_PACKET_NORMAL, COM_PACKET_CMD, COM_PACKET_ACK, COM_PACKET_NACK}
  PROVE  t # COM_PACKET_FALSE /\ t \notin Reports
BY DEF Reports, COM_PACKET_FALSE, COM_PACKET_NORMAL, COM_PACKET_CMD, COM_PACKET_ACK,
       COM_PACKET_NACK, COM_PACKET_POS, COM_PACKET_CAL_FACTOR, COM_PACKET_DEVICES

(* OutcomeEnds: the search does end at the packet. *)
LEMMA OutcomeEnds == Eligible => Outcome # COM_PACKET_FALSE
<1>1. COM_PACKET_BAD_CRC # COM_PACKET_FALSE /\ COM_PACKET_FALSE \notin Reports
  BY DEF Reports, COM_PACKET_FALSE, COM_PACKET_BAD_CRC, COM_PACKET_POS, COM_PACKET_CAL_FACTOR,
         COM_PACKET_DEVICES
<1> QED BY <1>1, FourTypes DEF Eligible, Outcome

(* VerdictOf: a packet of the four types is taken with its right crc, a    *)
(* report with none; one of the plain type with a wrong crc changes        *)
(* nothing.                                                                *)
LEMMA VerdictOf ==
  ASSUME NEW buf, NEW at, NEW r
  PROVE  /\ buf[at + 4] = COM_PACKET_NORMAL =>
              Verdict(buf, at, r) = IF CrcMatches(buf, at) THEN buf[at + 4] ELSE r
         /\ buf[at + 4] = COM_PACKET_CMD /\ CrcMatches(buf, at) => Verdict(buf, at, r) = buf[at + 4]
         /\ buf[at + 4] = COM_PACKET_ACK /\ SubSeq(buf, at + 11, at + 14) = ACK_CRC32 =>
              Verdict(buf, at, r) = buf[at + 4]
         /\ buf[at + 4] = COM_PACKET_NACK /\ SubSeq(buf, at + 11, at + 14) = NACK_CRC32 =>
              Verdict(buf, at, r) = buf[at + 4]
         /\ buf[at + 4] \in Reports =>
              Verdict(buf, at, r) = IF SubSeq(buf, at + 11, at + 14) = ZeroU32 THEN buf[at + 4]
                                    ELSE COM_PACKET_BAD_CRC
<1>1. /\ COM_PACKET_NORMAL = 0 /\ COM_PACKET_CMD = 1 /\ COM_PACKET_ACK = 2 /\ COM_PACKET_NACK = 3
      /\ Reports = {6, 7, 8}
  BY DEF COM_PACKET_NORMAL, COM_PACKET_CMD, COM_PACKET_ACK, COM_PACKET_NACK, Reports,
         COM_PACKET_POS, COM_PACKET_CAL_FACTOR, COM_PACKET_DEVICES
<1>2. PICK c \in BOOLEAN : c = CrcMatches(buf, at)
  BY DEF CrcMatches
<1>3. PICK t : t = buf[at + 4]
  OBVIOUS
<1>4. PICK w : w = SubSeq(buf, at + 11, at + 14)
  OBVIOUS
<1>5. Verdict(buf, at, r)
        = CASE t = 0 -> IF c THEN t ELSE r
            [] t = 1 -> IF c THEN t ELSE COM_PACKET_BAD_CRC
            [] t = 2 -> IF w = ACK_CRC32 THEN t ELSE COM_PACKET_BAD_CRC
            [] t = 3 -> IF w = NACK_CRC32 THEN t ELSE COM_PACKET_BAD_CRC
            [] t \in {6, 7, 8} -> IF w = ZeroU32 THEN t ELSE COM_PACKET_BAD_CRC
            [] OTHER -> COM_PACKET_FALSE
  BY <1>1, <1>2, <1>3, <1>4, Zenon DEF Verdict
<1>6. t = 0 => Verdict(buf, at, r) = IF c THEN t ELSE r
  BY <1>5
<1>7. t = 1 /\ c => Verdict(buf, at, r) = t
  BY <1>5
<1>8. t = 2 /\ w = ACK_CRC32 => Verdict(buf, at, r) = t
  BY <1>5
<1>9. t = 3 /\ w = NACK_CRC32 => Verdict(buf, at, r) = t
  BY <1>5
<1>10. t \in {6, 7, 8} => Verdict(buf, at, r) = IF w = ZeroU32 THEN t ELSE COM_PACKET_BAD_CRC
  BY <1>5
<1> QED BY <1>1, <1>2, <1>3, <1>4, <1>6, <1>7, <1>8, <1>9, <1>10, Zenon

(* FoundAt: at the place where the packet lies the search ends, and if it  *)
(* is taken it is taken as it was sent.                                    *)
LEMMA FoundAt ==
  ASSUME Types, Eligible, NEW b, LiesAt(b), NEW r, NEW q \in PacketType(COM_PACKET_PAYLOAD_SIZE)
  PROVE  /\ WellFormed(data, b) /\ Verdict(data, b, r) = Outcome
         /\ LET p == cp_buf_to_packet(q, data, b)
            IN  /\ Frame(p) = Frame(sent)
                /\ order # NULL => com_packet_get_cmd(p) = order
<1>1. PICK n \in Nat : n = sent.payload_length /\ n <= COM_PACKET_PAYLOAD_SIZE
  BY FrameFits DEF Eligible
<1>2. PICK f \in Seq(Byte) : f = Frame(sent)
  BY FrameShape DEF Types, Made
<1>3. PICK held \in Seq(Byte) : held = Held(sent.payload, n) /\ Len(held) = n
  BY <1>1, FrameShape DEF Types, Made
<1>4. PICK l \in Nat : l = Len(data) /\ data \in Seq(Byte) /\ b \in Nat /\ b + 14 + n <= l
  BY <1>1, FrameFits DEF Types, TypeOK
<1>5. \A j \in 1 .. 14 + n : data[b + j] = f[j]
  BY <1>1, <1>2, FrameFits
<1>6. sent.payload \in Seq(Byte) /\ Len(sent.payload) = COM_PACKET_PAYLOAD_SIZE
  BY PayloadIsSeq DEF Types, Made, PacketType
<1>7. /\ f[1] = sent.version /\ f[2] = sent.src_addr /\ f[3] = sent.dest_addr
      /\ f[4] = sent.packet_type /\ f[5] = n /\ f[6] = sent.padding
      /\ \A j \in 1 .. 4 : f[6 + j] = sent.packet_size[j] /\ f[10 + j] = sent.crc32[j]
      /\ \A j \in 1 .. n : f[14 + j] = held[j]
  BY <1>1, <1>2, <1>3, FrameShape DEF Types, Made
<1>8. \A j \in 1 .. n : held[j] = sent.payload[j]
  <2> TAKE j \in 1 .. n
  <2>1. j <= Len(sent.payload) /\ n <= Len(sent.payload) + COM_PACKET_PAYLOAD_SIZE
    BY <1>1, <1>6, SizeFacts
  <2> QED BY <1>3, <1>6, <2>1, HeldIs
<1>9. /\ data[b + 1] = sent.version /\ data[b + 2] = sent.src_addr /\ data[b + 3] = sent.dest_addr
      /\ data[b + 4] = sent.packet_type /\ data[b + 5] = n /\ data[b + 6] = sent.padding
  <2>1. /\ 1 \in 1 .. 14 + n /\ 2 \in 1 .. 14 + n /\ 3 \in 1 .. 14 + n
        /\ 4 \in 1 .. 14 + n /\ 5 \in 1 .. 14 + n /\ 6 \in 1 .. 14 + n
    OBVIOUS
  <2> QED BY <1>5, <1>7, <2>1
<1>10. \A j \in 1 .. n : data[b + 14 + j] = sent.payload[j]
  <2> TAKE j \in 1 .. n
  <2>1. 14 + j \in 1 .. 14 + n /\ b + (14 + j) = b + 14 + j
    BY <1>4
  <2>2. data[b + (14 + j)] = f[14 + j]
    BY <1>5, <2>1
  <2> QED BY <1>7, <1>8, <2>1, <2>2
<1>11. SubSeq(data, b + 7, b + 10) = sent.packet_size /\ SubSeq(data, b + 11, b + 14) = sent.crc32
  <2>1. \A j \in 1 .. 4 : data[b + 6 + j] = sent.packet_size[j] /\ data[b + 10 + j] = sent.crc32[j]
    <3> TAKE j \in 1 .. 4
    <3>1. 6 + j \in 1 .. 14 + n /\ b + (6 + j) = b + 6 + j /\ 10 + j \in 1 .. 14 + n /\ b + (10 + j) = b + 10 + j
      BY <1>4
    <3>2. data[b + (6 + j)] = f[6 + j] /\ data[b + (10 + j)] = f[10 + j]
      BY <1>5, <3>1
    <3> QED BY <1>7, <3>1, <3>2
  <2>2. b + 14 <= Len(data)
    BY <1>4
  <2>3. PICK size \in [1 .. 4 -> Byte] : size = SubSeq(data, b + 7, b + 10) /\ \A j \in 1 .. 4 : size[j] = data[b + 6 + j]
    BY <1>4, <2>2, SliceIsWord
  <2>4. PICK crc \in [1 .. 4 -> Byte] : crc = SubSeq(data, b + 11, b + 14) /\ \A j \in 1 .. 4 : crc[j] = data[b + 10 + j]
    BY <1>4, <2>2, SliceIsWord
  <2>5. sent.packet_size \in [1 .. 4 -> Byte] /\ sent.crc32 \in [1 .. 4 -> Byte]
    BY DEF Types, Made, PacketType
  <2>6. \A j \in 1 .. 4 : size[j] = sent.packet_size[j]
    BY <2>1, <2>3
  <2>7. \A j \in 1 .. 4 : crc[j] = sent.crc32[j]
    BY <2>1, <2>4
  <2>8. size = sent.packet_size /\ crc = sent.crc32
    BY <2>5, <2>6, <2>7, WordEqual
  <2> QED BY <2>3, <2>4, <2>8
<1>12. Sealed(sent)
  BY DEF Types, Made, Eligible
<1>13. WellFormed(data, b)
  <2>1. b + COM_PACKET_HEADER_SIZE + n <= Len(data)
    BY <1>4, SizeFacts
  <2> QED BY <1>1, <1>9, <1>11, <1>12, <2>1, Zenon DEF WellFormed, Sealed
<1>14. sent.packet_type \in {COM_PACKET_NORMAL, COM_PACKET_CMD} => CrcMatches(data, b)
  <2>1. PICK t \in Seq(Byte) : t = SubSeq(data, b + 15, b + 14 + n) /\ Len(t) = n
                               /\ \A j \in 1 .. n : t[j] = sent.payload[j]
    <3>1. b + 14 \in Nat /\ (b + 14) + n <= Len(data) /\ (b + 14) + 1 = b + 15
      BY <1>4
    <3>2. LET s == SubSeq(data, (b + 14) + 1, (b + 14) + n)
          IN  s \in Seq(Byte) /\ Len(s) = n /\ \A j \in 1 .. n : s[j] = data[(b + 14) + j]
      BY <1>4, <3>1, SliceIs
    <3>3. PICK t : t = SubSeq(data, b + 15, b + 14 + n)
      OBVIOUS
    <3>4. t \in Seq(Byte) /\ Len(t) = n /\ \A j \in 1 .. n : t[j] = data[b + 14 + j]
      BY <3>1, <3>2, <3>3
    <3> QED BY <1>10, <3>3, <3>4
  <2>4. WordsOf(t, n) = WordsOf(sent.payload, n)
    <3>1. n <= Len(sent.payload)
      BY <1>1, <1>6
    <3>2. n <= Len(t)
      BY <2>1
    <3> QED BY <1>6, <2>1, <3>1, <3>2, WordsAlike
  <2> QED BY <1>1, <1>9, <1>11, <1>12, <2>1, <2>4, Zenon DEF CrcMatches, Sealed
<1>15. Verdict(data, b, r) = Outcome
  <2>1. sent.packet_type \in {COM_PACKET_NORMAL, COM_PACKET_CMD, COM_PACKET_ACK, COM_PACKET_NACK} \cup Reports
    BY DEF Eligible
  <2>2. PICK t : t = sent.packet_type /\ t = data[b + 4]
    BY <1>9
  <2>3. PICK crc : crc = sent.crc32 /\ crc = SubSeq(data, b + 11, b + 14)
    BY <1>11
  <2>4. CASE t \in {COM_PACKET_NORMAL, COM_PACKET_CMD}
    <3>1. CrcMatches(data, b)
      BY <1>14, <2>2, <2>4
    <3>2. Verdict(data, b, r) = t
      BY <2>2, <2>4, <3>1, VerdictOf
    <3> QED BY <2>2, <2>4, <3>2, FourTypes DEF Outcome
  <2>5. CASE t = COM_PACKET_ACK
    <3>1. SubSeq(data, b + 11, b + 14) = ACK_CRC32
      BY <1>12, <2>2, <2>3, <2>5 DEF Sealed
    <3>2. data[b + 4] = COM_PACKET_ACK
      BY <2>2, <2>5
    <3>3. Verdict(data, b, r) = data[b + 4]
      BY <3>1, <3>2, VerdictOf
    <3> QED BY <2>2, <3>2, <3>3, FourTypes DEF Outcome
  <2>6. CASE t = COM_PACKET_NACK
    <3>1. SubSeq(data, b + 11, b + 14) = NACK_CRC32
      BY <1>12, <2>2, <2>3, <2>6 DEF Sealed
    <3>2. data[b + 4] = COM_PACKET_NACK
      BY <2>2, <2>6
    <3>3. Verdict(data, b, r) = data[b + 4]
      BY <3>1, <3>2, VerdictOf
    <3> QED BY <2>2, <3>2, <3>3, FourTypes DEF Outcome
  <2>7. CASE t \in Reports
    <3>1. Verdict(data, b, r) = IF crc = ZeroU32 THEN t ELSE COM_PACKET_BAD_CRC
      BY <2>2, <2>3, <2>7, VerdictOf
    <3> QED BY <2>2, <2>3, <2>7, <3>1 DEF Outcome
  <2> QED BY <2>1, <2>2, <2>4, <2>5, <2>6, <2>7
<1>16. PICK p : p = cp_buf_to_packet(q, data, b)
  OBVIOUS
<1>17. /\ p.version = sent.version /\ p.src_addr = sent.src_addr /\ p.dest_addr = sent.dest_addr
       /\ p.packet_type = sent.packet_type /\ p.payload_length = n /\ p.padding = sent.padding
       /\ p.packet_size = sent.packet_size /\ p.crc32 = sent.crc32
  BY <1>9, <1>11, <1>16 DEF cp_buf_to_packet
<1>18. /\ p.payload \in Seq(Byte) /\ Len(p.payload) = COM_PACKET_PAYLOAD_SIZE
       /\ \A j \in 1 .. n : p.payload[j] = sent.payload[j]
  <2>1. b + COM_PACKET_HEADER_SIZE <= Len(data)
    BY <1>4, SizeFacts
  <2>2. p.payload \in [1 .. COM_PACKET_PAYLOAD_SIZE -> Byte]
    BY <1>4, <1>13, <1>16, <2>1, TakenIsPacket DEF PacketType
  <2>3. \A j \in 1 .. n : p.payload[j] = data[b + 14 + j]
    <3> TAKE j \in 1 .. n
    <3>1. j \in 1 .. COM_PACKET_PAYLOAD_SIZE /\ j <= n
      BY <1>1, SizeFacts
    <3> QED BY <1>1, <1>9, <1>16, <3>1 DEF cp_buf_to_packet
  <2> QED BY <1>10, <2>2, <2>3, PayloadIsSeq
<1>19. Held(p.payload, n) = Held(sent.payload, n)
  BY <1>1, <1>6, <1>18, HeldAlike
<1>20. Frame(p) = Frame(sent)
  BY <1>1, <1>17, <1>19, Zenon DEF Frame
<1>21. order # NULL => com_packet_get_cmd(p) = order
  <2> HAVE order # NULL
  <2>1. sent.packet_type = COM_PACKET_CMD /\ n >= 1 /\ sent.payload[1] = order
    BY <1>1 DEF Types, Made, Orders
  <2> QED BY <1>17, <1>18, <2>1 DEF com_packet_get_cmd
<1> QED BY <1>13, <1>15, <1>16, <1>20, <1>21

(* StepSearches: an iteration passes over what does not end the search,    *)
(* and takes the packet.                                                   *)
LEMMA StepSearches ==
  ASSUME IInv, Types, Search, ParseStep
  PROVE  Search'
<1>1. /\ pc = "parsing" /\ retval = COM_PACKET_FALSE /\ index' = index + 1 /\ index \in Nat
      /\ UNCHANGED <<cp_timeout, sent, order, data, pc, timeout_counter, now, elapsed>>
  <2>1. index \in 0 .. Len(data) /\ Len(data) \in Nat
    BY LenProperties DEF Types, TypeOK
  <2> QED BY <2>1 DEF ParseStep, Searching, time
<1> SUFFICES ASSUME elapsed <= cp_timeout, Eligible, NEW b, LiesAt(b)
             PROVE  (index + 1 <= b /\ retval' = COM_PACKET_FALSE) \/ Received'
  BY <1>1 DEF Search, Eligible, LiesAt
<1>2. index <= b
  <2>1. retval # Outcome
    BY <1>1, OutcomeEnds
  <2> QED BY <1>1, <2>1 DEF Search, Received
<1>3. ~TimedOut
  <2>1. (now - timeout_counter) % TickMod = elapsed
    BY <1>1, TickIsElapsed DEF IInv
  <2>2. elapsed \in Nat /\ cp_timeout \in Nat
    BY TickAssumption DEF IInv
  <2> QED BY <2>1, <2>2 DEF TimedOut
<1>4. retval' = IF WellFormed(data, index) THEN Verdict(data, index, COM_PACKET_FALSE) ELSE COM_PACKET_FALSE
  BY <1>3 DEF ParseStep
<1>5. b \in Nat
  BY FrameFits
<1>6. CASE index < b
  <2>1. index + 1 <= b /\ index \in 0 .. b - 1
    BY <1>1, <1>5, <1>6
  <2>2. WellFormed(data, index) => Verdict(data, index, COM_PACKET_FALSE) = COM_PACKET_FALSE
    BY <2>1, VerdictOf DEF LiesAt
  <2> QED BY <1>4, <2>1, <2>2
<1>7. CASE index = b
  <2>1. packet \in PacketType(COM_PACKET_PAYLOAD_SIZE)
    BY DEF Types, TypeOK
  <2>2. retval' = Outcome
    BY <1>4, <1>7, <2>1, FoundAt
  <2>3. retval' \in Carrying =>
          /\ Frame(packet') = Frame(sent)
          /\ order # NULL => com_packet_get_cmd(packet') = order
    <3> HAVE retval' \in Carrying
    <3>1. packet' = cp_buf_to_packet(packet, data, b)
      BY <1>7 DEF ParseStep
    <3> QED BY <2>1, <3>1, FoundAt
  <2> QED BY <1>1, <2>2, <2>3 DEF Received, Outcome
<1> QED BY <1>1, <1>2, <1>5, <1>6, <1>7

(* SearchKept: every action keeps Search. *)
LEMMA SearchKept == ASSUME IInv, Types, Search, [Next]_vars PROVE Search'
<1> USE DEF parse, time
<1>1. CASE com_packet_init
  BY <1>1 DEF com_packet_init, Search
<1>2. CASE Create \/ CreateCmd \/ CreateSpecial
  <2>1. pc' = "made"
    BY <1>2 DEF Create, CreateCmd, CreateSpecial, Make
  <2> QED BY <2>1 DEF Search
<1>3. CASE Arrive
  <2>1. pc' = "arrived"
    BY <1>3, ArrivedIsBytes
  <2> QED BY <2>1 DEF Search
<1>4. CASE ParseTooEarly
  <2>1. pc' = "ready"
    BY <1>4 DEF ParseTooEarly
  <2> QED BY <2>1 DEF Search
<1>5. CASE ParseBegin
  <2>1. /\ pc' = IF Len(data) < COM_PACKET_HEADER_SIZE THEN "done" ELSE "parsing"
        /\ index' = 0 /\ retval' = COM_PACKET_FALSE
        /\ UNCHANGED <<sent, data>>
    BY <1>5 DEF ParseBegin
  <2>2. ASSUME NEW b, LiesAt(b) PROVE pc' = "parsing" /\ index' <= b
    <3>1. PICK n \in Nat, l \in Nat : n = sent.payload_length /\ l = Len(data) /\ b \in Nat /\ b + 14 + n <= l
      BY <2>2, FrameFits
    <3> QED BY <2>1, <3>1, SizeFacts
  <2> QED BY <2>1, <2>2 DEF Search, LiesAt
<1>6. CASE ParseStep
  BY <1>6, StepSearches
<1>7. CASE ParseReturn
  <2>1. pc = "parsing" /\ ~Searching /\ UNCHANGED <<cp_timeout, sent, order, data, index, retval, packet, elapsed>>
    BY <1>7 DEF ParseReturn
  <2>2. ASSUME NEW b, LiesAt(b), index <= b, retval = COM_PACKET_FALSE PROVE FALSE
    <3>1. PICK n \in Nat, l \in Nat : n = sent.payload_length /\ l = Len(data) /\ b \in Nat /\ b + 14 + n <= l
      BY <2>2, FrameFits
    <3>2. index \in Nat
      <4>1. index \in 0 .. l
        BY <3>1 DEF Types, TypeOK
      <4> QED BY <4>1
    <3>3. index + COM_PACKET_HEADER_SIZE <= Len(data)
      BY <2>2, <3>1, <3>2, SizeFacts
    <3> QED BY <2>1, <2>2, <3>3 DEF Searching
  <2>3. Received => Received'
    BY <2>1 DEF Received, Outcome
  <2>4. \A b : LiesAt(b)' => LiesAt(b)
    BY <2>1 DEF LiesAt
  <2>5. ASSUME pc' \in {"parsing", "done"}, (elapsed <= cp_timeout)', Eligible', NEW b, LiesAt(b)'
        PROVE  Received'
    <3>1. elapsed <= cp_timeout /\ Eligible /\ LiesAt(b)
      BY <2>1, <2>4, <2>5 DEF Eligible
    <3> QED BY <2>1, <2>2, <2>3, <3>1 DEF Search
  <2> QED BY <2>5 DEF Search
<1>8. CASE Tick
  <2>1. /\ pc' = pc /\ elapsed' = elapsed + 1
        /\ UNCHANGED <<cp_timeout, sent, order, data, index, retval, packet>>
    BY <1>8 DEF Tick
  <2>2. elapsed' <= cp_timeout => elapsed <= cp_timeout
    <3>1. elapsed \in Nat /\ cp_timeout \in Nat
      BY TickAssumption DEF IInv
    <3> QED BY <2>1, <3>1
  <2> QED BY <2>1, <2>2 DEF Search, Received, LiesAt, Eligible, Outcome
<1>9. CASE Again
  <2>1. pc' = "ready"
    BY <1>9 DEF Again
  <2> QED BY <2>1 DEF Search
<1>10. CASE UNCHANGED vars
  BY <1>10 DEF vars, Search, Received, LiesAt, Eligible, Outcome
<1> QED BY <1>1, <1>2, <1>3, <1>4, <1>5, <1>6, <1>7, <1>8, <1>9, <1>10 DEF Next

(* ClearEnds: a packet in the clear lies at some place. *)
LEMMA ClearEnds == InTheClear => \E b : LiesAt(b)
BY DEF InTheClear, LiesAt

(* IntactPacketsAreReceived: IntactIsReceived for any payload size, noise  *)
(* and check sum of four bytes, with the tick going on at any place.       *)
THEOREM IntactPacketsAreReceived ==
  ASSUME CrcIsWord
  PROVE  Spec => []IntactIsReceived
<1>1. Init => IInv /\ Types /\ Search
  BY Initially, TypesInitially DEF Init, Search
<1>2. IInv /\ Types /\ Search /\ [Next]_vars => (IInv /\ Types /\ Search)'
  BY InvKept, TypesKept, SearchKept
<1>3. Search => IntactIsReceived
  <2> SUFFICES ASSUME Search, pc = "done", elapsed <= cp_timeout, InTheClear,
                      sent.packet_type \in {COM_PACKET_NORMAL, COM_PACKET_CMD, COM_PACKET_ACK, COM_PACKET_NACK},
                      sent.packet_size # ZeroU32, sent.payload_length <= COM_PACKET_PAYLOAD_SIZE
               PROVE  /\ retval = sent.packet_type
                      /\ retval \in Carrying =>
                           /\ Frame(packet) = Frame(sent)
                           /\ order # NULL => com_packet_get_cmd(packet) = order
    BY DEF IntactIsReceived
  <2>1. Eligible
    BY DEF Eligible, com_packet_clear
  <2>2. Received
    BY <2>1, ClearEnds DEF Search
  <2>3. Outcome = sent.packet_type
    BY FourTypes DEF Outcome
  <2> QED BY <2>2, <2>3 DEF Received
<1> QED BY <1>1, <1>2, <1>3, PTL DEF Spec

(* ReportsAreAlwaysRefused: ReportsAreRefused for any payload size, noise  *)
(* and check sum of four bytes.                                            *)
THEOREM ReportsAreAlwaysRefused ==
  ASSUME CrcIsWord
  PROVE  Spec => []ReportsAreRefused
<1>1. Init => IInv /\ Types /\ Search
  BY Initially, TypesInitially DEF Init, Search
<1>2. IInv /\ Types /\ Search /\ [Next]_vars => (IInv /\ Types /\ Search)'
  BY InvKept, TypesKept, SearchKept
<1>3. Search => ReportsAreRefused
  <2> SUFFICES ASSUME Search, pc = "done", elapsed <= cp_timeout, InTheClear,
                      sent.packet_type \in Reports, sent.payload_length <= COM_PACKET_PAYLOAD_SIZE
               PROVE  retval = IF sent.crc32 = ZeroU32 THEN sent.packet_type ELSE COM_PACKET_BAD_CRC
    BY DEF ReportsAreRefused
  <2>1. Eligible
    <3>1. com_packet_clear.packet_type = COM_PACKET_NORMAL
      BY DEF com_packet_clear
    <3> QED BY <3>1, FourTypes DEF Eligible
  <2>2. Received
    BY <2>1, ClearEnds DEF Search
  <2> QED BY <2>2 DEF Received, Outcome
<1> QED BY <1>1, <1>2, <1>3, PTL DEF Spec

-----------------------------------------------------------------------------
(* There: a packet with the given result lies in the buffer, checked.      *)
There ==
  /\ retval = packet.packet_type
  /\ \E at \in 0 .. Len(data) - Len(Frame(packet)) :
       SubSeq(data, at + 1, at + Len(Frame(packet))) = Frame(packet)
  /\ retval \in {COM_PACKET_NORMAL, COM_PACKET_CMD} =>
       packet.crc32 = Crc(WordsOf(packet.payload, packet.payload_length))

(* The place from which the packet was taken. *)
TakenFrom(at) ==
  /\ at \in Nat /\ at + COM_PACKET_HEADER_SIZE <= Len(data)
  /\ WellFormed(data, at) /\ ~Passed(at)
  /\ packet = cp_buf_to_packet(given, data, at)
  /\ retval = data[at + 4]
  /\ retval \in {COM_PACKET_NORMAL, COM_PACKET_CMD} => CrcMatches(data, at)

Taken == pc \in {"parsing", "done"} /\ retval \in Carrying => \E at : TakenFrom(at)

(* VerdictTakes: a packet that is taken is of the type it says, and has    *)
(* the right check sum if it is a plain packet or a command; it would also *)
(* have been taken in time.                                                *)
LEMMA VerdictTakes ==
  ASSUME NEW buf, NEW at, NEW r, r \notin Carrying, Verdict(buf, at, r) \in Carrying
  PROVE  /\ Verdict(buf, at, r) = buf[at + 4]
         /\ buf[at + 4] \in {COM_PACKET_NORMAL, COM_PACKET_CMD} => CrcMatches(buf, at)
         /\ Verdict(buf, at, COM_PACKET_FALSE) # COM_PACKET_FALSE
<1>1. /\ COM_PACKET_NORMAL = 0 /\ COM_PACKET_CMD = 1 /\ COM_PACKET_ACK = 2 /\ COM_PACKET_NACK = 3
      /\ COM_PACKET_FALSE = 4 /\ COM_PACKET_BAD_CRC = 5
      /\ Reports = {6, 7, 8} /\ Carrying = {0, 1, 6, 7, 8}
  BY DEF COM_PACKET_NORMAL, COM_PACKET_CMD, COM_PACKET_ACK, COM_PACKET_NACK, COM_PACKET_FALSE,
         COM_PACKET_BAD_CRC, Reports, Carrying, COM_PACKET_POS, COM_PACKET_CAL_FACTOR, COM_PACKET_DEVICES
<1>2. PICK c \in BOOLEAN : c = CrcMatches(buf, at)
  BY DEF CrcMatches
<1>3. PICK t : t = buf[at + 4]
  OBVIOUS
<1>4. PICK w : w = SubSeq(buf, at + 11, at + 14)
  OBVIOUS
<1>5. PICK v : v = Verdict(buf, at, r)
  OBVIOUS
<1>6. v = CASE t = 0 -> IF c THEN t ELSE r
            [] t = 1 -> IF c THEN t ELSE 5
            [] t = 2 -> IF w = ACK_CRC32 THEN t ELSE 5
            [] t = 3 -> IF w = NACK_CRC32 THEN t ELSE 5
            [] t \in {6, 7, 8} -> IF w = ZeroU32 THEN t ELSE 5
            [] OTHER -> 4
  BY <1>1, <1>2, <1>3, <1>4, <1>5, Zenon DEF Verdict
<1>7. v \in {0, 1, 6, 7, 8} /\ r \notin {0, 1, 6, 7, 8}
  BY <1>1, <1>5
<1>8. v = t /\ (t \in {0, 1} => c)
  BY <1>6, <1>7
<1>9. PICK u : u = Verdict(buf, at, COM_PACKET_FALSE)
  OBVIOUS
<1>10. u = CASE t = 0 -> IF c THEN t ELSE 4
             [] t = 1 -> IF c THEN t ELSE 5
             [] t = 2 -> IF w = ACK_CRC32 THEN t ELSE 5
             [] t = 3 -> IF w = NACK_CRC32 THEN t ELSE 5
             [] t \in {6, 7, 8} -> IF w = ZeroU32 THEN t ELSE 5
             [] OTHER -> 4
  BY <1>1, <1>2, <1>3, <1>4, <1>9, Zenon DEF Verdict
<1>11. u # 4
  BY <1>7, <1>8, <1>10
<1> QED BY <1>1, <1>2, <1>3, <1>5, <1>8, <1>9, <1>11

(* TakenIsThere: what cp_buf_to_packet takes is what lies there. *)
LEMMA TakenIsThere ==
  ASSUME NEW q \in PacketType(COM_PACKET_PAYLOAD_SIZE), NEW buf \in Seq(Byte), NEW at \in Nat,
         WellFormed(buf, at), at + COM_PACKET_HEADER_SIZE <= Len(buf)
  PROVE  LET p == cp_buf_to_packet(q, buf, at)
         IN  /\ p.packet_type = buf[at + 4]
             /\ at \in 0 .. Len(buf) - Len(Frame(p))
             /\ SubSeq(buf, at + 1, at + Len(Frame(p))) = Frame(p)
             /\ CrcMatches(buf, at) => p.crc32 = Crc(WordsOf(p.payload, p.payload_length))
<1>1. PICK p \in PacketType(COM_PACKET_PAYLOAD_SIZE) : p = cp_buf_to_packet(q, buf, at)
  BY TakenIsPacket
<1>2. PICK n \in Nat : n = p.payload_length /\ n <= COM_PACKET_PAYLOAD_SIZE
  <2>1. p.payload_length \in 0 .. COM_PACKET_PAYLOAD_SIZE
    BY DEF PacketType
  <2> QED BY <2>1, SizeFacts
<1>3. p \in PacketType(Longest)
  <2>1. n \in 0 .. Longest
    BY <1>2, SizeFacts DEF Longest
  <2> QED BY <1>2, <2>1 DEF PacketType
<1>4. n = buf[at + 5]
  BY <1>1, <1>2 DEF cp_buf_to_packet
<1>5. PICK l \in Nat : l = Len(buf) /\ at + 14 + n <= l /\ at + (14 + n) <= l /\ at + 14 <= l
  <2>1. at + COM_PACKET_HEADER_SIZE + n <= Len(buf)
    BY <1>4 DEF WellFormed
  <2> QED BY <2>1, LenProperties, SizeFacts
<1>6. /\ p.version = buf[at + 1] /\ p.src_addr = buf[at + 2] /\ p.dest_addr = buf[at + 3]
      /\ p.packet_type = buf[at + 4] /\ p.payload_length = buf[at + 5] /\ p.padding = buf[at + 6]
      /\ p.packet_size = SubSeq(buf, at + 7, at + 10) /\ p.crc32 = SubSeq(buf, at + 11, at + 14)
  BY <1>1 DEF cp_buf_to_packet
<1>7. \A j \in 1 .. 4 : p.packet_size[j] = buf[at + 6 + j] /\ p.crc32[j] = buf[at + 10 + j]
  <2>1. at + 14 <= Len(buf)
    BY <1>5
  <2>2. PICK size \in [1 .. 4 -> Byte] : size = SubSeq(buf, at + 7, at + 10) /\ \A j \in 1 .. 4 : size[j] = buf[at + 6 + j]
    BY <2>1, SliceIsWord
  <2>3. PICK crc \in [1 .. 4 -> Byte] : crc = SubSeq(buf, at + 11, at + 14) /\ \A j \in 1 .. 4 : crc[j] = buf[at + 10 + j]
    BY <2>1, SliceIsWord
  <2> QED BY <1>6, <2>2, <2>3
<1>8. \A j \in 1 .. n : p.payload[j] = buf[at + 14 + j]
  <2> TAKE j \in 1 .. n
  <2>1. j \in 1 .. COM_PACKET_PAYLOAD_SIZE /\ j <= n
    BY <1>2, SizeFacts
  <2> QED BY <1>1, <1>2, <1>4, <2>1 DEF cp_buf_to_packet
<1>9. p.payload \in Seq(Byte) /\ Len(p.payload) = COM_PACKET_PAYLOAD_SIZE
  BY PayloadIsSeq DEF PacketType
<1>10. PICK f \in Seq(Byte) : f = Frame(p) /\ Len(f) = 14 + n
  BY <1>2, <1>3, FrameShape
<1>11. PICK held \in Seq(Byte) : held = Held(p.payload, n) /\ Len(held) = n /\ \A j \in 1 .. n : held[j] = buf[at + 14 + j]
  <2>1. n <= Len(p.payload) + COM_PACKET_PAYLOAD_SIZE /\ \A j \in 1 .. n : j <= Len(p.payload)
    BY <1>2, <1>9, SizeFacts
  <2>2. PICK held \in Seq(Byte) :
          /\ held = Held(p.payload, n) /\ Len(held) = n
          /\ \A j \in 1 .. n : held[j] = IF j <= Len(p.payload) THEN p.payload[j]
                                           ELSE Beyond[j - Len(p.payload)]
    BY <1>9, <2>1, HeldIs
  <2>3. \A j \in 1 .. n : held[j] = p.payload[j]
    BY <2>1, <2>2
  <2> QED BY <1>8, <2>2, <2>3
<1>12. /\ f[1] = buf[at + 1] /\ f[2] = buf[at + 2] /\ f[3] = buf[at + 3]
       /\ f[4] = buf[at + 4] /\ f[5] = buf[at + 5] /\ f[6] = buf[at + 6]
       /\ \A j \in 1 .. 4 : f[6 + j] = buf[at + 6 + j] /\ f[10 + j] = buf[at + 10 + j]
       /\ \A j \in 1 .. n : f[14 + j] = buf[at + 14 + j]
  <2>1. /\ f[1] = p.version /\ f[2] = p.src_addr /\ f[3] = p.dest_addr
        /\ f[4] = p.packet_type /\ f[5] = p.payload_length /\ f[6] = p.padding
        /\ \A j \in 1 .. 4 : f[6 + j] = p.packet_size[j] /\ f[10 + j] = p.crc32[j]
        /\ \A j \in 1 .. n : f[14 + j] = held[j]
    BY <1>2, <1>3, <1>10, <1>11, FrameShape
  <2> QED BY <1>6, <1>7, <1>11, <2>1
<1>13. \A j \in 1 .. 14 + n : f[j] = buf[at + j]
  <2> TAKE j \in 1 .. 14 + n
  <2>1. CASE j \in 1 .. 6
    <3>1. j = 1 \/ j = 2 \/ j = 3 \/ j = 4 \/ j = 5 \/ j = 6
      BY <2>1
    <3> QED BY <1>12, <3>1
  <2>2. CASE j \in 7 .. 10
    <3>1. PICK i \in 1 .. 4 : j = 6 + i /\ at + j = at + 6 + i
      <4>1. j - 6 \in 1 .. 4 /\ j = 6 + (j - 6) /\ at + j = at + 6 + (j - 6)
        BY <2>2
      <4> QED BY <4>1
    <3> QED BY <1>12, <3>1
  <2>3. CASE j \in 11 .. 14
    <3>1. PICK i \in 1 .. 4 : j = 10 + i /\ at + j = at + 10 + i
      <4>1. j - 10 \in 1 .. 4 /\ j = 10 + (j - 10) /\ at + j = at + 10 + (j - 10)
        BY <2>3
      <4> QED BY <4>1
    <3> QED BY <1>12, <3>1
  <2>4. CASE j \in 15 .. 14 + n
    <3>1. PICK i \in 1 .. n : j = 14 + i /\ at + j = at + 14 + i
      <4>1. j - 14 \in 1 .. n /\ j = 14 + (j - 14) /\ at + j = at + 14 + (j - 14)
        BY <2>4
      <4> QED BY <4>1
    <3> QED BY <1>12, <3>1
  <2>5. j \in 1 .. 6 \/ j \in 7 .. 10 \/ j \in 11 .. 14 \/ j \in 15 .. 14 + n
    OBVIOUS
  <2> QED BY <2>1, <2>2, <2>3, <2>4, <2>5
<1>14. SubSeq(buf, at + 1, at + (14 + n)) = f
  <2>1. PICK s \in Seq(Byte) : s = SubSeq(buf, at + 1, at + (14 + n)) /\ Len(s) = 14 + n
                               /\ \A j \in 1 .. 14 + n : s[j] = buf[at + j]
    <3>1. PICK m \in Nat : m = 14 + n /\ at + m <= Len(buf)
      BY <1>5
    <3>2. LET t == SubSeq(buf, at + 1, at + m)
          IN  t \in Seq(Byte) /\ Len(t) = m /\ \A j \in 1 .. m : t[j] = buf[at + j]
      BY <3>1, SliceIs
    <3> QED BY <3>1, <3>2
  <2>2. \A j \in 1 .. Len(s) : s[j] = f[j]
    BY <1>13, <2>1
  <2> QED BY <1>10, <2>1, <2>2, SeqEqual
<1>15. CrcMatches(buf, at) => p.crc32 = Crc(WordsOf(p.payload, n))
  <2>1. PICK t \in Seq(Byte) : t = SubSeq(buf, at + 15, at + 14 + n) /\ Len(t) = n
                               /\ \A j \in 1 .. n : t[j] = p.payload[j]
    <3>1. at + 14 \in Nat /\ (at + 14) + n <= Len(buf) /\ (at + 14) + 1 = at + 15
      BY <1>5
    <3>2. LET s == SubSeq(buf, (at + 14) + 1, (at + 14) + n)
          IN  s \in Seq(Byte) /\ Len(s) = n /\ \A j \in 1 .. n : s[j] = buf[(at + 14) + j]
      BY <3>1, SliceIs
    <3>3. PICK t : t = SubSeq(buf, at + 15, at + 14 + n)
      OBVIOUS
    <3>4. t \in Seq(Byte) /\ Len(t) = n /\ \A j \in 1 .. n : t[j] = buf[at + 14 + j]
      BY <3>1, <3>2, <3>3
    <3> QED BY <1>8, <3>3, <3>4
  <2>2. WordsOf(t, n) = WordsOf(p.payload, n)
    <3>1. n <= Len(t) /\ n <= Len(p.payload)
      BY <1>2, <1>9, <2>1
    <3> QED BY <1>9, <2>1, <3>1, WordsAlike
  <2> QED BY <1>4, <1>6, <2>1, <2>2 DEF CrcMatches
<1>16. at \in 0 .. Len(buf) - (14 + n)
  BY <1>5
<1> QED BY <1>1, <1>2, <1>6, <1>10, <1>14, <1>15, <1>16

(* TakenKept: every action keeps Taken. *)
LEMMA TakenKept == ASSUME IInv, Types, Taken, [Next]_vars PROVE Taken'
<1> USE DEF parse, time
<1>1. CASE pc' \notin {"parsing", "done"}
  BY <1>1 DEF Taken
<1>2. CASE UNCHANGED <<retval, packet, given, data>> /\ (pc' \in {"parsing", "done"} => pc \in {"parsing", "done"})
  BY <1>2 DEF Taken, TakenFrom, Passed
<1>3. CASE com_packet_init \/ ParseReturn \/ Tick \/ UNCHANGED vars
  <2>1. UNCHANGED <<retval, packet, given, data>> /\ (pc' \in {"parsing", "done"} => pc \in {"parsing", "done"})
    BY <1>3 DEF com_packet_init, ParseReturn, Tick, vars
  <2> QED BY <1>2, <2>1
<1>4. CASE Create \/ CreateCmd \/ CreateSpecial \/ ParseTooEarly \/ Again
  BY <1>1, <1>4 DEF Create, CreateCmd, CreateSpecial, Make, ParseTooEarly, Again
<1>5. CASE Arrive
  BY <1>1, <1>5, ArrivedIsBytes
<1>6. CASE ParseBegin
  <2>1. retval' = COM_PACKET_FALSE
    BY <1>6 DEF ParseBegin
  <2> QED BY <2>1, Codes DEF Taken
<1>7. CASE ParseStep
  <2> SUFFICES ASSUME retval' \in Carrying PROVE \E at : TakenFrom(at)'
    BY DEF Taken
  <2>1. data' = data /\ given' = given /\ retval = COM_PACKET_FALSE /\ index + COM_PACKET_HEADER_SIZE <= Len(data)
    BY <1>7 DEF ParseStep, Searching
  <2>2. index \in Nat
    <3>1. index \in 0 .. Len(data) /\ Len(data) \in Nat
      BY LenProperties DEF Types, TypeOK
    <3> QED BY <3>1
  <2>3. PICK r : /\ r \notin Carrying
                 /\ retval' = IF WellFormed(data, index) THEN Verdict(data, index, r) ELSE r
    BY <1>7, Codes DEF ParseStep
  <2>4. WellFormed(data, index) /\ retval' = Verdict(data, index, r)
    BY <2>3
  <2>5. /\ retval' = data[index + 4]
        /\ retval' \in {COM_PACKET_NORMAL, COM_PACKET_CMD} => CrcMatches(data, index)
        /\ ~Passed(index)
    BY <2>3, <2>4, VerdictTakes DEF Passed
  <2>6. packet' = cp_buf_to_packet(given, data, index)
    <3>1. packet' = cp_buf_to_packet(packet, data, index)
      BY <1>7 DEF ParseStep
    <3>2. packet = given
      BY <2>1, Codes DEF IInv, Untaken
    <3> QED BY <3>1, <3>2
  <2>7. PICK at : at = index
    OBVIOUS
  <2>8. TakenFrom(at)'
    BY <2>1, <2>2, <2>4, <2>5, <2>6, <2>7 DEF TakenFrom, Passed
  <2> QED BY <2>8
<1> QED BY <1>3, <1>4, <1>5, <1>6, <1>7 DEF Next

(* FromThere: what was taken from some place is there. *)
LEMMA FromThere ==
  ASSUME Types, NEW at, TakenFrom(at)
  PROVE  There
<1>1. /\ WellFormed(data, at) /\ at \in Nat /\ at + COM_PACKET_HEADER_SIZE <= Len(data)
      /\ packet = cp_buf_to_packet(given, data, at) /\ retval = data[at + 4]
      /\ retval \in {COM_PACKET_NORMAL, COM_PACKET_CMD} => CrcMatches(data, at)
  BY DEF TakenFrom
<1>2. given \in PacketType(COM_PACKET_PAYLOAD_SIZE) /\ data \in Seq(Byte)
  BY DEF Types, TypeOK
<1>3. /\ packet.packet_type = data[at + 4]
      /\ at \in 0 .. Len(data) - Len(Frame(packet))
      /\ SubSeq(data, at + 1, at + Len(Frame(packet))) = Frame(packet)
      /\ CrcMatches(data, at) => packet.crc32 = Crc(WordsOf(packet.payload, packet.payload_length))
  BY <1>1, <1>2, TakenIsThere
<1> QED BY <1>1, <1>3 DEF There

(* AcceptedPacketsAreThere: AcceptedIsThere for any payload size, noise    *)
(* and check sum of four bytes.                                            *)
THEOREM AcceptedPacketsAreThere ==
  ASSUME CrcIsWord
  PROVE  Spec => []AcceptedIsThere
<1>1. Init => IInv /\ Types /\ Taken
  BY Initially, TypesInitially DEF Init, Taken
<1>2. IInv /\ Types /\ Taken /\ [Next]_vars => (IInv /\ Types /\ Taken)'
  BY InvKept, TypesKept, TakenKept
<1>3. Types /\ Taken => AcceptedIsThere
  BY FromThere DEF Taken, There, AcceptedIsThere
<1> QED BY <1>1, <1>2, <1>3, PTL DEF Spec

-----------------------------------------------------------------------------
(* The packets that CrcTells is about. *)
Checked ==
  {com_packet_create(d) : d \in Payloads}
    \cup UNION {{com_packet_create_cmd(c, d) : d \in Parameters(c)} : c \in Commands}

(* What else the creators make sure of: the check sum of a plain packet or *)
(* a command is taken of its whole payload, and a command without its      *)
(* parameters has none.                                                    *)
Plain(p, command) ==
  /\ p # com_packet_clear /\ p.packet_type \in {COM_PACKET_NORMAL, COM_PACKET_CMD} =>
       p \in Checked /\ p.payload_length % 4 = 0
  /\ p.packet_type = COM_PACKET_CMD /\ command = NULL => p.payload_length = 0

(* ClearIsPlain: com_packet_clear. *)
LEMMA ClearIsPlain == Plain(com_packet_clear, NULL)
BY DEF Plain, com_packet_clear, COM_PACKET_NORMAL, COM_PACKET_CMD

(* WholeWords: padding makes whole words. *)
LEMMA WholeWords ==
  ASSUME NEW k \in Nat
  PROVE  (k + PaddingAfter(k)) % 4 = 0
<1>1. PICK r \in 0 .. 3 : r = k % 4
  OBVIOUS
<1>2. (k + (4 - r)) % 4 = 0
  BY <1>1
<1> QED BY <1>1, <1>2 DEF PaddingAfter

(* CreateIsPlain: com_packet_create. *)
LEMMA CreateIsPlain ==
  ASSUME NEW d \in Payloads
  PROVE  Plain(com_packet_create(d), NULL)
<1>1. PICK k \in Nat : k = Len(d)
  <2>1. d \in Seq(Byte)
    BY BytesAssumption
  <2> QED BY <2>1, LenProperties
<1>2. PICK p : p = com_packet_create(d)
  OBVIOUS
<1>3. p.packet_type = COM_PACKET_NORMAL
      /\ p.payload_length = IF k >= COM_PACKET_PAYLOAD_SIZE THEN COM_PACKET_PAYLOAD_SIZE
                            ELSE k + PaddingAfter(k)
  BY <1>1, <1>2 DEF com_packet_create, Seal
<1>4. p.payload_length % 4 = 0
  BY <1>3, WholeWords, PayloadAssumption
<1>5. p \in Checked
  BY <1>2 DEF Checked
<1>6. COM_PACKET_NORMAL # COM_PACKET_CMD
  BY DEF COM_PACKET_NORMAL, COM_PACKET_CMD
<1> QED BY <1>2, <1>3, <1>4, <1>5, <1>6 DEF Plain

(* CmdIsPlain: com_packet_create_cmd. *)
LEMMA CmdIsPlain ==
  ASSUME NEW c \in Commands, NEW d \in Parameters(c)
  PROVE  Plain(com_packet_create_cmd(c, d),
               IF d = NULL /\ c \in SetCommands \cup ParaCommands THEN NULL ELSE c)
<1> DEFINE order1 == IF d = NULL /\ c \in SetCommands \cup ParaCommands THEN NULL ELSE c
<1>1. d # NULL => Len(d) \in Nat
  BY AddressFacts, LenProperties DEF Parameters
<1>2. PICK p : p = com_packet_create_cmd(c, d)
  OBVIOUS
<1>3. p.packet_type = COM_PACKET_CMD /\ p.payload_length = CmdExtent(c, d)[1]
  BY <1>2 DEF com_packet_create_cmd, Seal
<1>4. p \in Checked
  BY <1>2 DEF Checked
<1>5. CASE c \notin SetCommands \cup ParaCommands
  <2>1. p.payload_length = 4
    BY <1>3, <1>5 DEF CmdExtent
  <2>2. 4 % 4 = 0
    OBVIOUS
  <2>3. order1 # NULL
    BY <1>5, CommandAssumption
  <2> QED BY <1>2, <1>4, <2>1, <2>2, <2>3 DEF Plain
<1>6. CASE c \in SetCommands \cup ParaCommands /\ d = NULL
  <2>1. p.payload_length = 0
    BY <1>3, <1>6 DEF CmdExtent
  <2>2. 0 % 4 = 0
    OBVIOUS
  <2> QED BY <1>2, <1>4, <2>1, <2>2 DEF Plain
<1>7. CASE c \in SetCommands \cup ParaCommands /\ d # NULL
  <2>1. order1 # NULL
    BY <1>7, CommandAssumption
  <2>2. PICK k \in Nat : k = Len(d) + 1
    BY <1>1, <1>7
  <2>3. p.payload_length \in {COM_PACKET_PAYLOAD_SIZE, k + PaddingAfter(k)}
    BY <1>3, <1>7, <2>2 DEF CmdExtent
  <2>4. p.payload_length % 4 = 0
    BY <2>3, WholeWords, PayloadAssumption
  <2> QED BY <1>2, <1>4, <2>1, <2>4 DEF Plain
<1> QED BY <1>5, <1>6, <1>7

(* SpecialIsPlain: com_packet_create_special makes none of the two types.  *)
LEMMA SpecialIsPlain ==
  ASSUME NEW d \in Payloads \cup {NULL},
         NEW t \in {COM_PACKET_ACK, COM_PACKET_NACK, COM_PACKET_FALSE} \cup Reports
  PROVE  Plain(com_packet_create_special(t, d), NULL)
<1>1. /\ COM_PACKET_ACK = 2 /\ COM_PACKET_NACK = 3 /\ COM_PACKET_FALSE = 4
      /\ COM_PACKET_BAD_CRC = 5 /\ COM_PACKET_CMD = 1 /\ COM_PACKET_NORMAL = 0
      /\ Reports = {6, 7, 8}
  BY DEF COM_PACKET_ACK, COM_PACKET_NACK, COM_PACKET_FALSE, COM_PACKET_BAD_CRC, COM_PACKET_CMD,
         COM_PACKET_NORMAL, Reports, COM_PACKET_POS, COM_PACKET_CAL_FACTOR, COM_PACKET_DEVICES
<1>2. PICK p : p = com_packet_create_special(t, d)
  OBVIOUS
<1>3. ASSUME NEW type, NEW payload, NEW length, NEW padding
      PROVE  Seal(type, payload, length, padding).packet_type = type
  BY DEF Seal
<1>4. ASSUME NEW type, NEW payload, NEW length, NEW padding, NEW word
      PROVE  [Seal(type, payload, length, padding) EXCEPT !.crc32 = word].packet_type = type
  BY DEF Seal
<1>5. p = com_packet_clear \/ p.packet_type = t
  <2>1. CASE t = COM_PACKET_FALSE
    BY <1>1, <1>2, <2>1 DEF com_packet_create_special
  <2>2. CASE t = COM_PACKET_ACK
    <3>1. p = [Seal(t, NoPayload, 0, 0) EXCEPT !.crc32 = ACK_CRC32]
      BY <1>1, <1>2, <2>2 DEF com_packet_create_special
    <3> QED BY <1>4, <3>1
  <2>3. CASE t = COM_PACKET_NACK
    <3>1. p = [Seal(t, NoPayload, 0, 0) EXCEPT !.crc32 = NACK_CRC32]
      BY <1>1, <1>2, <2>3 DEF com_packet_create_special
    <3> QED BY <1>4, <3>1
  <2>4. CASE t \in Reports
    <3>1. p = IF d = NULL THEN com_packet_clear
              ELSE IF Len(d) >= COM_PACKET_PAYLOAD_SIZE
              THEN Seal(t, Payload(d), COM_PACKET_PAYLOAD_SIZE, 0)
              ELSE Seal(t, Payload(d), Len(d) + ReportPadding(Len(d)), ReportPadding(Len(d)))
      BY <1>1, <1>2, <2>4 DEF com_packet_create_special
    <3> QED BY <1>3, <3>1
  <2> QED BY <2>1, <2>2, <2>3, <2>4
<1>6. com_packet_clear.packet_type = COM_PACKET_NORMAL
  BY DEF com_packet_clear
<1> QED BY <1>1, <1>2, <1>5, <1>6 DEF Plain

(* PlainKept: every action leaves such a packet as the one sent. *)
LEMMA PlainKept == ASSUME Plain(sent, order), [Next]_vars PROVE Plain(sent', order')
<1>1. CASE UNCHANGED <<sent, order>>
  BY <1>1
<1>2. CASE Create
  <2>1. PICK d \in Payloads : Make(NULL) /\ sent' = com_packet_create(d)
    BY <1>2 DEF Create
  <2> QED BY <2>1, CreateIsPlain DEF Make
<1>3. CASE CreateCmd
  <2>1. PICK c \in Commands : \E d \in Parameters(c) :
          /\ Make(IF d = NULL /\ c \in SetCommands \cup ParaCommands THEN NULL ELSE c)
          /\ sent' = com_packet_create_cmd(c, d)
    BY <1>3 DEF CreateCmd
  <2>2. PICK d \in Parameters(c) :
          /\ Make(IF d = NULL /\ c \in SetCommands \cup ParaCommands THEN NULL ELSE c)
          /\ sent' = com_packet_create_cmd(c, d)
    BY <2>1
  <2> QED BY <2>2, CmdIsPlain DEF Make
<1>4. CASE CreateSpecial
  <2>1. PICK t \in {COM_PACKET_ACK, COM_PACKET_NACK, COM_PACKET_FALSE} \cup Reports,
             d \in Payloads \cup {NULL} :
          Make(NULL) /\ sent' = com_packet_create_special(t, d)
    BY <1>4 DEF CreateSpecial
  <2> QED BY <2>1, SpecialIsPlain DEF Make
<1>5. CASE Again
  BY <1>5, ClearIsPlain DEF Again
<1>6. CASE com_packet_init \/ Arrive \/ ParseTooEarly \/ ParseBegin \/ ParseStep \/ ParseReturn \/ Tick
           \/ UNCHANGED vars
  BY <1>1, <1>6 DEF com_packet_init, Arrive, ParseTooEarly, ParseBegin, ParseStep, ParseReturn, Tick, vars
<1> QED BY <1>2, <1>3, <1>4, <1>5, <1>6 DEF Next

-----------------------------------------------------------------------------
(* The packet sent, or what is left of it, lies at at, and is long enough  *)
(* to be looked at: it is there whole, or with a byte damaged that is not  *)
(* its length.                                                             *)
Remains(at) ==
  LET n == sent.payload_length
      f == Frame(sent)
  IN  /\ n \in Nat /\ n <= COM_PACKET_PAYLOAD_SIZE /\ Sealed(sent) /\ sent # com_packet_clear
      /\ at + (14 + n) <= Len(data) /\ data[at + 5] = n
      /\ \/ \A j \in 1 .. 14 + n : data[at + j] = f[j]
         \/ \E k \in 1 .. 14 + n :
              data[at + k] = (f[k] + 1) % 256 /\ \A j \in 1 .. 14 + n : j # k => data[at + j] = f[j]

(* SizeBytes: the bytes of packet_size in which two sizes differ. *)
LEMMA SizeBytes ==
  ASSUME NEW m \in 0 .. 128, NEW n \in 0 .. 255
  PROVE  U32(14 + m)[1] = U32(14 + n)[1] /\ U32(14 + m)[2] = U32(14 + n)[2] => m = n
<1>1. U32(14 + m)[1] = (14 + m) % 256 /\ U32(14 + m)[2] = ((14 + m) \div 256) % 256
      /\ U32(14 + n)[1] = (14 + n) % 256 /\ U32(14 + n)[2] = ((14 + n) \div 256) % 256
  BY DEF U32
<1>2. (14 + m) % 256 = 14 + m /\ ((14 + m) \div 256) % 256 = 0
  OBVIOUS
<1>3. CASE n < 242
  <2>1. (14 + n) % 256 = 14 + n
    BY <1>3
  <2> QED BY <1>1, <1>2, <2>1
<1>4. CASE n >= 242
  <2>1. ((14 + n) \div 256) % 256 = 1
    BY <1>4
  <2> QED BY <1>1, <1>2, <2>1
<1> QED BY <1>3, <1>4

(* LeftAt: a byte that is left is as it was, or all others are.            *)
LEMMA LeftAt ==
  ASSUME NEW f \in Seq(Byte), NEW g \in Seq(Byte), Left(f, g),
         NEW i \in 1 .. Len(f), i <= Len(g)
  PROVE  \/ g[i] = f[i]
         \/ g[i] = (f[i] + 1) % 256 /\ \A j \in 1 .. Len(f) : j # i => g[j] = f[j]
<1>1. Len(f) \in Nat /\ Len(g) \in Nat
  BY LenProperties
<1>2. CASE Whole(f, g)
  BY <1>2 DEF Whole
<1>3. CASE Cut(f, g)
  BY <1>1, <1>3 DEF Cut
<1>4. CASE \E k \in 1 .. Len(f) : DamagedAt(f, g, k)
  <2>1. PICK k \in 1 .. Len(f) : DamagedAt(f, g, k)
    BY <1>4
  <2> QED BY <2>1 DEF DamagedAt
<1> QED BY <1>2, <1>3, <1>4 DEF Left

(* RemainsAt: what looks like a packet where the packet sent should lie is *)
(* it.                                                                     *)
LEMMA RemainsAt ==
  ASSUME Types, NEW b \in Before, data \in Arrivals(b, sent), WellFormed(data, Len(b)),
         Len(b) + COM_PACKET_HEADER_SIZE <= Len(data)
  PROVE  Remains(Len(b))
<1>1. PICK at \in Nat : at = Len(b) /\ b \in Seq(Byte)
  BY BytesAssumption, LenProperties
<1>2. PICK n \in 0 .. 255 : n = sent.payload_length
  <2>1. sent.payload_length \in 0 .. Longest
    BY DEF Types, Made, PacketType
  <2>2. 0 .. Longest \subseteq 0 .. 255
    BY SizeFacts DEF Longest
  <2> QED BY <2>1, <2>2
<1>3. PICK f \in Seq(Byte) : f = Frame(sent) /\ Len(f) = 14 + n /\ f[5] = n
                             /\ \A j \in 1 .. 4 : f[6 + j] = sent.packet_size[j]
  BY <1>2, FrameShape DEF Types, Made
<1>4. PICK g \in Seq(Byte) : data = b \o g /\ Left(f, g)
  BY <1>3, ArrivalsAre DEF Types, Made
<1>5. PICK l \in Nat : l = Len(g) /\ Len(data) = at + l /\ l >= 14
  <2>1. Len(g) \in Nat /\ Len(data) = Len(b) + Len(g)
    BY <1>1, <1>4, Appended, LenProperties
  <2> QED BY <1>1, <2>1, SizeFacts
<1>6. \A j \in 1 .. l : data[at + j] = g[j]
  BY <1>1, <1>4, <1>5, Appended
<1>7. PICK m \in 0 .. 128 : m = data[at + 5] /\ m = g[5]
  <2>1. 5 \in 1 .. l
    BY <1>5
  <2>2. g[5] \in Byte
    BY <1>5, <2>1, ElementOfSeq
  <2>3. PICK m : m = g[5]
    OBVIOUS
  <2>4. m = data[at + 5] /\ m \in 0 .. 255 /\ m <= COM_PACKET_PAYLOAD_SIZE
    BY <1>1, <1>6, <2>1, <2>2, <2>3, SizeFacts DEF WellFormed
  <2>5. m \in 0 .. 128
    <3>1. PICK z \in Nat : z = COM_PACKET_PAYLOAD_SIZE /\ z <= 128
      BY SizeFacts
    <3>2. m \in 0 .. 255 /\ m <= z
      BY <2>4, <3>1, Zenon
    <3> QED BY ONLY <3>1, <3>2
  <2> QED BY <2>3, <2>4, <2>5
<1>8. g[7] = U32(14 + m)[1] /\ g[8] = U32(14 + m)[2]
  <2>1. SubSeq(data, at + 7, at + 10) = U32(14 + m)
    BY <1>1, <1>7, SizeFacts DEF WellFormed
  <2>2. \A j \in 1 .. 4 : SubSeq(data, at + 7, at + 10)[j] = data[at + 6 + j]
    <3>1. at + 14 <= Len(data) /\ data \in Seq(Byte)
      BY <1>5 DEF Types, TypeOK
    <3> QED BY <3>1, SliceIsWord
  <2>3. at + 6 + 1 = at + 7 /\ at + 6 + 2 = at + 8 /\ 1 \in 1 .. 4 /\ 2 \in 1 .. 4
        /\ 7 \in 1 .. l /\ 8 \in 1 .. l
    BY <1>5
  <2>4. data[at + 7] = U32(14 + m)[1] /\ data[at + 8] = U32(14 + m)[2]
    BY <2>1, <2>2, <2>3
  <2> QED BY <1>6, <2>3, <2>4
<1>9. f[7] = sent.packet_size[1] /\ f[8] = sent.packet_size[2]
  <2>1. 6 + 1 = 7 /\ 6 + 2 = 8 /\ 1 \in 1 .. 4 /\ 2 \in 1 .. 4
    OBVIOUS
  <2> QED BY <1>3, <2>1
<1>10. /\ 5 \in 1 .. Len(f) /\ 7 \in 1 .. Len(f) /\ 8 \in 1 .. Len(f)
       /\ 5 <= Len(g) /\ 7 <= Len(g) /\ 8 <= Len(g)
  BY <1>3, <1>5
<1>11. g[7] = 14 + m
  <2>1. U32(14 + m)[1] = 14 + m
    <3>1. U32(14 + m)[1] = (14 + m) % 256
      BY DEF U32
    <3>2. (14 + m) % 256 = 14 + m
      OBVIOUS
    <3> QED BY <3>1, <3>2
  <2> QED BY <1>8, <2>1
<1>12. sent # com_packet_clear
  <2>1. com_packet_clear.packet_size[1] = 0
    BY DEF com_packet_clear, ZeroU32
  <2>2. ASSUME f[7] = 0 PROVE g[7] = 0 \/ g[7] = 1
    <3>1. g[7] = f[7] \/ g[7] = (f[7] + 1) % 256
      BY <1>4, <1>10, LeftAt
    <3> QED BY <2>2, <3>1
  <2>3. g[7] # 0 /\ g[7] # 1
    BY <1>11
  <2> QED BY <1>9, <2>1, <2>2, <2>3
<1>13. Sealed(sent) /\ sent.packet_size = U32(14 + n)
  BY <1>2, <1>12, SizeFacts DEF Types, Made, Sealed
<1>14. m = n
  <2>1. CASE g[5] = f[5]
    BY <1>3, <1>7, <2>1
  <2>2. CASE g[5] # f[5]
    <3>1. g[7] = f[7] /\ g[8] = f[8]
      <4>1. \A j \in 1 .. Len(f) : j # 5 => g[j] = f[j]
        BY <1>4, <1>10, <2>2, LeftAt
      <4> QED BY <1>10, <4>1
    <3>2. U32(14 + m)[1] = U32(14 + n)[1] /\ U32(14 + m)[2] = U32(14 + n)[2]
      BY <1>8, <1>9, <1>13, <3>1
    <3> QED BY <1>2, <1>7, <3>2, SizeBytes, Zenon
  <2> QED BY <2>1, <2>2
<1>15. 14 + n <= l /\ n <= COM_PACKET_PAYLOAD_SIZE
  <2>1. at + 14 + m <= at + l /\ m <= COM_PACKET_PAYLOAD_SIZE
    BY <1>1, <1>5, <1>7, SizeFacts DEF WellFormed
  <2> QED BY <1>14, <2>1
<1>16. \/ \A j \in 1 .. 14 + n : data[at + j] = f[j]
       \/ \E k \in 1 .. 14 + n :
            data[at + k] = (f[k] + 1) % 256 /\ \A j \in 1 .. 14 + n : j # k => data[at + j] = f[j]
  <2>1. \A j \in 1 .. 14 + n : data[at + j] = g[j]
    BY <1>6, <1>15
  <2>2. Whole(f, g) \/ \E k \in 1 .. Len(f) : DamagedAt(f, g, k)
    <3>1. ~Cut(f, g)
      BY <1>3, <1>5, <1>15 DEF Cut
    <3> QED BY <1>4, <3>1 DEF Left
  <2>3. CASE Whole(f, g)
    BY <1>3, <2>1, <2>3 DEF Whole
  <2>4. CASE \E k \in 1 .. Len(f) : DamagedAt(f, g, k)
    <3>1. PICK k \in 1 .. 14 + n : DamagedAt(f, g, k)
      BY <1>3, <2>4
    <3>2. g[k] = (f[k] + 1) % 256 /\ \A j \in 1 .. 14 + n : j # k => g[j] = f[j]
      BY <1>3, <3>1 DEF DamagedAt
    <3> QED BY <2>1, <3>2
  <2> QED BY <2>2, <2>3, <2>4
<1>17. at + (14 + n) <= Len(data) /\ data[at + 5] = n
  BY <1>5, <1>7, <1>14, <1>15
<1>18. n \in Nat
  OBVIOUS
<1>19. Remains(at)
  BY <1>2, <1>3, <1>12, <1>13, <1>15, <1>16, <1>17, <1>18, Zenon DEF Remains
<1> QED BY <1>1, <1>19

(* AckIs: the bytes of an acknowledgement. *)
LEMMA AckIs ==
  ASSUME CrcIsWord
  PROVE  /\ Acknowledgement \in Seq(Byte) /\ Len(Acknowledgement) = 14
         /\ Acknowledgement[1] = COM_PACKET_VERSION /\ Acknowledgement[4] = COM_PACKET_ACK
         /\ Acknowledgement[5] = 0
         /\ \A j \in 1 .. 4 : /\ Acknowledgement[6 + j] = U32(14)[j]
                              /\ Acknowledgement[10 + j] = ACK_CRC32[j]
<1>1. PICK p : p = com_packet_create_special(COM_PACKET_ACK, NULL)
  OBVIOUS
<1>2. p \in PacketType(Longest)
  BY <1>1, SpecialIsMade DEF Made
<1>3. PICK q : q = Seal(COM_PACKET_ACK, NoPayload, 0, 0)
  OBVIOUS
<1>4. p = [q EXCEPT !.crc32 = ACK_CRC32]
  BY <1>1, <1>3 DEF com_packet_create_special, COM_PACKET_ACK, COM_PACKET_NACK, COM_PACKET_FALSE,
     COM_PACKET_BAD_CRC, COM_PACKET_CMD, COM_PACKET_NORMAL
<1>5. /\ p.version = COM_PACKET_VERSION /\ p.packet_type = COM_PACKET_ACK /\ p.payload_length = 0
      /\ p.packet_size = U32(COM_PACKET_HEADER_SIZE + 0) /\ p.crc32 = ACK_CRC32
  BY <1>3, <1>4 DEF Seal
<1>6. U32(COM_PACKET_HEADER_SIZE + 0) = U32(14)
  BY SizeFacts
<1>7. PICK f \in Seq(Byte) : f = Acknowledgement /\ Len(f) = 14 + 0
        /\ f[1] = p.version /\ f[4] = p.packet_type /\ f[5] = p.payload_length
        /\ \A j \in 1 .. 4 : f[6 + j] = p.packet_size[j] /\ f[10 + j] = p.crc32[j]
  BY <1>1, <1>2, <1>5, FrameShape DEF Acknowledgement
<1> QED BY <1>5, <1>6, <1>7

IsAck(at) == SubSeq(data, at + 1, at + COM_PACKET_HEADER_SIZE) = Acknowledgement

(* AckAt: the search ends at an acknowledgement. *)
LEMMA AckAt ==
  ASSUME CrcIsWord, Types, NEW at \in Nat, at + COM_PACKET_HEADER_SIZE <= Len(data), IsAck(at)
  PROVE  /\ WellFormed(data, at) /\ data[at + 4] = COM_PACKET_ACK
         /\ \A r : Verdict(data, at, r) = COM_PACKET_ACK
<1>1. data \in Seq(Byte) /\ at + 14 <= Len(data)
  BY SizeFacts DEF Types, TypeOK
<1>2. \A j \in 1 .. 14 : data[at + j] = Acknowledgement[j]
  <2>1. LET s == SubSeq(data, at + 1, at + 14)
        IN  s \in Seq(Byte) /\ Len(s) = 14 /\ \A j \in 1 .. 14 : s[j] = data[at + j]
    BY <1>1, SliceIs
  <2>2. SubSeq(data, at + 1, at + 14) = Acknowledgement
    BY SizeFacts DEF IsAck
  <2> QED BY <2>1, <2>2
<1>3. /\ data[at + 1] = COM_PACKET_VERSION /\ data[at + 4] = COM_PACKET_ACK /\ data[at + 5] = 0
  BY <1>2, AckIs
<1>4. \A j \in 1 .. 4 : data[at + 6 + j] = U32(14)[j] /\ data[at + 10 + j] = ACK_CRC32[j]
  <2> TAKE j \in 1 .. 4
  <2>1. 6 + j \in 1 .. 14 /\ 10 + j \in 1 .. 14 /\ at + (6 + j) = at + 6 + j /\ at + (10 + j) = at + 10 + j
    OBVIOUS
  <2>2. data[at + (6 + j)] = Acknowledgement[6 + j] /\ data[at + (10 + j)] = Acknowledgement[10 + j]
    BY <1>2, <2>1
  <2> QED BY <2>1, <2>2, AckIs
<1>5. SubSeq(data, at + 7, at + 10) = U32(14) /\ SubSeq(data, at + 11, at + 14) = ACK_CRC32
  <2>1. PICK size \in [1 .. 4 -> Byte] : size = SubSeq(data, at + 7, at + 10) /\ \A j \in 1 .. 4 : size[j] = data[at + 6 + j]
    BY <1>1, SliceIsWord
  <2>2. PICK crc \in [1 .. 4 -> Byte] : crc = SubSeq(data, at + 11, at + 14) /\ \A j \in 1 .. 4 : crc[j] = data[at + 10 + j]
    BY <1>1, SliceIsWord
  <2>3. U32(14) \in [1 .. 4 -> Byte] /\ ACK_CRC32 \in [1 .. 4 -> Byte]
    BY WordTypes
  <2>4. \A j \in 1 .. 4 : size[j] = U32(14)[j]
    BY <1>4, <2>1
  <2>5. \A j \in 1 .. 4 : crc[j] = ACK_CRC32[j]
    BY <1>4, <2>2
  <2>6. size = U32(14) /\ crc = ACK_CRC32
    BY <2>3, <2>4, <2>5, WordEqual
  <2> QED BY <2>1, <2>2, <2>6
<1>6. WellFormed(data, at)
  <2>1. /\ data[at + 5] <= COM_PACKET_PAYLOAD_SIZE
        /\ SubSeq(data, at + 7, at + 10) = U32(COM_PACKET_HEADER_SIZE + data[at + 5])
        /\ at + COM_PACKET_HEADER_SIZE + data[at + 5] <= Len(data)
    BY <1>1, <1>3, <1>5, SizeFacts
  <2> QED BY <1>3, <2>1, Zenon DEF WellFormed
<1>7. ASSUME NEW r PROVE Verdict(data, at, r) = COM_PACKET_ACK
  <2>1. Verdict(data, at, r) = data[at + 4]
    BY <1>3, <1>5, VerdictOf, Zenon
  <2> QED BY <1>3, <2>1
<1> QED BY <1>3, <1>6, <1>7

(* The packet sent is alone in the buffer, behind b. *)
AloneAt(b) ==
  /\ b \in Before /\ data \in Arrivals(b, sent)
  /\ \A i \in 0 .. Len(data) - COM_PACKET_HEADER_SIZE : i # Len(b) => Passed(i) \/ IsAck(i)

(* OnlyRemains: if the packet sent is alone, what was taken was taken from *)
(* where it lies.                                                          *)
LEMMA OnlyRemains ==
  ASSUME CrcIsWord, Types, NEW b, AloneAt(b), NEW at, TakenFrom(at), retval \in Carrying
  PROVE  Remains(at)
<1>1. /\ at \in Nat /\ at + COM_PACKET_HEADER_SIZE <= Len(data) /\ WellFormed(data, at)
      /\ ~Passed(at) /\ retval = data[at + 4]
  BY DEF TakenFrom
<1>2. at \in 0 .. Len(data) - COM_PACKET_HEADER_SIZE
  <2>1. Len(data) \in Nat
    BY LenProperties DEF Types, TypeOK
  <2> QED BY <1>1, <2>1, SizeFacts
<1>3. ~IsAck(at)
  <2>1. COM_PACKET_ACK \notin Carrying
    BY DEF Carrying, Reports, COM_PACKET_ACK, COM_PACKET_NORMAL, COM_PACKET_CMD, COM_PACKET_POS,
           COM_PACKET_CAL_FACTOR, COM_PACKET_DEVICES
  <2> QED BY <1>1, <2>1, AckAt
<1>4. at = Len(b)
  BY <1>1, <1>2, <1>3 DEF AloneAt
<1> QED BY <1>1, <1>4, RemainsAt DEF AloneAt

(* AloneSomewhere: Alone names a place. *)
LEMMA AloneSomewhere == Alone => \E b : AloneAt(b)
BY DEF Alone, AloneAt, IsAck

-----------------------------------------------------------------------------
(* WordsAre: a payload of whole words is checked as it is. *)
LEMMA WordsAre ==
  ASSUME NEW payload \in Seq(Byte), NEW n \in Nat, n % 4 = 0, n <= Len(payload)
  PROVE  LET words == WordsOf(payload, n)
         IN  words \in Seq(Byte) /\ Len(words) = n /\ \A j \in 1 .. n : words[j] = payload[j]
<1>1. PICK l \in Nat : l = Len(payload) /\ n <= l
  BY LenProperties
<1>2. n <= l + COM_PACKET_PAYLOAD_SIZE /\ n - (n % 4) = n
  BY <1>1, SizeFacts
<1>3. /\ Held(payload, n) \in Seq(Byte) /\ Len(Held(payload, n)) = n
      /\ \A j \in 1 .. n : Held(payload, n)[j] = IF j <= l THEN payload[j] ELSE Beyond[j - l]
  BY <1>1, <1>2, HeldIs
<1>4. \A j \in 1 .. n : Held(payload, n)[j] = payload[j]
  BY <1>1, <1>3
<1>5. WordsOf(payload, n) = Held(payload, n)
  BY <1>2 DEF WordsOf
<1> QED BY <1>3, <1>4, <1>5

(* Unaltered: if a packet that carries a check sum is taken from where the *)
(* packet sent lies, the payload is the one that was sent.                 *)
LEMMA Unaltered ==
  ASSUME CrcTells, Types, Plain(sent, order), NEW at \in Nat, Remains(at),
         data[at + 4] \in {COM_PACKET_NORMAL, COM_PACKET_CMD}, CrcMatches(data, at)
  PROVE  \A j \in 1 .. sent.payload_length : data[at + 14 + j] = sent.payload[j]
<1>1. PICK n \in Nat : n = sent.payload_length /\ n <= COM_PACKET_PAYLOAD_SIZE /\ at + (14 + n) <= Len(data)
                       /\ data[at + 5] = n
  BY DEF Remains
<1>2. sent.payload \in Seq(Byte) /\ Len(sent.payload) = COM_PACKET_PAYLOAD_SIZE
  BY PayloadIsSeq DEF Types, Made, PacketType
<1>3. PICK f : /\ f = Frame(sent) /\ f[4] = sent.packet_type
               /\ \A j \in 1 .. 4 : f[10 + j] = sent.crc32[j]
               /\ \A j \in 1 .. n : f[14 + j] = Held(sent.payload, n)[j]
  BY <1>1, FrameShape DEF Types, Made
<1>4. \A j \in 1 .. n : f[14 + j] = sent.payload[j]
  <2>1. n <= Len(sent.payload) + COM_PACKET_PAYLOAD_SIZE /\ \A j \in 1 .. n : j <= Len(sent.payload)
    BY <1>1, <1>2, SizeFacts
  <2>2. \A j \in 1 .. n : Held(sent.payload, n)[j] = sent.payload[j]
    BY <1>2, <2>1, HeldIs
  <2> QED BY <1>3, <2>2
<1>5. \A j \in 1 .. n : 14 + j \in 1 .. 14 + n /\ at + (14 + j) = at + 14 + j
  OBVIOUS
<1>6. CASE \A j \in 1 .. n : data[at + 14 + j] = f[14 + j]
  BY <1>1, <1>4, <1>6
<1>7. CASE ~ \A j \in 1 .. n : data[at + 14 + j] = f[14 + j]
  <2>1. PICK k \in 1 .. n : data[at + 14 + k] # f[14 + k]
    BY <1>7
  <2>2. /\ data[at + (14 + k)] = (f[14 + k] + 1) % 256
        /\ \A j \in 1 .. 14 + n : j # 14 + k => data[at + j] = f[j]
    <3>1. PICK i : i = 14 + k
      OBVIOUS
    <3>2. i \in 1 .. 14 + n /\ data[at + i] # f[i]
      BY <1>5, <2>1, <3>1
    <3>3. data[at + i] = (f[i] + 1) % 256 /\ \A j \in 1 .. 14 + n : j # i => data[at + j] = f[j]
      <4>1. \/ \A j \in 1 .. 14 + n : data[at + j] = f[j]
            \/ \E l \in 1 .. 14 + n :
                 data[at + l] = (f[l] + 1) % 256 /\ \A j \in 1 .. 14 + n : j # l => data[at + j] = f[j]
        <5>1. PICK m, e : m = sent.payload_length /\ e = Frame(sent)
          OBVIOUS
        <5>2. \/ \A j \in 1 .. 14 + m : data[at + j] = e[j]
              \/ \E l \in 1 .. 14 + m :
                   data[at + l] = (e[l] + 1) % 256 /\ \A j \in 1 .. 14 + m : j # l => data[at + j] = e[j]
          BY <5>1 DEF Remains
        <5>3. m = n /\ e = f
          BY <1>1, <1>3, <5>1
        <5> QED BY <5>2, <5>3
      <4>2. PICK l \in 1 .. 14 + n :
              data[at + l] = (f[l] + 1) % 256 /\ \A j \in 1 .. 14 + n : j # l => data[at + j] = f[j]
        BY <3>2, <4>1
      <4>3. i = l
        BY <3>2, <4>2
      <4> QED BY <4>2, <4>3
    <3> QED BY <3>1, <3>3
  <2>3. sent.packet_type \in {COM_PACKET_NORMAL, COM_PACKET_CMD}
    <3>1. 4 \in 1 .. 14 + n /\ 4 # 14 + k
      OBVIOUS
    <3> QED BY <1>3, <2>2, <3>1
  <2>4. SubSeq(data, at + 11, at + 14) = sent.crc32
    <3>1. \A j \in 1 .. 4 : data[at + 10 + j] = sent.crc32[j]
      <4> TAKE j \in 1 .. 4
      <4>1. 10 + j \in 1 .. 14 + n /\ 10 + j # 14 + k /\ at + (10 + j) = at + 10 + j
        OBVIOUS
      <4>2. data[at + (10 + j)] = f[10 + j]
        BY <2>2, <4>1
      <4> QED BY <1>3, <4>1, <4>2
    <3>2. at + 14 <= Len(data) /\ data \in Seq(Byte)
      <4>1. Len(data) \in Nat
        BY LenProperties DEF Types, TypeOK
      <4> QED BY <1>1, <4>1 DEF Types, TypeOK
    <3>3. PICK crc \in [1 .. 4 -> Byte] : crc = SubSeq(data, at + 11, at + 14) /\ \A j \in 1 .. 4 : crc[j] = data[at + 10 + j]
      BY <3>2, SliceIsWord
    <3>4. sent.crc32 \in [1 .. 4 -> Byte] /\ \A j \in 1 .. 4 : crc[j] = sent.crc32[j]
      BY <3>1, <3>3 DEF Types, Made, PacketType
    <3>5. crc = sent.crc32
      BY <3>4, WordEqual
    <3> QED BY <3>3, <3>5
  <2>5. n % 4 = 0 /\ n - (n % 4) = n /\ sent \in Checked
    <3>1. n % 4 = 0 /\ sent \in Checked
      BY <1>1, <2>3 DEF Plain, Remains
    <3> QED BY <3>1
  <2>6. PICK t \in Seq(Byte) : t = SubSeq(data, at + 15, at + 14 + n) /\ Len(t) = n
                               /\ \A j \in 1 .. n : t[j] = data[at + 14 + j]
    <3>1. at + 14 \in Nat /\ (at + 14) + n <= Len(data) /\ (at + 14) + 1 = at + 15
      <4>1. Len(data) \in Nat
        BY LenProperties DEF Types, TypeOK
      <4> QED BY <1>1, <4>1
    <3>2. LET s == SubSeq(data, (at + 14) + 1, (at + 14) + n)
          IN  s \in Seq(Byte) /\ Len(s) = n /\ \A j \in 1 .. n : s[j] = data[(at + 14) + j]
      BY <3>1, SliceIs DEF Types, TypeOK
    <3>3. PICK t : t = SubSeq(data, at + 15, at + 14 + n)
      OBVIOUS
    <3> QED BY <3>1, <3>2, <3>3
  <2>7. PICK words \in Seq(Byte) : /\ words = WordsOf(sent.payload, n) /\ Len(words) = n
                                   /\ \A j \in 1 .. n : words[j] = sent.payload[j]
    <3>1. n <= Len(sent.payload)
      BY <1>1, <1>2
    <3> QED BY <1>2, <2>5, <3>1, WordsAre
  <2>8. PICK left \in Seq(Byte) : /\ left = WordsOf(t, n) /\ Len(left) = n
                                  /\ \A j \in 1 .. n : left[j] = t[j]
    <3>1. n <= Len(t)
      BY <2>6
    <3> QED BY <2>5, <2>6, <3>1, WordsAre
  <2>9. left = [words EXCEPT ![k] = (@ + 1) % 256]
    <3>1. PICK g : g = [words EXCEPT ![k] = (@ + 1) % 256]
      OBVIOUS
    <3>2. /\ g \in Seq(Byte) /\ Len(g) = n /\ g[k] = (words[k] + 1) % 256
          /\ \A j \in 1 .. n : j # k => g[j] = words[j]
      BY <2>7, <3>1, DamagedIs
    <3>3. left[k] = (words[k] + 1) % 256
      BY <1>4, <1>5, <2>2, <2>6, <2>7, <2>8
    <3>4. ASSUME NEW j \in 1 .. n, j # k PROVE left[j] = words[j]
      <4>1. 14 + j # 14 + k
        BY <3>4
      <4>2. data[at + (14 + j)] = f[14 + j]
        BY <1>5, <2>2, <4>1
      <4> QED BY <1>4, <1>5, <2>6, <2>7, <2>8, <4>2
    <3>5. \A j \in 1 .. n : left[j] = g[j]
      BY <3>2, <3>3, <3>4
    <3>6. left = g
      BY <2>8, <3>2, <3>5, SeqEqual
    <3> QED BY <3>1, <3>6
  <2>10. Crc(left) = Crc(words)
    <3>1. SubSeq(data, at + 11, at + 14) = Crc(WordsOf(SubSeq(data, at + 15, at + 14 + n), n))
      BY <1>1 DEF CrcMatches
    <3>2. sent.crc32 = Crc(WordsOf(sent.payload, n))
      BY <1>1, <2>3 DEF Remains, Sealed
    <3> QED BY <2>4, <2>6, <2>7, <2>8, <3>1, <3>2
  <2>11. Crc([words EXCEPT ![k] = (@ + 1) % 256]) # Crc(words)
    <3>1. k \in 1 .. Len(words) /\ words = WordsOf(sent.payload, sent.payload_length)
      BY <1>1, <2>7
    <3> QED BY <2>5, <3>1 DEF CrcTells, Checked
  <2> QED BY <2>9, <2>10, <2>11
<1> QED BY <1>6, <1>7

(* TakenUnaltered: the packet handed over, where the one sent remains.     *)
LEMMA TakenUnaltered ==
  ASSUME CrcTells, Types, Plain(sent, order), NEW at, TakenFrom(at), Remains(at),
         retval \in {COM_PACKET_NORMAL, COM_PACKET_CMD}
  PROVE  /\ packet.packet_type = retval /\ packet.payload_length = sent.payload_length
         /\ packet.payload \in [1 .. COM_PACKET_PAYLOAD_SIZE -> Byte]
         /\ \A j \in 1 .. COM_PACKET_PAYLOAD_SIZE :
              packet.payload[j] = IF j <= sent.payload_length THEN sent.payload[j] ELSE given.payload[j]
<1>1. /\ at \in Nat /\ at + COM_PACKET_HEADER_SIZE <= Len(data) /\ WellFormed(data, at)
      /\ packet = cp_buf_to_packet(given, data, at)
      /\ retval = data[at + 4] /\ CrcMatches(data, at)
  BY DEF TakenFrom
<1>2. PICK n \in Nat : n = sent.payload_length /\ n <= COM_PACKET_PAYLOAD_SIZE /\ n = data[at + 5]
  BY DEF Remains
<1>3. \A j \in 1 .. n : data[at + 14 + j] = sent.payload[j]
  BY <1>1, <1>2, Unaltered
<1>4. /\ packet.packet_type = data[at + 4] /\ packet.payload_length = n
      /\ \A j \in 1 .. COM_PACKET_PAYLOAD_SIZE :
           packet.payload[j] = IF j <= n /\ n <= COM_PACKET_PAYLOAD_SIZE THEN data[at + 14 + j]
                               ELSE given.payload[j]
  BY <1>1, <1>2 DEF cp_buf_to_packet
<1>6. packet.payload \in [1 .. COM_PACKET_PAYLOAD_SIZE -> Byte]
  BY DEF Types, TypeOK, PacketType
<1>7. \A j \in 1 .. COM_PACKET_PAYLOAD_SIZE : packet.payload[j] = IF j <= n THEN sent.payload[j] ELSE given.payload[j]
  <2> TAKE j \in 1 .. COM_PACKET_PAYLOAD_SIZE
  <2>1. CASE j <= n
    <3>1. j \in 1 .. n
      BY <2>1, SizeFacts
    <3> QED BY <1>2, <1>3, <1>4, <2>1, <3>1
  <2>2. CASE ~(j <= n)
    BY <1>4, <2>2
  <2> QED BY <2>1, <2>2
<1> QED BY <1>1, <1>2, <1>4, <1>6, <1>7

(* Everything that the theorems below need of a state. *)
Sound == IInv /\ Types /\ Taken /\ Plain(sent, order)

(* SoundAlways: what is taken is sound at every step of a parse. *)
LEMMA SoundAlways ==
  ASSUME CrcIsWord
  PROVE  Spec => []Sound
<1>1. Init => Sound
  <2>1. Init => Plain(sent, order)
    BY ClearIsPlain DEF Init
  <2> QED BY <2>1, Initially, TypesInitially DEF Init, Taken, Sound
<1>2. Sound /\ [Next]_vars => Sound'
  BY InvKept, TypesKept, TakenKept, PlainKept DEF Sound
<1> QED BY <1>1, <1>2, PTL DEF Spec

(* AcceptedPacketsWereSent: AcceptedWasSent for any payload size, payloads,*)
(* noise and check sum that sees one damaged byte.                         *)
THEOREM AcceptedPacketsWereSent ==
  ASSUME CrcIsWord, CrcTells
  PROVE  Spec => []AcceptedWasSent
<1>1. Sound => AcceptedWasSent
  <2> SUFFICES ASSUME Sound, pc = "done", retval \in {COM_PACKET_NORMAL, COM_PACKET_CMD}, Alone
               PROVE  Content(packet) = Content(sent)
    BY DEF AcceptedWasSent
  <2>1. retval \in Carrying
    BY DEF Carrying
  <2>2. PICK at : TakenFrom(at)
    BY <2>1 DEF Sound, Taken
  <2>3. PICK b : AloneAt(b)
    BY AloneSomewhere
  <2>4. Remains(at)
    BY <2>1, <2>2, <2>3, OnlyRemains DEF Sound
  <2>5. /\ packet.payload_length = sent.payload_length
        /\ packet.payload \in [1 .. COM_PACKET_PAYLOAD_SIZE -> Byte]
        /\ \A j \in 1 .. COM_PACKET_PAYLOAD_SIZE :
             packet.payload[j] = IF j <= sent.payload_length THEN sent.payload[j] ELSE given.payload[j]
    BY <2>2, <2>4, TakenUnaltered DEF Sound
  <2>6. PICK n \in Nat : n = sent.payload_length /\ n <= COM_PACKET_PAYLOAD_SIZE
    BY <2>4 DEF Remains
  <2>7. /\ packet.payload \in Seq(Byte) /\ Len(packet.payload) = COM_PACKET_PAYLOAD_SIZE
        /\ sent.payload \in Seq(Byte) /\ Len(sent.payload) = COM_PACKET_PAYLOAD_SIZE
    BY <2>5, PayloadIsSeq DEF Sound, Types, Made, PacketType
  <2>8. \A j \in 1 .. n : packet.payload[j] = sent.payload[j]
    BY <2>5, <2>6, SizeFacts
  <2>9. Held(packet.payload, n) = Held(sent.payload, n)
    BY <2>6, <2>7, <2>8, HeldAlike
  <2> QED BY <2>5, <2>6, <2>9 DEF Content
<1> QED BY SoundAlways, <1>1, PTL

(* CommandsAreOrdered: CommandIsOrdered for any commands, parameters,      *)
(* payload size, noise and check sum that sees one damaged byte.           *)
THEOREM CommandsAreOrdered ==
  ASSUME CrcIsWord, CrcTells
  PROVE  Spec => []CommandIsOrdered
<1>1. Sound => CommandIsOrdered
  <2> SUFFICES ASSUME Sound, pc = "done", retval = COM_PACKET_CMD,
                      sent.packet_type = COM_PACKET_CMD, Alone
               PROVE  com_packet_get_cmd(packet) = IF order = NULL THEN given.payload[1] ELSE order
    BY DEF CommandIsOrdered
  <2>1. retval \in Carrying /\ retval \in {COM_PACKET_NORMAL, COM_PACKET_CMD}
    BY DEF Carrying
  <2>2. PICK at : TakenFrom(at)
    BY <2>1 DEF Sound, Taken
  <2>3. PICK b : AloneAt(b)
    BY AloneSomewhere
  <2>4. Remains(at)
    BY <2>1, <2>2, <2>3, OnlyRemains DEF Sound
  <2>5. /\ packet.packet_type = COM_PACKET_CMD
        /\ \A j \in 1 .. COM_PACKET_PAYLOAD_SIZE :
             packet.payload[j] = IF j <= sent.payload_length THEN sent.payload[j] ELSE given.payload[j]
    BY <2>1, <2>2, <2>4, TakenUnaltered DEF Sound
  <2>6. com_packet_get_cmd(packet) = IF 1 <= sent.payload_length THEN sent.payload[1] ELSE given.payload[1]
    <3>1. 1 \in 1 .. COM_PACKET_PAYLOAD_SIZE
      BY SizeFacts
    <3> QED BY <2>5, <3>1 DEF com_packet_get_cmd
  <2>7. CASE order = NULL
    <3>1. sent.payload_length = 0
      BY <2>7 DEF Sound, Plain
    <3> QED BY <2>6, <2>7, <3>1
  <2>8. CASE order # NULL
    <3>1. sent.payload_length >= 1 /\ sent.payload[1] = order /\ sent.payload_length \in Nat
      BY <2>4, <2>8 DEF Sound, Types, Made, Orders, Remains
    <3> QED BY <2>6, <2>8, <3>1
  <2> QED BY <2>7, <2>8
<1> QED BY SoundAlways, <1>1, PTL

-----------------------------------------------------------------------------
(* The search has not ended before the acknowledgement behind an oversize  *)
(* packet, or has ended with an acknowledgement.                           *)
Passing ==
  pc \in {"parsing", "done"} /\ elapsed <= cp_timeout
    /\ sent.payload_length > COM_PACKET_PAYLOAD_SIZE /\ Alone /\ AckBehind =>
  \/ pc = "parsing" /\ retval = COM_PACKET_FALSE /\ index + COM_PACKET_HEADER_SIZE <= Len(data)
  \/ retval = COM_PACKET_ACK

(* AckIsLast: an acknowledgement behind the packet is the end of the       *)
(* buffer.                                                                 *)
LEMMA AckIsLast ==
  ASSUME CrcIsWord, Types, AckBehind
  PROVE  /\ Len(data) \in Nat /\ COM_PACKET_HEADER_SIZE <= Len(data)
         /\ IsAck(Len(data) - COM_PACKET_HEADER_SIZE)
<1>1. PICK l \in Nat : l = Len(data) /\ data \in Seq(Byte)
  BY LenProperties DEF Types, TypeOK
<1>2. PICK n \in 0 .. l : SubSeq(data, n + 1, l) = Acknowledgement
  BY <1>1 DEF AckBehind
<1>3. Len(SubSeq(data, n + 1, l)) = l - n
  <2>1. n \in Nat /\ l - n \in Nat /\ n + (l - n) = l /\ n + (l - n) <= Len(data)
    BY <1>1
  <2>2. LET s == SubSeq(data, n + 1, n + (l - n))
        IN  s \in Seq(Byte) /\ Len(s) = l - n /\ \A j \in 1 .. l - n : s[j] = data[n + j]
    BY <1>1, <2>1, SliceIs
  <2> QED BY <2>1, <2>2
<1>4. l - n = 14
  BY <1>2, <1>3, AckIs
<1>5. n = l - 14 /\ n + 14 = l /\ 14 <= l
  BY <1>4
<1> QED BY <1>1, <1>2, <1>5, SizeFacts DEF IsAck

(* StepPasses: an iteration passes over the packet, or ends at an          *)
(* acknowledgement.                                                        *)
LEMMA StepPasses ==
  ASSUME CrcIsWord, IInv, Types, Passing, ParseStep
  PROVE  Passing'
<1>1. /\ pc = "parsing" /\ retval = COM_PACKET_FALSE /\ index' = index + 1 /\ index \in Nat
      /\ index + COM_PACKET_HEADER_SIZE <= Len(data)
      /\ UNCHANGED <<cp_timeout, sent, order, data, pc, timeout_counter, now, elapsed>>
  <2>1. index \in 0 .. Len(data) /\ Len(data) \in Nat
    BY LenProperties DEF Types, TypeOK
  <2> QED BY <2>1 DEF ParseStep, Searching, time
<1> SUFFICES ASSUME elapsed <= cp_timeout, sent.payload_length > COM_PACKET_PAYLOAD_SIZE, Alone, AckBehind
             PROVE  \/ retval' = COM_PACKET_FALSE /\ index' + COM_PACKET_HEADER_SIZE <= Len(data)
                    \/ retval' = COM_PACKET_ACK
  <2>1. Alone' = Alone /\ AckBehind' = AckBehind
    BY <1>1 DEF Alone, Passed, AckBehind
  <2> QED BY <1>1, <2>1 DEF Passing
<1>2. ~TimedOut
  <2>1. (now - timeout_counter) % TickMod = elapsed
    BY <1>1, TickIsElapsed DEF IInv
  <2>2. elapsed \in Nat /\ cp_timeout \in Nat
    BY TickAssumption DEF IInv
  <2> QED BY <2>1, <2>2 DEF TimedOut
<1>3. retval' = IF WellFormed(data, index) THEN Verdict(data, index, COM_PACKET_FALSE) ELSE COM_PACKET_FALSE
  BY <1>2 DEF ParseStep
<1>4. CASE IsAck(index)
  BY <1>1, <1>3, <1>4, AckAt
<1>5. CASE ~IsAck(index)
  <2>1. PICK b : AloneAt(b)
    BY AloneSomewhere
  <2>2. PICK l \in Nat : l = Len(data) /\ 14 <= l /\ IsAck(l - 14)
    BY AckIsLast, SizeFacts
  <2>3. index + 14 <= l /\ index # l - 14
    BY <1>1, <1>5, <2>2, SizeFacts
  <2>4. index + 1 + 14 <= l
    BY <1>1, <2>3
  <2>5. retval' = COM_PACKET_FALSE
    <3>1. CASE index = Len(b)
      <4>1. ~Remains(index)
        <5>1. ASSUME Remains(index) PROVE FALSE
          <6>1. sent.payload_length \in Nat /\ sent.payload_length <= COM_PACKET_PAYLOAD_SIZE
            BY <5>1 DEF Remains
          <6> QED BY <6>1, SizeFacts
        <5> QED BY <5>1
      <4>2. ~WellFormed(data, index)
        BY <1>1, <2>1, <3>1, <4>1, RemainsAt DEF AloneAt
      <4> QED BY <1>3, <4>2
    <3>2. CASE index # Len(b)
      <4>1. index \in 0 .. Len(data) - COM_PACKET_HEADER_SIZE
        BY <1>1, <2>2, <2>3, SizeFacts
      <4>2. Passed(index)
        BY <1>5, <2>1, <3>2, <4>1 DEF AloneAt
      <4> QED BY <1>3, <4>2 DEF Passed
    <3> QED BY <3>1, <3>2
  <2> QED BY <1>1, <2>2, <2>4, <2>5, SizeFacts
<1> QED BY <1>4, <1>5

(* PassingKept: every action keeps Passing. *)
LEMMA PassingKept == ASSUME CrcIsWord, IInv, Types, Passing, [Next]_vars PROVE Passing'
<1> USE DEF parse, time
<1>1. CASE pc' \notin {"parsing", "done"}
  BY <1>1 DEF Passing
<1>2. CASE Create \/ CreateCmd \/ CreateSpecial \/ Arrive \/ ParseTooEarly \/ Again
  BY <1>1, <1>2 DEF Create, CreateCmd, CreateSpecial, Make, Arrive, ParseTooEarly, Again
<1>3. CASE com_packet_init
  BY <1>1, <1>3 DEF com_packet_init
<1>4. CASE ParseBegin
  <2>1. /\ pc' = IF Len(data) < COM_PACKET_HEADER_SIZE THEN "done" ELSE "parsing"
        /\ index' = 0 /\ retval' = COM_PACKET_FALSE /\ data' = data
    BY <1>4 DEF ParseBegin
  <2>2. AckBehind' = AckBehind
    BY <2>1 DEF AckBehind
  <2>3. AckBehind => pc' = "parsing" /\ index' + COM_PACKET_HEADER_SIZE <= Len(data')
    BY <2>1, AckIsLast, SizeFacts
  <2> QED BY <2>1, <2>2, <2>3 DEF Passing
<1>5. CASE ParseStep
  BY <1>5, StepPasses
<1>6. CASE ParseReturn \/ Tick \/ UNCHANGED vars
  <2>1. /\ UNCHANGED <<cp_timeout, sent, order, data, index, retval>>
        /\ elapsed' \in {elapsed, elapsed + 1}
        /\ pc' = pc \/ (pc = "parsing" /\ ~Searching)
    BY <1>6 DEF ParseReturn, Tick, vars
  <2>2. Alone' = Alone /\ AckBehind' = AckBehind
    BY <2>1 DEF Alone, Passed, AckBehind
  <2>3. elapsed' <= cp_timeout => elapsed <= cp_timeout
    <3>1. elapsed \in Nat /\ cp_timeout \in Nat
      BY TickAssumption DEF IInv
    <3> QED BY <2>1, <3>1
  <2> QED BY <2>1, <2>2, <2>3 DEF Passing, Searching
<1> QED BY <1>2, <1>3, <1>4, <1>5, <1>6 DEF Next

(* OversizePacketsArePassedOver: OversizeIsPassedOver for any payload size,*)
(* payloads, noise and check sum of four bytes.                            *)
THEOREM OversizePacketsArePassedOver ==
  ASSUME CrcIsWord
  PROVE  Spec => []OversizeIsPassedOver
<1>1. Init => Passing
  BY DEF Init, Passing
<1>2. Sound /\ Passing /\ [Next]_vars => Passing'
  BY PassingKept DEF Sound
<1>3. Sound /\ Passing => OversizeIsPassedOver
  <2> SUFFICES ASSUME Sound, Passing, pc = "done", sent.payload_length > COM_PACKET_PAYLOAD_SIZE, Alone
               PROVE  /\ retval \notin Carrying /\ packet = given
                      /\ elapsed <= cp_timeout /\ AckBehind => retval = COM_PACKET_ACK
    BY DEF OversizeIsPassedOver
  <2>1. retval \notin Carrying
    <3>1. ASSUME retval \in Carrying PROVE FALSE
      <4>1. PICK at : TakenFrom(at)
        BY <3>1 DEF Sound, Taken
      <4>2. PICK b : AloneAt(b)
        BY AloneSomewhere
      <4>3. Remains(at)
        BY <3>1, <4>1, <4>2, OnlyRemains DEF Sound
      <4>4. sent.payload_length \in Nat /\ sent.payload_length <= COM_PACKET_PAYLOAD_SIZE
        BY <4>3 DEF Remains
      <4> QED BY <4>4, SizeFacts
    <3> QED BY <3>1
  <2>2. packet = given
    BY <2>1 DEF Sound, IInv, Untaken
  <2>3. elapsed <= cp_timeout /\ AckBehind => retval = COM_PACKET_ACK
    BY DEF Passing
  <2> QED BY <2>1, <2>2, <2>3
<1> QED BY SoundAlways, <1>1, <1>2, <1>3, PTL DEF Spec

=============================================================================
