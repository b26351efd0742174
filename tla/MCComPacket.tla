---------------------------- MODULE MCComPacket ----------------------------
(* Payloads of at most eight bytes, around each boundary of the padding;   *)
(* version bytes in the payload; a broken packet before the packet, an ACK *)
(* behind it.                                                              *)
EXTENDS ComPacket, SequencesExt

(* A checksum that tells the payloads that occur here apart. *)
MCCrc(bytes) ==
  LET h == FoldLeft(LAMBDA a, b : (31 * a + b) % 65521, Len(bytes), bytes)
  IN  <<h % 256, h \div 256, 171, 205>>

Twos(k) == [i \in 1 .. k |-> 2]
Count(k) == [i \in 1 .. k |-> 10 + i]

MCPayloads == {Twos(4)} \cup {Count(k) : k \in {0, 3, 7, 9}}

CMD_SET_CAL == 14
CMD_GET_POS == 12
CMD_CDR_EN == 10
MCCommands == {CMD_SET_CAL, CMD_GET_POS, CMD_CDR_EN}
MCSetCommands == {CMD_SET_CAL}
MCParaCommands == {CMD_GET_POS}

(* A command that the receiver may not clear before the next parse. *)
MCReused == {com_packet_create_cmd(CMD_SET_CAL, Count(3))}

(* Noise: version bytes, or a packet whose crc is wrong. *)
Old == Frame(com_packet_create(Count(3)))
MCBefore == {<<2, 7>>, [Old EXCEPT ![15] = 99]}
MCAfter == {<< >>, Frame(com_packet_create_special(COM_PACKET_ACK, NULL))}
MCBeyond == [i \in 1 .. 8 |-> 2]

ASSUME InstanceTells == CrcTells
=============================================================================
