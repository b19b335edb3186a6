------------------------------- MODULE Codec -------------------------------
(***************************************************************************)
(* The fields of the ISO-TP frames (isotp.c, isotp_private.h) for classic   *)
(* CAN and for CAN FD, and the lengths a CAN FD frame can have (length.c).  *)
(* A frame is what is read back from it: its length on the wire and the     *)
(* bytes in front of the payload, a function of their offsets.  The type of *)
(* the frame is the upper half of byte 0.                                   *)
(***************************************************************************)
EXTENDS Integers

Byte == 0..255

SF == 0    \* 0x00
FF == 16   \* 0x10
CF == 32   \* 0x20
FC == 48   \* 0x30

CAN_MAX_DLEN == 8
FD_SF_DATA_OFFSET == 2
FD_FF_DATA_OFFSET == 6

(* Mask 0xF0 and mask 0x0F of a byte.                                      *)
Type(data) == data[0] - (data[0] % 16)
Low(byte)  == byte % 16
-----------------------------------------------------------------------------
(* Classic CAN.                                                            *)

isotp_fill_sf(remaining_data) == [i \in {0} |-> SF + Low(remaining_data)]

isotp_fill_ff(remaining_data) ==
  [i \in 0..1 |-> IF i = 0 THEN FF + Low((remaining_data \div 256) % 256)
                  ELSE remaining_data % 256]

isotp_fill_cf(cf_sn) == [i \in {0} |-> CF + Low(cf_sn)]

isotp_fill_fc(fs, bs, st) ==
  [i \in 0..2 |-> CASE i = 0 -> FC + Low(fs) [] i = 1 -> bs [] i = 2 -> st]

isotp_get_sf_dl(data) == Low(data[0])
isotp_get_ff_dl(data) == Low(data[0]) * 256 + data[1]
-----------------------------------------------------------------------------
(* CAN FD.                                                                 *)

(* The table padding_length, row by row, and 64 beyond it.                 *)
get_padding_length(length) ==
  CASE length \in 0..8   -> 8
    [] length \in 9..12  -> 12
    [] length \in 13..16 -> 16
    [] length \in 17..20 -> 20
    [] length \in 21..24 -> 24
    [] length \in 25..32 -> 32
    [] length \in 33..48 -> 48
    [] length > 48       -> 64

fd_fill_sf(remaining_data) ==
  [i \in 0..1 |-> IF i = 0 THEN SF ELSE remaining_data % 256]

fd_fill_ff(remaining_data) ==
  [i \in 0..5 |-> CASE i = 0 -> FF
                    [] i = 1 -> 0
                    [] i = 2 -> (remaining_data \div 2^24) % 256
                    [] i = 3 -> (remaining_data \div 2^16) % 256
                    [] i = 4 -> (remaining_data \div 2^8) % 256
                    [] i = 5 -> remaining_data % 256]

(* A frame of the other layout is still understood.                        *)
fd_get_sf_dl(data) == IF Low(data[0]) = 0 THEN data[1] ELSE isotp_get_sf_dl(data)

(* Each byte is assigned over the one before it.                           *)
fd_get_ff_dl(data) == IF data[1] = 0 THEN data[5] ELSE isotp_get_ff_dl(data)

(* Payload bytes of a single frame that are in the frame on the wire.       *)
FdSingleFrameRoom(remaining_data) ==
  get_padding_length(remaining_data) - FD_SF_DATA_OFFSET

(* Bytes a first and a consecutive frame take from remaining_data.         *)
FdFirstFrameTaken(remaining_data) ==
  get_padding_length(remaining_data) - FD_FF_DATA_OFFSET

FdConsecutiveFrameTaken(remaining_data) ==
  LET room == get_padding_length(remaining_data) - 1
  IN IF remaining_data < room THEN remaining_data ELSE room
-----------------------------------------------------------------------------
(* The length code of CAN FD.                                              *)

dlc_to_length(dlc) ==
  CASE dlc \in 0..8 -> dlc
    [] dlc = 9  -> 12
    [] dlc = 10 -> 16
    [] dlc = 11 -> 20
    [] dlc = 12 -> 24
    [] dlc = 13 -> 32
    [] dlc = 14 -> 48
    [] dlc = 15 -> 64

can_fd_dlc2len(dlc) == dlc_to_length(Low(dlc))

(* The table length_to_dlc, row by row, and CANFD_MAX_DLC beyond it.       *)
can_fd_len2dlc(length) ==
  CASE length \in 0..8   -> length
    [] length \in 9..12  -> 9
    [] length \in 13..16 -> 10
    [] length \in 17..20 -> 11
    [] length \in 21..24 -> 12
    [] length \in 25..32 -> 13
    [] length \in 33..48 -> 14
    [] length \in 49..64 -> 15
    [] length > 64       -> 15
=============================================================================
