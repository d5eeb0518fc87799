-------------------------------- MODULE Bytes --------------------------------
(* Numbers as the bytes of a message, the most significant first:            *)
(* BytesWriter and BytesReader. A writer takes the low bytes of its number.  *)
EXTENDS Integers, Sequences

Byte == 0 .. 255

(* The powers of 256, each from the one before.                              *)
Two == 256 * 256
Three == 256 * Two
Four == 256 * Three

WriteUint8T(val) == <<val % 256>>
WriteUint16T(val) == <<(val \div 256) % 256, val % 256>>
WriteUint24T(val) == <<(val \div Two) % 256, (val \div 256) % 256, val % 256>>
WriteUint32T(val) ==
  <<(val \div Three) % 256, (val \div Two) % 256, (val \div 256) % 256, val % 256>>

ReadUint8T(data) == data[1]
ReadUint16T(data) == data[1] * 256 + data[2]
ReadUint24T(data) == data[1] * Two + data[2] * 256 + data[3]
ReadUint32T(data) == data[1] * Three + data[2] * Two + data[3] * 256 + data[4]
=============================================================================
