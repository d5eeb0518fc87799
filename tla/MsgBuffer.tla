------------------------------ MODULE MsgBuffer ------------------------------
(* The buffer a connection reads into (network/base/MsgBuffer): a vector     *)
(* with the readable bytes between head_ and tail_, a few bytes kept free in *)
(* front, and three ways to make room. The operations are operators from a   *)
(* buffer to a buffer; the actions apply them to the one buffer of the       *)
(* specification, in any order its assertions allow.                         *)
EXTENDS Integers, Sequences

CONSTANTS
    Offset,         \* kBufferOffset, 8
    Length,         \* the length a buffer is made with, 2048
    ExtSize,        \* sizeof(extBuffer) in ReadFd, 8192
    Bytes,          \* the values of a byte; a number is written in base Base
    Base,
    MaxLen,         \* bound on the bytes one operation puts
    MaxReadable     \* bound on the bytes in the buffer

ASSUME BytesAssumption ==
    /\ Base \in Nat \ {0, 1}
    /\ Bytes = 0 .. Base - 1

ASSUME LengthsAssumption ==
    /\ Offset \in Nat
    /\ Length \in Nat
    /\ ExtSize \in Nat
    /\ MaxLen \in Nat
    /\ MaxReadable \in Nat

(* With a shorter length RetrieveAll would cut off the bytes kept in front.  *)
ASSUME LengthAssumption == Offset <= Length

VARIABLE buf    \* head_, tail_, initCap_, the size of buffer_ and its bytes

Blocks == UNION {[1 .. n -> Bytes] : n \in 0 .. MaxLen}

------------------------------------------------------------------------------
ReadableBytes(b) == b.tail - b.head

WritableBytes(b) == b.size - b.tail

(* The bytes from Peek() on.                                                 *)
Content(b) == [i \in 1 .. ReadableBytes(b) |-> b.mem[b.head + i - 1]]

(* A vector of char is filled with zeros.                                    *)
Zeros(n) == [a \in 0 .. n - 1 |-> 0]

New(len) == [head |-> Offset, tail |-> Offset, cap |-> len, size |-> len + Offset,
             mem |-> Zeros(len + Offset)]

(* memcpy of data to the address at.                                         *)
Copy(mem, data, at) ==
    [a \in DOMAIN mem |-> IF a \in at .. at + Len(data) - 1 THEN data[a - at + 1] ELSE mem[a]]

(* memcpy to the end, where there is room.                                   *)
Filled(b, data) == [b EXCEPT !.mem = Copy(b.mem, data, b.tail), !.tail = b.tail + Len(data)]

(* The readable bytes move to the front; std::copy of char is a memmove.     *)
Compact(b) == [b EXCEPT !.mem = Copy(b.mem, Content(b), Offset),
                        !.head = Offset, !.tail = Offset + ReadableBytes(b)]

NewLength(b, len) ==
    IF 2 * b.size > Offset + ReadableBytes(b) + len THEN 2 * b.size
    ELSE Offset + ReadableBytes(b) + len

(* A change of the code: Swap leaves initCap_ where it is.                   *)
GrowKeepingCapacity(b, len) ==
    [Filled(New(NewLength(b, len)), Content(b)) EXCEPT !.cap = b.cap]

(* A new buffer takes the bytes and is swapped with the old one: its initCap_*)
(* comes with it. The new one has room, so the nested Append does not grow.  *)
Grow(b, len) == Filled(New(NewLength(b, len)), Content(b))

(* A change of the code: the bytes kept in front are counted as room.        *)
EnsureWritableBytesInFront(b, len) ==
    IF WritableBytes(b) >= len THEN b
    ELSE IF b.head + WritableBytes(b) >= len THEN Compact(b)
    ELSE Grow(b, len)

EnsureWritableBytes(b, len) ==
    IF WritableBytes(b) >= len THEN b
    ELSE IF b.head + WritableBytes(b) >= len + Offset THEN Compact(b)
    ELSE Grow(b, len)

AppendTo(b, data) == Filled(EnsureWritableBytes(b, Len(data)), data)

RetrieveAll(b) ==
    LET shrunk == IF b.size > 2 * b.cap
                  THEN [b EXCEPT !.size = b.cap,
                                 !.mem = [a \in 0 .. b.cap - 1 |-> b.mem[a]]]
                  ELSE b
    IN  [shrunk EXCEPT !.head = Offset, !.tail = Offset]

Retrieve(b, len) == IF len >= ReadableBytes(b) THEN RetrieveAll(b)
                    ELSE [b EXCEPT !.head = b.head + len]

Max2(m, n) == IF m < n THEN n ELSE m

(* A change of the code: the room in front is taken to be there.             *)
AddInFrontOver(b, data) ==
    IF Len(data) <= WritableBytes(b)
    THEN [b EXCEPT !.mem = Copy(b.mem, data, b.head), !.tail = b.tail + Len(data)]
    ELSE AppendTo(Filled(New(Max2(b.cap, Len(data) + ReadableBytes(b))), data), Content(b))

(* In front there is room, or behind, or in a new buffer.                    *)
AddInFront(b, data) ==
    IF b.head >= Len(data)
    THEN [b EXCEPT !.mem = Copy(b.mem, data, b.head - Len(data)), !.head = b.head - Len(data)]
    ELSE IF Len(data) <= WritableBytes(b)
    THEN [b EXCEPT !.mem = Copy(Copy(b.mem, Content(b), b.head + Len(data)), data, b.head),
                   !.tail = b.tail + Len(data)]
    ELSE AppendTo(Filled(New(Max2(b.cap, Len(data) + ReadableBytes(b))), data), Content(b))

(* readv fills the rest of the buffer first and then extBuffer, which is     *)
(* given to it only when the rest is shorter.                                *)
MostRead(b) == IF WritableBytes(b) < ExtSize THEN WritableBytes(b) + ExtSize ELSE WritableBytes(b)

ReadFd(b, data) ==
    LET writable == WritableBytes(b)
    IN  IF Len(data) <= writable THEN Filled(b, data)
        ELSE AppendTo(Filled(b, SubSeq(data, 1, writable)), SubSeq(data, writable + 1, Len(data)))

(* The numbers of w bytes, for the widths that show the order.               *)
Power(w) == IF w = 0 THEN 1 ELSE IF w = 1 THEN Base ELSE Base * Base

(* A change of the code: numbers stay in the order of the host.              *)
HostOrder(w, n) == [i \in 1 .. w |-> (n \div Power(i - 1)) % Base]

(* A number of w bytes in the order of the network: hton16, 32 and 64.       *)
NetworkOrder(w, n) == [i \in 1 .. w |-> (n \div Power(w - i)) % Base]

AppendInt(b, w, n) == AppendTo(b, NetworkOrder(w, n))

AddInFrontInt(b, w, n) == AddInFront(b, NetworkOrder(w, n))

(* The widths of the code are 1, 2, 4 and 8; two show the order.             *)
Widths == {1, 2}

PeekInt(b, w) == IF w = 1 THEN Content(b)[1] ELSE Base * Content(b)[1] + Content(b)[2]

ReadInt(b, w) == Retrieve(b, w)

------------------------------------------------------------------------------
Init == buf = New(Length)

Room(n) == ReadableBytes(buf) + n <= MaxReadable

DoAppend == \E data \in Blocks : /\ Room(Len(data))
                                 /\ buf' = AppendTo(buf, data)

DoAddInFront == \E data \in Blocks : /\ Room(Len(data))
                                     /\ buf' = AddInFront(buf, data)

(* The bytes come from a socket.                                             *)
DoReadFd == \E data \in Blocks : /\ Len(data) <= MostRead(buf)
                                 /\ Room(Len(data))
                                 /\ buf' = ReadFd(buf, data)

(* A caller asks for room, writes behind BeginWrite() and says how much.     *)
DoWrite == \E data \in Blocks :
    /\ Room(MaxLen)
    /\ buf' = Filled(EnsureWritableBytes(buf, MaxLen), data)

(* Read, ReadInt and RetrieveUntil are this too.                             *)
DoRetrieve == \E len \in 0 .. ReadableBytes(buf) + 1 : buf' = Retrieve(buf, len)

Unwrite(b, n) == [b EXCEPT !.tail = b.tail - n]

DoUnwrite == \E n \in 0 .. MaxLen : /\ n <= ReadableBytes(buf)
                                    /\ buf' = Unwrite(buf, n)

Next == DoAppend \/ DoAddInFront \/ DoReadFd \/ DoWrite \/ DoRetrieve \/ DoUnwrite

Spec == Init /\ [][Next]_buf

------------------------------------------------------------------------------
(* The indices stay in the vector and in order.                              *)
TypeOK ==
    /\ buf.head \in Nat /\ buf.tail \in Nat /\ buf.cap \in Nat /\ buf.size \in Nat
    /\ buf.head <= buf.tail
    /\ buf.tail <= buf.size
    /\ buf.mem \in [0 .. buf.size - 1 -> Bytes]

(* The vector is as long as its initial capacity and the bytes in front,     *)
(* whatever was put and taken: a buffer that grew takes over the capacity it *)
(* grew to, so RetrieveAll never finds it too large and never cuts it, not   *)
(* even at the bytes in front (MsgBuffer.cpp:65 and :146).                   *)
SizeFollowsCapacity == /\ buf.size = buf.cap + Offset
                       /\ Offset <= buf.cap

(* The buffer is a queue of bytes: no way of making room, reading or growing *)
(* loses, repeats or reorders one.                                           *)
Queue == INSTANCE ByteQueue WITH queue <- Content(buf)
QueueSpec == Queue!Spec

(* A number put in front in the order of the network is the number that is   *)
(* read, and the bytes behind it are as before (MsgBuffer.cpp:97, :179).     *)
NumbersReadBack ==
    \A w \in Widths : \A n \in 0 .. Power(w) - 1 :
        LET front == AddInFrontInt(buf, w, n)
            behind == AppendInt(buf, w, n)
        IN  /\ PeekInt(front, w) = n
            /\ Content(ReadInt(front, w)) = Content(buf)
            /\ PeekInt(Retrieve(behind, ReadableBytes(buf)), w) = n
==============================================================================
