------------------------------ MODULE ByteQueue ------------------------------
(* What a buffer of bytes promises: a queue. Bytes are put behind it or in   *)
(* front of it, taken from the front, and taken back from the end.           *)
EXTENDS Integers, Sequences

CONSTANTS
    Bytes,      \* the values of a byte
    MaxLen      \* bound on the bytes one operation puts

VARIABLE queue

Blocks == UNION {[1 .. n -> Bytes] : n \in 0 .. MaxLen}

Init == queue = <<>>

PutBehind(data) == queue' = queue \o data

PutInFront(data) == queue' = data \o queue

(* Taking more than there is takes everything.                               *)
Take(n) == queue' = IF n >= Len(queue) THEN <<>> ELSE SubSeq(queue, n + 1, Len(queue))

TakeBack(n) == /\ n <= Len(queue)
               /\ queue' = SubSeq(queue, 1, Len(queue) - n)

Next == \/ \E data \in Blocks : PutBehind(data) \/ PutInFront(data)
        \/ \E n \in 0 .. Len(queue) + 1 : Take(n)
        \/ \E n \in 0 .. MaxLen : TakeBack(n)

Spec == Init /\ [][Next]_queue
==============================================================================
