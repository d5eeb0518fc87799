--------------------------- MODULE MsgBufferProofs ----------------------------
(* The buffer keeps its indices in order and is a queue of bytes, for every  *)
(* offset, length and size of a read. The lemmas come in two layers: what    *)
(* memcpy does to the bytes between two addresses, and what an operation     *)
(* does to a buffer that is valid.                                           *)
EXTENDS MsgBuffer, SequenceTheorems, TLAPS

IsMemory(mem, n) == mem \in [0 .. n - 1 -> Bytes]

Memories == UNION {[0 .. n - 1 -> Bytes] : n \in Nat}

(* The bytes of a memory from h up to t.                                     *)
Window(mem, h, t) == [i \in 1 .. t - h |-> mem[h + i - 1]]

LEMMA MemoryOfSize ==
  ASSUME NEW n \in Nat, NEW mem, IsMemory(mem, n)
  PROVE  mem \in Memories
<1>1. [0 .. n - 1 -> Bytes] \in {[0 .. k - 1 -> Bytes] : k \in Nat}
  OBVIOUS
<1>. QED
  BY <1>1 DEF Memories, IsMemory

------------------------------------------------------------------------------
(* A window is a sequence of bytes.                                          *)
LEMMA WindowIsSequence ==
  ASSUME NEW n \in Nat, NEW mem, IsMemory(mem, n),
         NEW h \in Nat, NEW t \in Nat, h <= t, t <= n
  PROVE  Window(mem, h, t) \in Seq(Bytes)
<1>1. \A i \in 1 .. t - h : mem[h + i - 1] \in Bytes
  <2>. SUFFICES ASSUME NEW i \in 1 .. t - h
                PROVE  mem[h + i - 1] \in Bytes
    OBVIOUS
  <2>1. h + i - 1 \in 0 .. n - 1
    OBVIOUS
  <2>. QED
    BY <2>1 DEF IsMemory
<1>2. t - h \in Nat
  OBVIOUS
<1>. QED
  BY <1>1, <1>2 DEF Window

LEMMA WindowLength ==
  ASSUME NEW mem, NEW h \in Nat, NEW t \in Nat, h <= t
  PROVE  Len(Window(mem, h, t)) = t - h
<1>1. t - h \in Nat
  OBVIOUS
<1>. QED
  BY <1>1 DEF Window

(* memcpy keeps the size of the memory.                                      *)
LEMMA CopyIsMemory ==
  ASSUME NEW n \in Nat, NEW mem, IsMemory(mem, n),
         NEW data \in Seq(Bytes), NEW at \in Nat
  PROVE  IsMemory(Copy(mem, data, at), n)
<1>1. \A a \in at .. at + Len(data) - 1 : data[a - at + 1] \in Bytes
  <2>. SUFFICES ASSUME NEW a \in at .. at + Len(data) - 1
                PROVE  data[a - at + 1] \in Bytes
    OBVIOUS
  <2>1. a - at + 1 \in 1 .. Len(data)
    OBVIOUS
  <2>. QED
    BY <2>1
<1>2. \A a \in 0 .. n - 1 : mem[a] \in Bytes
  BY DEF IsMemory
<1>3. Copy(mem, data, at)
        = [a \in 0 .. n - 1 |-> IF a \in at .. at + Len(data) - 1 THEN data[a - at + 1] ELSE mem[a]]
  BY DEF Copy, IsMemory
<1>. QED
  BY <1>1, <1>2, <1>3 DEF IsMemory

(* memcpy writes the data and nothing else.                                  *)
LEMMA CopyAt ==
  ASSUME NEW n \in Nat, NEW mem, IsMemory(mem, n),
         NEW data \in Seq(Bytes), NEW at \in Nat, at + Len(data) <= n
  PROVE  /\ \A k \in 1 .. Len(data) : Copy(mem, data, at)[at + k - 1] = data[k]
         /\ \A a \in 0 .. n - 1 : a < at \/ a >= at + Len(data) => Copy(mem, data, at)[a] = mem[a]
<1>1. Len(data) \in Nat
  OBVIOUS
<1>2. DOMAIN mem = 0 .. n - 1
  BY DEF IsMemory
<1>3. ASSUME NEW k \in 1 .. Len(data)
      PROVE  Copy(mem, data, at)[at + k - 1] = data[k]
  <2>1. /\ at + k - 1 \in 0 .. n - 1
        /\ at + k - 1 \in at .. at + Len(data) - 1
        /\ (at + k - 1) - at + 1 = k
    BY <1>1
  <2>. QED
    BY <1>2, <2>1 DEF Copy
<1>4. ASSUME NEW a \in 0 .. n - 1, a < at \/ a >= at + Len(data)
      PROVE  Copy(mem, data, at)[a] = mem[a]
  <2>1. a \notin at .. at + Len(data) - 1
    BY <1>1, <1>4
  <2>. QED
    BY <1>2, <2>1 DEF Copy
<1>. QED
  BY <1>3, <1>4

(* What was written at an address is the window there.                       *)
LEMMA WindowOfCopy ==
  ASSUME NEW n \in Nat, NEW mem, IsMemory(mem, n),
         NEW data \in Seq(Bytes), NEW at \in Nat, at + Len(data) <= n
  PROVE  Window(Copy(mem, data, at), at, at + Len(data)) = data
<1>. DEFINE w == Window(Copy(mem, data, at), at, at + Len(data))
<1>1. Len(data) \in Nat /\ at + Len(data) \in Nat /\ (at + Len(data)) - at = Len(data)
  OBVIOUS
<1>2a. IsMemory(Copy(mem, data, at), n)
  BY CopyIsMemory
<1>2. w \in Seq(Bytes) /\ Len(w) = Len(data)
  <2>1. at <= at + Len(data)
    BY <1>1
  <2>2. w \in Seq(Bytes)
    BY <1>1, <1>2a, <2>1, WindowIsSequence
  <2>3. Len(w) = Len(data)
    BY <1>1, <2>1, WindowLength
  <2>. QED
    BY <2>2, <2>3
<1>2b. \A i \in 1 .. Len(data) : w[i] = Copy(mem, data, at)[at + i - 1]
  BY <1>1 DEF Window
<1>3. \A i \in 1 .. Len(data) : w[i] = data[i]
  BY <1>2b, CopyAt
<1>. QED
  BY <1>2, <1>3, SeqEqual

(* Writing elsewhere leaves a window alone.                                  *)
LEMMA WindowElsewhere ==
  ASSUME NEW n \in Nat, NEW mem, IsMemory(mem, n),
         NEW data \in Seq(Bytes), NEW at \in Nat, at + Len(data) <= n,
         NEW h \in Nat, NEW t \in Nat, h <= t, t <= n,
         t <= at \/ at + Len(data) <= h
  PROVE  Window(Copy(mem, data, at), h, t) = Window(mem, h, t)
<1>1. Len(data) \in Nat
  OBVIOUS
<1>2. ASSUME NEW i \in 1 .. t - h
      PROVE  Copy(mem, data, at)[h + i - 1] = mem[h + i - 1]
  <2>1. h + i - 1 \in 0 .. n - 1
    OBVIOUS
  <2>2. h + i - 1 < at \/ h + i - 1 >= at + Len(data)
    BY <1>1
  <2>. QED
    BY <2>1, <2>2, CopyAt
<1>. QED
  BY <1>2 DEF Window

(* Two windows side by side make one.                                        *)
LEMMA WindowsJoin ==
  ASSUME NEW n \in Nat, NEW mem, IsMemory(mem, n),
         NEW h \in Nat, NEW k \in Nat, NEW t \in Nat, h <= k, k <= t, t <= n
  PROVE  Window(mem, h, t) = Window(mem, h, k) \o Window(mem, k, t)
<1>. DEFINE w == Window(mem, h, t)
            u == Window(mem, h, k)
            v == Window(mem, k, t)
<1>0. h <= t /\ k <= n
  OBVIOUS
<1>1. w \in Seq(Bytes) /\ Len(w) = t - h
  <2>1. w \in Seq(Bytes)
    BY <1>0, WindowIsSequence
  <2>2. Len(w) = t - h
    BY <1>0, WindowLength
  <2>. QED
    BY <2>1, <2>2
<1>1e. \A i \in 1 .. t - h : w[i] = mem[h + i - 1]
  BY DEF Window
<1>2. u \in Seq(Bytes) /\ Len(u) = k - h
  <2>1. u \in Seq(Bytes)
    BY <1>0, WindowIsSequence
  <2>2. Len(u) = k - h
    BY <1>0, WindowLength
  <2>. QED
    BY <2>1, <2>2
<1>2e. \A i \in 1 .. k - h : u[i] = mem[h + i - 1]
  BY DEF Window
<1>3. v \in Seq(Bytes) /\ Len(v) = t - k
  <2>1. v \in Seq(Bytes)
    BY <1>0, WindowIsSequence
  <2>2. Len(v) = t - k
    BY <1>0, WindowLength
  <2>. QED
    BY <2>1, <2>2
<1>3e. \A i \in 1 .. t - k : v[i] = mem[k + i - 1]
  BY DEF Window
<1>. HIDE DEF w, u, v
<1>4. u \o v \in Seq(Bytes) /\ Len(u \o v) = t - h
  BY <1>2, <1>3
<1>5. ASSUME NEW i \in 1 .. t - h
      PROVE  w[i] = (u \o v)[i]
  <2>1. CASE i <= k - h
    <3>1. (u \o v)[i] = u[i]
      BY <1>2, <1>3, <2>1
    <3>. QED
      BY <1>1e, <1>2e, <2>1, <3>1
  <2>2. CASE i > k - h
    <3>0. i \in 1 .. Len(u) + Len(v) /\ ~(i <= Len(u)) /\ Len(u) = k - h
      BY <1>2, <1>3, <2>2
    <3>1a. (u \o v)[i] = v[i - Len(u)]
      BY <1>2, <1>3, <3>0
    <3>1. (u \o v)[i] = v[i - (k - h)]
      BY <3>0, <3>1a
    <3>2. i - (k - h) \in 1 .. t - k /\ k + (i - (k - h)) - 1 = h + i - 1
      BY <2>2
    <3>. QED
      BY <1>1e, <1>3e, <3>1, <3>2
  <2>3. i <= k - h \/ i > k - h
    OBVIOUS
  <2>. QED
    BY <2>1, <2>2, <2>3
<1>. QED
  BY <1>1, <1>4, <1>5, SeqEqual DEF w, u, v

WithoutFirst(q, k) == SubSeq(q, k + 1, Len(q))
WithoutLast(q, k) == SubSeq(q, 1, Len(q) - k)

(* A window without its first or its last bytes.                             *)
LEMMA WindowDropped ==
  ASSUME NEW n \in Nat, NEW mem, IsMemory(mem, n),
         NEW h \in Nat, NEW t \in Nat, h <= t, t <= n, NEW k \in Nat, k <= t - h
  PROVE  /\ Window(mem, h + k, t) = WithoutFirst(Window(mem, h, t), k)
         /\ Window(mem, h, t - k) = WithoutLast(Window(mem, h, t), k)
<1>. DEFINE w == Window(mem, h, t)
            u == Window(mem, h + k, t)
            v == Window(mem, h, t - k)
<1>1. w \in Seq(Bytes) /\ Len(w) = t - h
  <2>1. w \in Seq(Bytes)
    BY WindowIsSequence
  <2>2. Len(w) = t - h
    BY WindowLength
  <2>. QED
    BY <2>1, <2>2
<1>1e. \A i \in 1 .. t - h : w[i] = mem[h + i - 1]
  BY DEF Window
<1>2. u \in Seq(Bytes) /\ Len(u) = t - (h + k)
  <2>1. h + k \in Nat /\ h + k <= t
    OBVIOUS
  <2>2. u \in Seq(Bytes)
    BY <2>1, WindowIsSequence
  <2>3. Len(u) = t - (h + k)
    BY <2>1, WindowLength
  <2>. QED
    BY <2>2, <2>3
<1>2e. \A i \in 1 .. t - (h + k) : u[i] = mem[(h + k) + i - 1]
  BY DEF Window
<1>3e. \A i \in 1 .. (t - k) - h : v[i] = mem[h + i - 1]
  BY DEF Window
<1>3. v \in Seq(Bytes) /\ Len(v) = (t - k) - h
  <2>1. t - k \in Nat /\ h <= t - k /\ t - k <= n
    OBVIOUS
  <2>2. v \in Seq(Bytes)
    BY <2>1, WindowIsSequence
  <2>3. Len(v) = (t - k) - h
    BY <2>1, WindowLength
  <2>. QED
    BY <2>2, <2>3
<1>. HIDE DEF w, u, v
<1>4. u = SubSeq(w, k + 1, t - h)
  <2>. DEFINE x == SubSeq(w, k + 1, t - h)
  <2>1. x \in Seq(Bytes) /\ Len(x) = t - (h + k)
    BY <1>1
  <2>2. ASSUME NEW i \in 1 .. t - (h + k)
        PROVE  u[i] = x[i]
    <3>1. x[i] = w[k + 1 + i - 1]
      BY <1>1
    <3>2. k + 1 + i - 1 \in 1 .. t - h /\ h + (k + 1 + i - 1) - 1 = (h + k) + i - 1
      OBVIOUS
    <3>. QED
      BY <1>1e, <1>2e, <3>1, <3>2
  <2>. QED
    BY <1>2, <2>1, <2>2, SeqEqual
<1>5. v = SubSeq(w, 1, t - h - k)
  <2>. DEFINE x == SubSeq(w, 1, t - h - k)
  <2>1. x \in Seq(Bytes) /\ Len(x) = (t - k) - h
    BY <1>1
  <2>2. ASSUME NEW i \in 1 .. (t - k) - h
        PROVE  v[i] = x[i]
    <3>1. x[i] = w[i] /\ i \in 1 .. t - h
      BY <1>1
    <3>. QED
      BY <1>1e, <1>3e, <3>1
  <2>. QED
    BY <1>3, <2>1, <2>2, SeqEqual
<1>6. u = WithoutFirst(w, k)
  BY <1>1, <1>4 DEF WithoutFirst
<1>7. v = WithoutLast(w, k)
  BY <1>1, <1>5 DEF WithoutLast
<1>. QED
  BY <1>6, <1>7 DEF w, u, v

LEMMA WindowWithoutFirst ==
  ASSUME NEW n \in Nat, NEW mem, IsMemory(mem, n),
         NEW h \in Nat, NEW t \in Nat, h <= t, t <= n, NEW k \in Nat, k <= t - h,
         NEW g, g = h + k
  PROVE  Window(mem, g, t) = WithoutFirst(Window(mem, h, t), k)
<1>1. Window(mem, h + k, t) = WithoutFirst(Window(mem, h, t), k)
  BY WindowDropped
<1>. QED
  BY <1>1

LEMMA WindowWithoutLast ==
  ASSUME NEW n \in Nat, NEW mem, IsMemory(mem, n),
         NEW h \in Nat, NEW t \in Nat, h <= t, t <= n, NEW k \in Nat, k <= t - h,
         NEW u, u = t - k
  PROVE  Window(mem, h, u) = WithoutLast(Window(mem, h, t), k)
<1>1. Window(mem, h, t - k) = WithoutLast(Window(mem, h, t), k)
  BY WindowDropped
<1>. QED
  BY <1>1

------------------------------------------------------------------------------
(* TypeOK and SizeFollowsCapacity of any buffer, not only of buf.            *)
Buffers == [head : Nat, tail : Nat, cap : Nat, size : Nat, mem : Memories]

Valid(b) ==
    /\ b \in Buffers
    /\ b.head <= b.tail
    /\ b.tail <= b.size
    /\ b.size = b.cap + Offset
    /\ Offset <= b.cap
    /\ IsMemory(b.mem, b.size)

(* What an operation does to the content.                                    *)
Keeps(c, b) == Valid(c) /\ Content(c) = Content(b)
Appends(c, b, data) == Valid(c) /\ Content(c) = Content(b) \o data
Prepends(c, b, data) == Valid(c) /\ Content(c) = data \o Content(b)

LEMMA ValidFields ==
  ASSUME NEW b, Valid(b)
  PROVE  /\ b \in Buffers
         /\ b.head \in Nat /\ b.tail \in Nat /\ b.size \in Nat /\ b.cap \in Nat
         /\ b.head <= b.tail /\ b.tail <= b.size
  BY DEF Valid, Buffers

LEMMA ContentIsWindow ==
  ASSUME NEW b
  PROVE  Content(b) = Window(b.mem, b.head, b.tail)
  BY DEF Content, ReadableBytes, Window

LEMMA ContentIsSequence ==
  ASSUME NEW b, Valid(b)
  PROVE  Content(b) \in Seq(Bytes)
<1>1. IsMemory(b.mem, b.size)
  BY DEF Valid
<1>2. Window(b.mem, b.head, b.tail) \in Seq(Bytes)
  BY <1>1, ValidFields, WindowIsSequence
<1>. QED
  BY <1>2, ContentIsWindow

LEMMA ContentLength ==
  ASSUME NEW b, Valid(b)
  PROVE  Len(Content(b)) = ReadableBytes(b) /\ ReadableBytes(b) \in Nat
<1>1. Len(Window(b.mem, b.head, b.tail)) = b.tail - b.head
  BY ValidFields, WindowLength
<1>2. b.tail - b.head \in Nat
  BY ValidFields
<1>. QED
  BY <1>1, <1>2, ContentIsWindow DEF ReadableBytes

(* Changing fields of a buffer leaves a buffer.                              *)
LEMMA MovedIsBuffer ==
  ASSUME NEW b \in Buffers, NEW h \in Nat
  PROVE  [b EXCEPT !.head = h] \in Buffers /\ [b EXCEPT !.tail = h] \in Buffers
  BY DEF Buffers

LEMMA EmptiedIsBuffer ==
  ASSUME NEW b \in Buffers, NEW h \in Nat, NEW t \in Nat
  PROVE  [b EXCEPT !.head = h, !.tail = t] \in Buffers
  BY DEF Buffers

LEMMA ChangedIsBuffer ==
  ASSUME NEW b \in Buffers, NEW h \in Nat, NEW t \in Nat, NEW m \in Memories
  PROVE  /\ [b EXCEPT !.mem = m, !.tail = t] \in Buffers
         /\ [b EXCEPT !.mem = m, !.head = h] \in Buffers
         /\ [b EXCEPT !.mem = m, !.head = h, !.tail = t] \in Buffers
  BY DEF Buffers

(* A new buffer is empty and has the room it was asked for.                  *)
LEMMA NewIsEmpty ==
  ASSUME NEW len \in Nat, Offset <= len
  PROVE  /\ Valid(New(len))
         /\ Content(New(len)) = <<>>
         /\ WritableBytes(New(len)) = len
<1>. DEFINE n == len + Offset
            mem == Zeros(n)
<1>1. IsMemory(mem, n)
  <2>1. 0 \in Bytes
    BY BytesAssumption
  <2>. QED
    BY <2>1 DEF IsMemory, Zeros
<1>2. n \in Nat
  BY LengthsAssumption
<1>3. mem \in Memories
  <2>. HIDE DEF n, mem
  <2>. QED
    BY <1>1, <1>2, MemoryOfSize
<1>4. New(len) \in Buffers
  BY <1>2, <1>3, LengthsAssumption DEF New, Buffers
<1>4a. New(len) = [head |-> Offset, tail |-> Offset, cap |-> len, size |-> n, mem |-> mem]
  BY DEF New
<1>5. /\ New(len).head = Offset /\ New(len).tail = Offset /\ New(len).cap = len
      /\ New(len).size = n /\ New(len).mem = mem
  <2>. HIDE DEF n, mem
  <2>. QED
    BY <1>4a
<1>6. Valid(New(len))
  BY <1>1, <1>2, <1>4, <1>5, LengthsAssumption DEF Valid
<1>7. WritableBytes(New(len)) = len /\ ReadableBytes(New(len)) = 0
  BY <1>5, LengthsAssumption DEF WritableBytes, ReadableBytes
<1>8. Content(New(len)) = <<>>
  BY <1>6, <1>7, ContentIsSequence, ContentLength
<1>. QED
  BY <1>6, <1>7, <1>8

(* Writing behind the readable bytes, where there is room.                   *)
LEMMA FilledAppends ==
  ASSUME NEW b, Valid(b), NEW data \in Seq(Bytes), Len(data) <= WritableBytes(b)
  PROVE  /\ Appends(Filled(b, data), b, data)
         /\ WritableBytes(Filled(b, data)) = WritableBytes(b) - Len(data)
         /\ Filled(b, data).cap = b.cap
<1>. DEFINE c == Filled(b, data)
            h == b.head
            t == b.tail
            n == b.size
            old == b.mem
            mem == Copy(old, data, t)
            u == t + Len(data)
<1>1. /\ h \in Nat /\ t \in Nat /\ n \in Nat /\ b.cap \in Nat /\ Len(data) \in Nat /\ u \in Nat
      /\ h <= t /\ t <= u /\ t <= n /\ u <= n
  BY ValidFields DEF WritableBytes
<1>2. IsMemory(old, n)
  BY DEF Valid
<1>3. b \in Buffers
  BY DEF Valid
<1>4. /\ c.head = h /\ c.tail = u /\ c.size = n /\ c.cap = b.cap /\ c.mem = mem
  BY <1>1, <1>3 DEF Filled, Buffers
<1>5. c = [b EXCEPT !.mem = mem, !.tail = u]
  BY DEF Filled
<1>6. WritableBytes(c) = WritableBytes(b) - Len(data)
  BY <1>1, <1>4 DEF WritableBytes
<1>7. n = b.cap + Offset /\ Offset <= b.cap
  BY DEF Valid
<1>8. Content(c) = Window(mem, h, u) /\ Content(b) = Window(old, h, t)
  BY <1>4, ContentIsWindow
<1>. HIDE DEF c, h, t, n, old
<1>9. IsMemory(mem, n)
  BY <1>1, <1>2, CopyIsMemory
<1>10. mem \in Memories
  BY <1>1, <1>9, MemoryOfSize
<1>11. c \in Buffers
  <2>. HIDE DEF mem, u
  <2>. QED
    BY <1>1, <1>3, <1>5, <1>10, ChangedIsBuffer
<1>12. Valid(c)
  BY <1>1, <1>4, <1>7, <1>9, <1>11 DEF Valid
<1>13. Window(mem, h, u) = Window(mem, h, t) \o Window(mem, t, u)
  <2>. HIDE DEF mem, u
  <2>. QED
    BY <1>1, <1>9, WindowsJoin
<1>14. Window(mem, t, u) = data
  BY <1>1, <1>2, WindowOfCopy
<1>15. Window(mem, h, t) = Window(old, h, t)
  <2>1. t <= t
    BY <1>1
  <2>. QED
    BY <1>1, <1>2, <2>1, WindowElsewhere
<1>16. Content(c) = Content(b) \o data
  BY <1>8, <1>13, <1>14, <1>15
<1>. QED
  BY <1>4, <1>6, <1>12, <1>16 DEF Appends, c

------------------------------------------------------------------------------
(* Moving the bytes to the front makes the room in front usable.             *)
LEMMA CompactKeeps ==
  ASSUME NEW b, Valid(b), Offset + ReadableBytes(b) <= b.size
  PROVE  /\ Keeps(Compact(b), b)
         /\ WritableBytes(Compact(b)) = b.size - Offset - ReadableBytes(b)
<1>. DEFINE c == Compact(b)
            n == b.size
            data == Content(b)
            mem == Copy(b.mem, data, Offset)
            u == Offset + Len(data)
<1>0. Len(data) = ReadableBytes(b)
  BY ContentLength
<1>1. /\ n \in Nat /\ u \in Nat /\ Offset \in Nat /\ Len(data) \in Nat
      /\ Offset <= u /\ u <= n
  BY <1>0, ContentLength, ValidFields, LengthsAssumption
<1>2. IsMemory(b.mem, n) /\ b \in Buffers /\ b.cap \in Nat /\ n = b.cap + Offset /\ Offset <= b.cap
  BY ValidFields DEF Valid
<1>3. data \in Seq(Bytes)
  BY ContentIsSequence
<1>4. c = [b EXCEPT !.mem = mem, !.head = Offset, !.tail = u]
  BY <1>0 DEF Compact
<1>5. c.head = Offset /\ c.tail = u /\ c.size = n /\ c.cap = b.cap /\ c.mem = mem
  <2>. HIDE DEF mem, u
  <2>. QED
    BY <1>1, <1>2, <1>4 DEF Buffers
<1>6. WritableBytes(c) = n - Offset - ReadableBytes(b)
  BY <1>0, <1>1, <1>5 DEF WritableBytes
<1>7. Content(c) = Window(mem, Offset, u)
  BY <1>5, ContentIsWindow
<1>. HIDE DEF n, data, c
<1>8. IsMemory(mem, n)
  BY <1>1, <1>2, <1>3, CopyIsMemory
<1>9. mem \in Memories
  BY <1>1, <1>8, MemoryOfSize
<1>10. c \in Buffers
  <2>. HIDE DEF mem, u
  <2>. QED
    BY <1>1, <1>2, <1>4, <1>9, ChangedIsBuffer
<1>11. Valid(c)
  BY <1>1, <1>2, <1>5, <1>8, <1>10 DEF Valid
<1>12. Window(mem, Offset, u) = data
  BY <1>1, <1>2, <1>3, WindowOfCopy
<1>. QED
  BY <1>6, <1>7, <1>11, <1>12 DEF Keeps, c, n, data

(* Growing takes the content along. The new length holds what is asked for,  *)
(* whether it doubles or not.                                                *)
LEMMA GrowKeeps ==
  ASSUME NEW b, Valid(b), NEW len \in Nat
  PROVE  Keeps(Grow(b, len), b) /\ WritableBytes(Grow(b, len)) >= len
<1>. DEFINE l == NewLength(b, len)
            e == New(l)
            r == ReadableBytes(b)
<1>1. /\ b.size \in Nat /\ b.cap \in Nat /\ b.size = b.cap + Offset /\ Offset <= b.cap
      /\ Offset \in Nat /\ r \in Nat /\ len \in Nat
  BY ContentLength, ValidFields, LengthsAssumption DEF Valid
<1>2. l \in Nat /\ Offset <= l /\ l >= r + len
  <2>. HIDE DEF r
  <2>1. l = IF 2 * b.size > Offset + r + len THEN 2 * b.size ELSE Offset + r + len
    BY DEF NewLength, r
  <2>. HIDE DEF l
  <2>2. CASE 2 * b.size > Offset + r + len
    BY <1>1, <2>1, <2>2
  <2>3. CASE ~(2 * b.size > Offset + r + len)
    BY <1>1, <2>1, <2>3
  <2>. QED
    BY <2>2, <2>3
<1>3. Valid(e) /\ Content(e) = <<>> /\ WritableBytes(e) = l
  <2>. HIDE DEF l
  <2>. QED
    BY <1>2, NewIsEmpty
<1>4. Content(b) \in Seq(Bytes) /\ Len(Content(b)) = r
  BY ContentIsSequence, ContentLength
<1>. HIDE DEF e, r, l
<1>5. Len(Content(b)) <= WritableBytes(e)
  BY <1>1, <1>2, <1>3, <1>4
<1>6. /\ Appends(Filled(e, Content(b)), e, Content(b))
      /\ WritableBytes(Filled(e, Content(b))) = WritableBytes(e) - Len(Content(b))
  BY <1>3, <1>4, <1>5, FilledAppends
<1>7. <<>> \o Content(b) = Content(b)
  BY <1>4
<1>8. Keeps(Filled(e, Content(b)), b)
  BY <1>3, <1>6, <1>7 DEF Appends, Keeps
<1>9. WritableBytes(Filled(e, Content(b))) >= len
  BY <1>1, <1>2, <1>3, <1>4, <1>6
<1>. QED
  BY <1>8, <1>9 DEF Grow, e, l

(* Whatever way room is made, the content stays and the room is there.       *)
LEMMA EnsureKeeps ==
  ASSUME NEW b, Valid(b), NEW len \in Nat
  PROVE  /\ Keeps(EnsureWritableBytes(b, len), b)
         /\ WritableBytes(EnsureWritableBytes(b, len)) >= len
<1>1. /\ b.head \in Nat /\ b.tail \in Nat /\ b.size \in Nat /\ Offset \in Nat
      /\ WritableBytes(b) = b.size - b.tail /\ ReadableBytes(b) = b.tail - b.head
  BY ValidFields, LengthsAssumption DEF WritableBytes, ReadableBytes
<1>2. CASE WritableBytes(b) >= len
  BY <1>2 DEF EnsureWritableBytes, Keeps
<1>3. CASE ~(WritableBytes(b) >= len) /\ b.head + WritableBytes(b) >= len + Offset
  <2>1. Offset + ReadableBytes(b) <= b.size
    BY <1>1, <1>3
  <2>2. Keeps(Compact(b), b) /\ WritableBytes(Compact(b)) = b.size - Offset - ReadableBytes(b)
    BY <2>1, CompactKeeps
  <2>3. WritableBytes(Compact(b)) >= len
    BY <1>1, <1>3, <2>2
  <2>. QED
    BY <1>3, <2>2, <2>3 DEF EnsureWritableBytes
<1>4. CASE ~(WritableBytes(b) >= len) /\ ~(b.head + WritableBytes(b) >= len + Offset)
  BY <1>4, GrowKeeps DEF EnsureWritableBytes
<1>. QED
  BY <1>2, <1>3, <1>4

LEMMA AppendToAppends ==
  ASSUME NEW b, Valid(b), NEW data \in Seq(Bytes)
  PROVE  Appends(AppendTo(b, data), b, data)
<1>. DEFINE e == EnsureWritableBytes(b, Len(data))
<1>1. Len(data) \in Nat
  OBVIOUS
<1>2. Valid(e) /\ Content(e) = Content(b) /\ WritableBytes(e) >= Len(data)
  BY <1>1, EnsureKeeps DEF Keeps
<1>. HIDE DEF e
<1>3. WritableBytes(e) \in Int
  BY <1>2, ValidFields DEF WritableBytes
<1>4. Appends(Filled(e, data), e, data)
  BY <1>1, <1>2, <1>3, FilledAppends
<1>. QED
  BY <1>2, <1>4 DEF Appends, AppendTo, e

(* Room in front, room behind, or a new buffer: the data comes first.        *)
LEMMA AddInFrontPrepends ==
  ASSUME NEW b, Valid(b), NEW data \in Seq(Bytes)
  PROVE  Prepends(AddInFront(b, data), b, data)
<1>. DEFINE h == b.head
            t == b.tail
            n == b.size
            old == b.mem
            body == Content(b)
            d == Len(data)
<1>1. /\ h \in Nat /\ t \in Nat /\ n \in Nat /\ d \in Nat /\ b.cap \in Nat
      /\ h <= t /\ t <= n
      /\ WritableBytes(b) = n - t /\ ReadableBytes(b) = t - h
  BY ValidFields DEF WritableBytes, ReadableBytes
<1>2. b \in Buffers /\ IsMemory(old, n) /\ n = b.cap + Offset /\ Offset <= b.cap
  BY DEF Valid
<1>3. body \in Seq(Bytes) /\ Len(body) = t - h /\ body = Window(old, h, t)
  BY <1>1, ContentIsSequence, ContentLength, ContentIsWindow
<1>4. CASE h >= d
  <2>. DEFINE k == h - d
              mem == Copy(old, data, k)
              c == [b EXCEPT !.mem = mem, !.head = k]
  <2>1. k \in Nat /\ k + d = h /\ k <= h /\ k <= t /\ k + d <= n
    BY <1>1, <1>4
  <2>2. /\ c.head = k /\ c.tail = t /\ c.size = n /\ c.cap = b.cap /\ c.mem = mem
    <3>. HIDE DEF mem, k
    <3>. QED
      BY <1>2 DEF Buffers
  <2>3. Content(c) = Window(mem, k, t)
    BY <2>2, ContentIsWindow
  <2>. HIDE DEF h, t, n, old, body, k
  <2>4. IsMemory(mem, n)
    BY <1>1, <1>2, <2>1, CopyIsMemory
  <2>5. mem \in Memories
    BY <1>1, <2>4, MemoryOfSize
  <2>6. c \in Buffers
    <3>. HIDE DEF mem
    <3>. QED
      BY <1>2, <2>1, <2>5, ChangedIsBuffer
  <2>7. Valid(c)
    <3>. HIDE DEF c
    <3>. QED
      BY <1>1, <1>2, <2>1, <2>2, <2>4, <2>6 DEF Valid
  <2>8. Window(mem, k, t) = Window(mem, k, h) \o Window(mem, h, t)
    <3>1. n \in Nat /\ k \in Nat /\ h \in Nat /\ t \in Nat /\ k <= h /\ h <= t /\ t <= n
      BY <1>1, <2>1
    <3>. HIDE DEF mem
    <3>. QED
      BY <2>4, <3>1, WindowsJoin
  <2>9. Window(mem, k, h) = data
    <3>1. Window(mem, k, k + d) = data
      BY <1>1, <1>2, <2>1, WindowOfCopy
    <3>. QED
      BY <2>1, <3>1
  <2>10. Window(mem, h, t) = Window(old, h, t)
    <3>1. k + Len(data) <= h /\ k + Len(data) <= n
      BY <1>1, <2>1
    <3>. QED
      BY <1>1, <1>2, <2>1, <3>1, WindowElsewhere
  <2>11. Content(c) = data \o body
    BY <1>3, <2>3, <2>8, <2>9, <2>10
  <2>12. AddInFront(b, data) = c
    BY <1>4 DEF AddInFront, h, k, old
  <2>. QED
    BY <2>7, <2>11, <2>12 DEF Prepends, body
<1>5. CASE ~(h >= d) /\ d <= WritableBytes(b)
  <2>. DEFINE k == h + d
              u == t + d
              moved == Copy(old, body, k)
              mem == Copy(moved, data, h)
              c == [b EXCEPT !.mem = mem, !.tail = u]
  <2>1. /\ k \in Nat /\ u \in Nat /\ h <= k /\ k <= u /\ u <= n /\ h <= u /\ k <= n
        /\ k + (t - h) = u
    BY <1>1, <1>5
  <2>2. /\ c.head = h /\ c.tail = u /\ c.size = n /\ c.cap = b.cap /\ c.mem = mem
    <3>. HIDE DEF mem, u
    <3>. QED
      BY <1>2 DEF Buffers
  <2>3. Content(c) = Window(mem, h, u)
    BY <2>2, ContentIsWindow
  <2>. HIDE DEF h, t, n, old, body
  <2>4. IsMemory(moved, n)
    <3>. HIDE DEF k
    <3>. QED
      BY <1>1, <1>2, <1>3, <2>1, CopyIsMemory
  <2>5. Window(moved, k, u) = body
    <3>1. k + Len(body) = u /\ k + Len(body) <= n
      BY <1>3, <2>1
    <3>. HIDE DEF k, u
    <3>2a. n \in Nat /\ k \in Nat /\ k + Len(body) <= n /\ IsMemory(old, n) /\ body \in Seq(Bytes)
      BY <1>1, <1>2, <1>3, <2>1, <3>1
    <3>2. Window(moved, k, k + Len(body)) = body
      BY <3>2a, WindowOfCopy
    <3>. QED
      BY <3>1, <3>2
  <2>. HIDE DEF moved
  <2>6. IsMemory(mem, n)
    BY <1>1, <2>4, CopyIsMemory
  <2>7. mem \in Memories
    BY <1>1, <2>6, MemoryOfSize
  <2>8. c \in Buffers
    <3>. HIDE DEF mem, u
    <3>. QED
      BY <1>2, <2>1, <2>7, ChangedIsBuffer
  <2>9. Valid(c)
    <3>. HIDE DEF c
    <3>. QED
      BY <1>1, <1>2, <2>1, <2>2, <2>6, <2>8 DEF Valid
  <2>10. Window(mem, h, u) = Window(mem, h, k) \o Window(mem, k, u)
    <3>. HIDE DEF mem, k, u
    <3>1. h \in Nat /\ k \in Nat /\ u \in Nat /\ n \in Nat
          /\ h <= k /\ k <= u /\ u <= n /\ IsMemory(mem, n)
      BY <1>1, <2>1, <2>6
    <3>. QED
      BY <3>1, WindowsJoin
  <2>11. Window(mem, h, k) = data
    <3>1. h + Len(data) <= n
      BY <2>1
    <3>. QED
      BY <1>1, <2>4, <3>1, WindowOfCopy
  <2>12. Window(mem, k, u) = Window(moved, k, u)
    <3>1. h + Len(data) <= k /\ h + Len(data) <= n
      BY <1>1, <2>1
    <3>. HIDE DEF k, u
    <3>. QED
      BY <1>1, <2>1, <2>4, <3>1, WindowElsewhere
  <2>13. Content(c) = data \o body
    BY <2>3, <2>5, <2>10, <2>11, <2>12
  <2>14. AddInFront(b, data) = c
    BY <1>5 DEF AddInFront, h, t, old, moved, body
  <2>. QED
    BY <2>9, <2>13, <2>14 DEF Prepends, body
<1>6. CASE ~(h >= d) /\ ~(d <= WritableBytes(b))
  <2>. DEFINE l == Max2(b.cap, d + ReadableBytes(b))
              e == New(l)
              f == Filled(e, data)
  <2>1. l \in Nat /\ Offset <= l /\ d <= l
    <3>. HIDE DEF h, t, n, old, body
    <3>. QED
      BY <1>1, <1>2, LengthsAssumption DEF Max2
  <2>2. Valid(e) /\ Content(e) = <<>> /\ WritableBytes(e) = l
    <3>. HIDE DEF l
    <3>. QED
      BY <2>1, NewIsEmpty
  <2>. HIDE DEF e, l
  <2>3. Appends(f, e, data)
    BY <1>1, <2>1, <2>2, FilledAppends
  <2>4. Valid(f) /\ Content(f) = data
    BY <2>2, <2>3 DEF Appends
  <2>. HIDE DEF f, body
  <2>5. Appends(AppendTo(f, body), f, body)
    BY <1>3, <2>4, AppendToAppends
  <2>6. AddInFront(b, data) = AppendTo(f, body)
    BY <1>6 DEF AddInFront, f, e, l, body
  <2>. QED
    BY <2>4, <2>5, <2>6 DEF Appends, Prepends, body
<1>7. h >= d \/ ~(h >= d)
  OBVIOUS
<1>. QED
  BY <1>4, <1>5, <1>6, <1>7

------------------------------------------------------------------------------
(* A vector that is as long as its capacity and the bytes in front is never  *)
(* cut, so nothing is lost but the content.                                  *)
LEMMA RetrieveAllEmpties ==
  ASSUME NEW b, Valid(b)
  PROVE  Valid(RetrieveAll(b)) /\ Content(RetrieveAll(b)) = <<>>
<1>. DEFINE c == [b EXCEPT !.head = Offset, !.tail = Offset]
<1>1. /\ b \in Buffers /\ b.size \in Nat /\ b.cap \in Nat /\ Offset \in Nat
      /\ b.size = b.cap + Offset /\ Offset <= b.cap /\ IsMemory(b.mem, b.size)
  BY ValidFields, LengthsAssumption DEF Valid
<1>2. ~(b.size > 2 * b.cap)
  BY <1>1
<1>3. RetrieveAll(b) = c
  BY <1>2 DEF RetrieveAll
<1>4. c \in Buffers
  BY <1>1, EmptiedIsBuffer
<1>5. c.head = Offset /\ c.tail = Offset /\ c.size = b.size /\ c.cap = b.cap /\ c.mem = b.mem
  BY <1>1 DEF Buffers
<1>. HIDE DEF c
<1>6. Valid(c)
  BY <1>1, <1>4, <1>5 DEF Valid
<1>7. ReadableBytes(c) = 0
  BY <1>1, <1>5 DEF ReadableBytes
<1>8. Content(c) = <<>>
  BY <1>6, <1>7, ContentIsSequence, ContentLength
<1>. QED
  BY <1>3, <1>6, <1>8

LEMMA RetrieveTakes ==
  ASSUME NEW b, Valid(b), NEW len \in Nat
  PROVE  /\ Valid(Retrieve(b, len))
         /\ Content(Retrieve(b, len))
              = IF len >= Len(Content(b)) THEN <<>>
                ELSE SubSeq(Content(b), len + 1, Len(Content(b)))
<1>1. /\ b \in Buffers /\ b.size \in Nat /\ b.head \in Nat /\ b.tail \in Nat
      /\ b.head <= b.tail /\ b.tail <= b.size
      /\ ReadableBytes(b) = b.tail - b.head /\ Len(Content(b)) = ReadableBytes(b)
  BY ValidFields, ContentLength DEF ReadableBytes
<1>2. CASE len >= ReadableBytes(b)
  BY <1>1, <1>2, RetrieveAllEmpties DEF Retrieve
<1>3. CASE ~(len >= ReadableBytes(b))
  <2>. DEFINE h == b.head + len
              c == [b EXCEPT !.head = h]
  <2>1. Retrieve(b, len) = c
    BY <1>3 DEF Retrieve
  <2>2. h \in Nat /\ h <= b.tail /\ len <= b.tail - b.head
    BY <1>1, <1>3
  <2>3. c.head = h /\ c.tail = b.tail /\ c.size = b.size /\ c.cap = b.cap /\ c.mem = b.mem
    BY <1>1 DEF Buffers
  <2>4. c \in Buffers
    <3>. HIDE DEF h
    <3>. QED
      BY <1>1, <2>2, MovedIsBuffer
  <2>5. Valid(c)
    <3>. HIDE DEF c, h
    <3>. QED
      BY <2>2, <2>3, <2>4 DEF Valid
  <2>6. Content(c) = Window(b.mem, b.head + len, b.tail)
    BY <2>3, ContentIsWindow
  <2>7. Window(b.mem, b.head + len, b.tail) = WithoutFirst(Window(b.mem, b.head, b.tail), len)
    <3>. DEFINE f == b.head
                t == b.tail
                n == b.size
                old == b.mem
                g == f + len
    <3>1. /\ n \in Nat /\ f \in Nat /\ t \in Nat /\ f <= t /\ t <= n
          /\ len <= t - f /\ IsMemory(old, n) /\ g = f + len
      BY <1>1, <2>2 DEF Valid
    <3>. HIDE DEF f, t, n, old, g
    <3>2. Window(old, g, t) = WithoutFirst(Window(old, f, t), len)
      BY <3>1, WindowWithoutFirst
    <3>. QED
      BY <3>2 DEF f, t, n, old, g
  <2>8. Content(c) = SubSeq(Content(b), len + 1, Len(Content(b)))
    BY <2>6, <2>7, ContentIsWindow DEF WithoutFirst
  <2>. QED
    BY <1>1, <1>3, <2>1, <2>5, <2>8
<1>. QED
  BY <1>2, <1>3

LEMMA UnwriteTakesBack ==
  ASSUME NEW b, Valid(b), NEW k \in Nat, k <= ReadableBytes(b)
  PROVE  /\ Valid(Unwrite(b, k))
         /\ Content(Unwrite(b, k)) = SubSeq(Content(b), 1, Len(Content(b)) - k)
<1>. DEFINE t == b.tail - k
            c == [b EXCEPT !.tail = t]
<1>1. /\ b \in Buffers /\ b.size \in Nat /\ b.head \in Nat /\ b.tail \in Nat
      /\ b.head <= b.tail /\ b.tail <= b.size
      /\ Len(Content(b)) = b.tail - b.head
  BY ValidFields, ContentLength DEF ReadableBytes
<1>2. t \in Nat /\ b.head <= t /\ t <= b.size /\ k <= b.tail - b.head
  BY <1>1 DEF ReadableBytes
<1>3. c.head = b.head /\ c.tail = t /\ c.size = b.size /\ c.cap = b.cap /\ c.mem = b.mem
  BY <1>1 DEF Buffers
<1>4. c \in Buffers
  <2>. HIDE DEF t
  <2>. QED
    BY <1>1, <1>2, MovedIsBuffer
<1>5. Valid(c)
  <2>. HIDE DEF c, t
  <2>. QED
    BY <1>2, <1>3, <1>4 DEF Valid
<1>6. Content(c) = Window(b.mem, b.head, b.tail - k)
  BY <1>3, ContentIsWindow
<1>7. Window(b.mem, b.head, b.tail - k) = WithoutLast(Window(b.mem, b.head, b.tail), k)
  <2>. DEFINE f == b.head
              u == b.tail
              n == b.size
              old == b.mem
              v == u - k
  <2>1. /\ n \in Nat /\ f \in Nat /\ u \in Nat /\ f <= u /\ u <= n
        /\ k <= u - f /\ IsMemory(old, n) /\ v = u - k
    BY <1>1, <1>2 DEF Valid
  <2>. HIDE DEF f, u, n, old, v
  <2>2. Window(old, f, v) = WithoutLast(Window(old, f, u), k)
    BY <2>1, WindowWithoutLast
  <2>. QED
    BY <2>2 DEF f, u, n, old, v
<1>8. Content(c) = SubSeq(Content(b), 1, Len(Content(b)) - k)
  BY <1>6, <1>7, ContentIsWindow DEF WithoutLast
<1>. QED
  BY <1>5, <1>8 DEF Unwrite

(* readv with two pieces reads what one piece would.                         *)
LEMMA ReadFdAppends ==
  ASSUME NEW b, Valid(b), NEW data \in Seq(Bytes)
  PROVE  Appends(ReadFd(b, data), b, data)
<1>. DEFINE w == WritableBytes(b)
            d == Len(data)
<1>1. w \in Nat /\ d \in Nat
  BY ValidFields DEF WritableBytes
<1>2. CASE d <= w
  BY <1>2, FilledAppends DEF ReadFd
<1>3. CASE ~(d <= w)
  <2>. DEFINE first == SubSeq(data, 1, w)
              rest == SubSeq(data, w + 1, d)
              e == Filled(b, first)
  <2>1. first \in Seq(Bytes) /\ Len(first) = w
    <3>. HIDE DEF w
    <3>. QED
      BY <1>1, <1>3
  <2>2. rest \in Seq(Bytes) /\ Len(rest) = d - w
    <3>. HIDE DEF w
    <3>. QED
      BY <1>1, <1>3
  <2>3. first \o rest = data
    <3>1. 1 \in 1 .. d + 1 /\ w \in 1 - 1 .. d /\ d \in w .. d
      BY <1>1, <1>3
    <3>. HIDE DEF w
    <3>2. SubSeq(data, 1, w) \o SubSeq(data, w + 1, d) = SubSeq(data, 1, d)
      BY <3>1, ConcatAdjacentSubSeq
    <3>3. SubSeq(data, 1, d) = data
      OBVIOUS
    <3>. QED
      BY <3>2, <3>3
  <2>. HIDE DEF first, rest
  <2>4. Appends(e, b, first)
    <3>1. Len(first) <= WritableBytes(b)
      BY <1>1, <2>1
    <3>. QED
      BY <2>1, <3>1, FilledAppends
  <2>5. Valid(e) /\ Content(e) = Content(b) \o first
    BY <2>4 DEF Appends
  <2>. HIDE DEF e
  <2>6. Appends(AppendTo(e, rest), e, rest)
    BY <2>2, <2>5, AppendToAppends
  <2>7. (Content(b) \o first) \o rest = Content(b) \o (first \o rest)
    <3>1. first \in Seq(Bytes) /\ rest \in Seq(Bytes) /\ Content(b) \in Seq(Bytes)
      BY <2>1, <2>2, ContentIsSequence
    <3>. QED
      BY <3>1, ConcatAssociative
  <2>8. ReadFd(b, data) = AppendTo(e, rest)
    BY <1>3 DEF ReadFd, e, first, rest
  <2>. QED
    BY <2>3, <2>5, <2>6, <2>7, <2>8 DEF Appends
<1>. QED
  BY <1>2, <1>3

------------------------------------------------------------------------------
LEMMA BlocksAreSequences ==
  ASSUME NEW data \in Blocks
  PROVE  data \in Seq(Bytes) /\ Len(data) \in 0 .. MaxLen
<1>1. PICK n \in 0 .. MaxLen : data \in [1 .. n -> Bytes]
  BY DEF Blocks
<1>2. n \in Nat
  BY LengthsAssumption
<1>. QED
  BY <1>1, <1>2

Inv == Valid(buf)

LEMMA InvInit == Init => Inv
  BY LengthsAssumption, LengthAssumption, NewIsEmpty DEF Init, Inv

(* What each action does to the buffer, in the words of the queue.           *)
LEMMA StepKeepsInv ==
  ASSUME Inv, Next
  PROVE  /\ Inv'
         /\ \/ \E data \in Blocks : \/ Content(buf') = Content(buf) \o data
                                    \/ Content(buf') = data \o Content(buf)
            \/ \E n \in 0 .. Len(Content(buf)) + 1 :
                  Content(buf') = IF n >= Len(Content(buf)) THEN <<>>
                                  ELSE SubSeq(Content(buf), n + 1, Len(Content(buf)))
            \/ \E n \in 0 .. MaxLen :
                  /\ n <= Len(Content(buf))
                  /\ Content(buf') = SubSeq(Content(buf), 1, Len(Content(buf)) - n)
<1>0. Valid(buf) /\ Len(Content(buf)) = ReadableBytes(buf) /\ ReadableBytes(buf) \in Nat
  BY ContentLength DEF Inv
<1>1. CASE DoAppend
  <2>1. PICK data \in Blocks : buf' = AppendTo(buf, data)
    BY <1>1 DEF DoAppend
  <2>2. Appends(AppendTo(buf, data), buf, data)
    BY <1>0, BlocksAreSequences, AppendToAppends
  <2>. QED
    BY <2>1, <2>2 DEF Appends, Inv
<1>2. CASE DoAddInFront
  <2>1. PICK data \in Blocks : buf' = AddInFront(buf, data)
    BY <1>2 DEF DoAddInFront
  <2>2. Prepends(AddInFront(buf, data), buf, data)
    BY <1>0, BlocksAreSequences, AddInFrontPrepends
  <2>. QED
    BY <2>1, <2>2 DEF Prepends, Inv
<1>3. CASE DoReadFd
  <2>1. PICK data \in Blocks : buf' = ReadFd(buf, data)
    BY <1>3 DEF DoReadFd
  <2>2. Appends(ReadFd(buf, data), buf, data)
    BY <1>0, BlocksAreSequences, ReadFdAppends
  <2>. QED
    BY <2>1, <2>2 DEF Appends, Inv
<1>4. CASE DoWrite
  <2>. DEFINE e == EnsureWritableBytes(buf, MaxLen)
  <2>1. PICK data \in Blocks : buf' = Filled(e, data)
    BY <1>4 DEF DoWrite
  <2>2. Valid(e) /\ Content(e) = Content(buf) /\ WritableBytes(e) >= MaxLen
    BY <1>0, LengthsAssumption, EnsureKeeps DEF Keeps
  <2>3. data \in Seq(Bytes) /\ Len(data) \in 0 .. MaxLen
    BY BlocksAreSequences
  <2>. HIDE DEF e
  <2>4. Len(data) <= WritableBytes(e)
    <3>1. WritableBytes(e) \in Int
      BY <2>2, ValidFields DEF WritableBytes
    <3>. QED
      BY <2>2, <2>3, <3>1, LengthsAssumption
  <2>5. Appends(Filled(e, data), e, data)
    BY <2>2, <2>3, <2>4, FilledAppends
  <2>. QED
    BY <2>1, <2>2, <2>5 DEF Appends, Inv
<1>5. CASE DoRetrieve
  <2>1. PICK len \in 0 .. ReadableBytes(buf) + 1 : buf' = Retrieve(buf, len)
    BY <1>5 DEF DoRetrieve
  <2>2. len \in Nat /\ len \in 0 .. Len(Content(buf)) + 1
    BY <1>0
  <2>3. /\ Valid(Retrieve(buf, len))
        /\ Content(Retrieve(buf, len))
              = IF len >= Len(Content(buf)) THEN <<>>
                ELSE SubSeq(Content(buf), len + 1, Len(Content(buf)))
    BY <1>0, <2>2, RetrieveTakes
  <2>. QED
    BY <2>1, <2>2, <2>3 DEF Inv
<1>6. CASE DoUnwrite
  <2>1. PICK n \in 0 .. MaxLen : n <= ReadableBytes(buf) /\ buf' = Unwrite(buf, n)
    BY <1>6 DEF DoUnwrite
  <2>2. n \in Nat
    BY LengthsAssumption
  <2>3. /\ Valid(Unwrite(buf, n))
        /\ Content(Unwrite(buf, n)) = SubSeq(Content(buf), 1, Len(Content(buf)) - n)
    BY <1>0, <2>1, <2>2, UnwriteTakesBack
  <2>. QED
    BY <1>0, <2>1, <2>3 DEF Inv
<1>. QED
  BY <1>1, <1>2, <1>3, <1>4, <1>5, <1>6 DEF Next

LEMMA NextKeepsInv == Inv /\ [Next]_buf => Inv'
<1>1. ASSUME Inv, Next PROVE Inv'
  BY <1>1, StepKeepsInv
<1>2. ASSUME Inv, UNCHANGED buf PROVE Inv'
  BY <1>2 DEF Inv, Valid, Buffers, IsMemory
<1>. QED
  BY <1>1, <1>2

(* The buffer is valid after every sequence of operations.                   *)
THEOREM BufferStaysValid == Spec => []Inv
<1>. QED
  BY InvInit, NextKeepsInv, PTL DEF Spec

(* The indices stay in the vector and in order, whatever is put and taken.   *)
THEOREM MsgBufferTypeOK == Spec => []TypeOK
<1>1. Inv => TypeOK
  BY ValidFields DEF Inv, Valid, IsMemory, TypeOK
<1>. QED
  BY <1>1, BufferStaysValid, PTL

(* RetrieveAll never cuts the vector.                                        *)
THEOREM MsgBufferSizeFollowsCapacity == Spec => []SizeFollowsCapacity
<1>1. Inv => SizeFollowsCapacity
  BY DEF Inv, Valid, SizeFollowsCapacity
<1>. QED
  BY <1>1, BufferStaysValid, PTL

(* Every sequence of operations on the buffer is one on a queue of bytes.    *)
THEOREM MsgBufferIsQueue == Spec => QueueSpec
<1>1. Init => Queue!Init
  BY LengthsAssumption, LengthAssumption, NewIsEmpty DEF Init, Queue!Init
<1>2. Inv /\ [Next]_buf => [Queue!Next]_(Content(buf))
  <2>1. ASSUME Inv, Next PROVE Queue!Next
    BY <2>1, StepKeepsInv
       DEF Queue!Next, Queue!PutBehind, Queue!PutInFront, Queue!Take, Queue!TakeBack,
           Queue!Blocks, Blocks
  <2>2. ASSUME UNCHANGED buf PROVE UNCHANGED Content(buf)
    BY <2>2 DEF Content, ReadableBytes
  <2>. QED
    BY <2>1, <2>2
<1>. QED
  BY <1>1, <1>2, BufferStaysValid, PTL DEF Spec, QueueSpec, Queue!Spec

------------------------------------------------------------------------------
(* Numbers in the buffer.                                                    *)

(* A number below Base * Base is its two bytes.                              *)
LEMMA TwoBytes ==
  ASSUME NEW n \in 0 .. Base * Base - 1
  PROVE  /\ n \div Base \in 0 .. Base - 1 /\ n % Base \in 0 .. Base - 1
         /\ Base * (n \div Base) + (n % Base) = n
<1>. DEFINE q == n \div Base
<1>0. Base \in Nat /\ Base > 0 /\ Base * Base \in Nat
  BY BytesAssumption
<1>1. q \in Int /\ n % Base \in 0 .. Base - 1 /\ Base * q + (n % Base) = n
  BY <1>0
<1>2. q >= 0
  BY <1>0
<1>. HIDE DEF q
<1>3. Base * q < Base * Base
  BY <1>0, <1>1
<1>4. q < Base
  BY <1>0, <1>1, <1>3
<1>5. q \in 0 .. Base - 1
  BY <1>0, <1>1, <1>2, <1>4
<1>6. q \in 0 .. Base - 1 /\ n % Base \in 0 .. Base - 1 /\ Base * q + (n % Base) = n
  BY <1>1, <1>5
<1>. QED
  BY <1>6 DEF q

LEMMA OneByte ==
  ASSUME NEW n \in 0 .. Base - 1
  PROVE  n % Base = n /\ n \div 1 = n
  BY BytesAssumption

LEMMA FrontOfJoin ==
  ASSUME NEW s \in Seq(Bytes), NEW rest \in Seq(Bytes), NEW i \in 1 .. Len(s)
  PROVE  (s \o rest)[i] = s[i]
  OBVIOUS

(* The bytes of a number, the high one first, and what PeekInt makes of a    *)
(* content that begins with them.                                            *)
LEMMA NumberInContent ==
  ASSUME NEW w \in Widths, NEW n \in 0 .. Power(w) - 1
  PROVE  /\ NetworkOrder(w, n) \in Seq(Bytes) /\ Len(NetworkOrder(w, n)) = w
         /\ \A c, rest \in Seq(Bytes) :
              c = NetworkOrder(w, n) \o rest =>
                n = IF w = 1 THEN c[1] ELSE Base * c[1] + c[2]
<1>0. Base \in Nat /\ Base > 0 /\ Bytes = 0 .. Base - 1
  BY BytesAssumption
<1>1. CASE w = 1
  <2>1. n \in 0 .. Base - 1
    BY <1>1 DEF Power
  <2>2. NetworkOrder(w, n) = [i \in 1 .. 1 |-> n]
    <3>1. \A i \in 1 .. 1 : (n \div Power(w - i)) % Base = n
      BY <1>1, <2>1, OneByte DEF Power
    <3>. QED
      BY <1>1, <3>1 DEF NetworkOrder
  <2>3. NetworkOrder(w, n) \in Seq(Bytes) /\ Len(NetworkOrder(w, n)) = 1
        /\ NetworkOrder(w, n)[1] = n
    BY <1>0, <2>1, <2>2
  <2>4. ASSUME NEW rest \in Seq(Bytes)
        PROVE  (NetworkOrder(w, n) \o rest)[1] = n
    <3>1. 1 \in 1 .. Len(NetworkOrder(w, n))
      BY <2>3
    <3>. QED
      BY <2>3, <2>4, <3>1, FrontOfJoin
  <2>. QED
    BY <1>1, <2>3, <2>4
<1>2. CASE w = 2
  <2>. DEFINE q == n \div Base
              r == n % Base
  <2>1. n \in 0 .. Base * Base - 1
    BY <1>2 DEF Power
  <2>2. q \in 0 .. Base - 1 /\ r \in 0 .. Base - 1 /\ Base * q + r = n
    <3>1. \A m \in 0 .. Base * Base - 1 :
            /\ m \div Base \in 0 .. Base - 1 /\ m % Base \in 0 .. Base - 1
            /\ Base * (m \div Base) + (m % Base) = m
      BY TwoBytes
    <3>. QED
      BY <2>1, <3>1
  <2>3. q % Base = q
    <3>. HIDE DEF q
    <3>. QED
      BY <2>2, OneByte
  <2>4. (n \div 1) % Base = r
    BY <2>1
  <2>5. NetworkOrder(w, n) = [i \in 1 .. 2 |-> IF i = 1 THEN q ELSE r]
    <3>1. /\ Power(2 - 1) = Base /\ Power(2 - 2) = 1
      BY DEF Power
    <3>2. \A i \in 1 .. 2 : (n \div Power(2 - i)) % Base = IF i = 1 THEN q ELSE r
      <4>1. \A i \in 1 .. 2 : i = 1 \/ i = 2
        OBVIOUS
      <4>. QED
        BY <2>3, <2>4, <3>1, <4>1
    <3>. QED
      BY <1>2, <3>2 DEF NetworkOrder
  <2>. HIDE DEF q, r
  <2>6. NetworkOrder(w, n) \in Seq(Bytes) /\ Len(NetworkOrder(w, n)) = 2
        /\ NetworkOrder(w, n)[1] = q /\ NetworkOrder(w, n)[2] = r
    BY <1>0, <2>2, <2>5
  <2>7. ASSUME NEW rest \in Seq(Bytes)
        PROVE  (NetworkOrder(w, n) \o rest)[1] = q /\ (NetworkOrder(w, n) \o rest)[2] = r
    <3>1. 1 \in 1 .. Len(NetworkOrder(w, n)) /\ 2 \in 1 .. Len(NetworkOrder(w, n))
      BY <2>6
    <3>. QED
      BY <2>6, <2>7, <3>1, FrontOfJoin
  <2>. QED
    BY <1>2, <2>2, <2>6, <2>7
<1>. QED
  BY <1>1, <1>2 DEF Widths

(* A number put in front or behind is read back, and what was in the buffer  *)
(* is there when it is taken, however room was made (MsgBuffer.cpp:97, :179).*)
THEOREM MsgBufferNumbers == Spec => []NumbersReadBack
<1>1. ASSUME Inv, NEW w \in Widths, NEW n \in 0 .. Power(w) - 1
      PROVE  LET front == AddInFrontInt(buf, w, n)
                 behind == AppendInt(buf, w, n)
             IN  /\ PeekInt(front, w) = n
                 /\ Content(ReadInt(front, w)) = Content(buf)
                 /\ PeekInt(Retrieve(behind, ReadableBytes(buf)), w) = n
  <2>. DEFINE data == NetworkOrder(w, n)
              front == AddInFrontInt(buf, w, n)
              behind == AppendInt(buf, w, n)
              old == Content(buf)
              rest == Retrieve(behind, ReadableBytes(buf))
  <2>0. Valid(buf) /\ old \in Seq(Bytes) /\ Len(old) = ReadableBytes(buf) /\ w \in Nat /\ w > 0
    BY <1>1, ContentIsSequence, ContentLength DEF Inv, Widths
  <2>1. data \in Seq(Bytes) /\ Len(data) = w
    BY NumberInContent
  <2>2. Valid(front) /\ Content(front) = data \o old
    BY <2>0, <2>1, AddInFrontPrepends DEF AddInFrontInt, Prepends
  <2>3. Valid(behind) /\ Content(behind) = old \o data
    BY <2>0, <2>1, AppendToAppends DEF AppendInt, Appends
  <2>4. \A c, r \in Seq(Bytes) :
          c = data \o r => n = IF w = 1 THEN c[1] ELSE Base * c[1] + c[2]
    BY NumberInContent
  <2>. HIDE DEF data, front, behind, old
  <2>5. PeekInt(front, w) = n
    <3>1. Content(front) \in Seq(Bytes)
      BY <2>2, ContentIsSequence
    <3>. QED
      BY <2>0, <2>2, <2>4, <3>1 DEF PeekInt
  <2>6. Content(ReadInt(front, w)) = old
    <3>1. Content(Retrieve(front, w))
            = IF w >= Len(Content(front)) THEN <<>>
              ELSE SubSeq(Content(front), w + 1, Len(Content(front)))
      BY <2>0, <2>2, RetrieveTakes
    <3>2. Len(data \o old) = w + Len(old) /\ Len(old) \in Nat
      BY <2>0, <2>1
    <3>3. CASE Len(old) = 0
      BY <2>0, <2>2, <3>1, <3>2, <3>3, EmptySeq DEF ReadInt
    <3>4. CASE Len(old) > 0
      <4>1. SubSeq(data \o old, w + 1, w + Len(old)) = old
        BY <2>0, <2>1, <3>2
      <4>. QED
        BY <2>0, <2>2, <3>1, <3>2, <3>4, <4>1 DEF ReadInt
    <3>. QED
      BY <3>2, <3>3, <3>4
  <2>7. PeekInt(rest, w) = n
    <3>1. Len(old \o data) = Len(old) + w /\ Len(old) \in Nat
      BY <2>0, <2>1
    <3>2. Content(rest) = SubSeq(old \o data, Len(old) + 1, Len(old) + w)
      <4>1. /\ Len(Content(behind)) = Len(old) + w
            /\ Len(old) \in Nat /\ ~(Len(old) >= Len(Content(behind)))
        BY <2>0, <2>3, <3>1
      <4>2. Content(Retrieve(behind, Len(old)))
              = IF Len(old) >= Len(Content(behind)) THEN <<>>
                ELSE SubSeq(Content(behind), Len(old) + 1, Len(Content(behind)))
        BY <2>3, <4>1, RetrieveTakes
      <4>. QED
        BY <2>0, <2>3, <4>1, <4>2
    <3>3. SubSeq(old \o data, Len(old) + 1, Len(old) + w) = data
      BY <2>0, <2>1, <3>1
    <3>4. data = data \o <<>> /\ <<>> \in Seq(Bytes)
      BY <2>1
    <3>. QED
      BY <2>1, <2>4, <3>2, <3>3, <3>4 DEF PeekInt
  <2>. QED
    BY <2>5, <2>6, <2>7 DEF data, front, behind, old
<1>2. Inv => NumbersReadBack
  BY <1>1 DEF NumbersReadBack
<1>. QED
  BY <1>2, BufferStaysValid, PTL

=============================================================================
