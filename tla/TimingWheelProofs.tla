-------------------------- MODULE TimingWheelProofs --------------------------
(***************************************************************************)
(* Proofs about TimingWheel for every number of timers and connections,     *)
(* every size of the wheels that divide one another, every delay and every  *)
(* length of a turn of the loop.                                            *)
(***************************************************************************)
EXTENDS TimingWheel, TLAPS

-----------------------------------------------------------------------------
(* Sizes of the wheels.                                                      *)

(* What it is to divide: a quotient, and a remainder below the divisor.       *)
LEMMA Division ==
  ASSUME NEW a \in Nat \ {0}, NEW n \in Nat
  PROVE  /\ n \div a \in Nat /\ (n % a) \in 0 .. a - 1
         /\ n = a * (n \div a) + (n % a)
  OBVIOUS

LEMMA Remainder ==
  ASSUME NEW a \in Nat \ {0}, NEW q \in Nat, NEW r \in 0 .. a - 1
  PROVE  ((a * q + r) % a) = r /\ ((a * q + r) \div a) = q
<1> DEFINE n == a * q + r
<1>1. n \in Nat
  OBVIOUS
<1> HIDE DEF n
<1>2. n \div a \in Nat /\ (n % a) \in 0 .. a - 1 /\ n = a * (n \div a) + (n % a)
  BY <1>1
<1> DEFINE d == n \div a
           s == n % a
<1> HIDE DEF d, s
<1>3. d \in Nat /\ s \in 0 .. a - 1 /\ a * d + s = a * q + r
  BY <1>2 DEF d, s, n
<1>4. \A k \in Nat : k >= 1 => a * k >= a
  OBVIOUS
<1>5. d = q
  <2>1. CASE d > q
    <3>1. d - q \in Nat /\ d - q >= 1 /\ a * (d - q) = r - s
      BY <1>3, <2>1
    <3>2. QED
      BY <1>3, <1>4, <3>1
  <2>2. CASE q > d
    <3>1. q - d \in Nat /\ q - d >= 1 /\ a * (q - d) = s - r
      BY <1>3, <2>2
    <3>2. QED
      BY <1>3, <1>4, <3>1
  <2>3. QED
    BY <1>3, <2>1, <2>2
<1>6. s = r
  BY <1>3, <1>5
<1>7. QED
  BY <1>5, <1>6 DEF d, s, n

(* What the assumption says, with the minute dividing the day.               *)
LEMMA MultipleOfMultiple ==
  ASSUME NEW a \in Nat \ {0}, NEW b \in Nat \ {0}, NEW c \in Nat,
         (b % a) = 0, (c % b) = 0
  PROVE  (c % a) = 0
<1> DEFINE p == b \div a
           q == c \div b
<1>1. p \in Nat /\ b = a * p
  BY Division
<1>2. q \in Nat /\ c = b * q
  BY Division
<1> HIDE DEF p, q
<1> DEFINE n == p * q
<1>3. n \in Nat /\ c = a * n
  BY <1>1, <1>2
<1> HIDE DEF n
<1>4. c = a * n + 0 /\ 0 \in 0 .. a - 1
  BY <1>3
<1>5. QED
  BY <1>3, <1>4, Remainder

LEMMA WheelSizes ==
  /\ kTimingMinute \in Nat /\ kTimingMinute >= 2
  /\ kTimingHour \in Nat /\ kTimingHour > kTimingMinute
  /\ kTimingDay \in Nat /\ kTimingDay > kTimingHour
  /\ (kTimingHour % kTimingMinute) = 0
  /\ (kTimingDay % kTimingHour) = 0
  /\ (kTimingDay % kTimingMinute) = 0
  /\ Days \in Nat /\ Days >= 1
<1>1. /\ kTimingMinute \in Nat \ {0} /\ kTimingHour \in Nat \ {0} /\ kTimingDay \in Nat
      /\ (kTimingHour % kTimingMinute) = 0 /\ (kTimingDay % kTimingHour) = 0
  BY TimingWheelAssumption
<1>2. (kTimingDay % kTimingMinute) = 0
  BY <1>1, MultipleOfMultiple
<1>3. QED
  BY <1>1, <1>2, TimingWheelAssumption

LEMMA WheelNames ==
  /\ "second" \in Wheels /\ "minute" \in Wheels
  /\ "hour" \in Wheels /\ "day" \in Wheels
  BY DEF Wheels

LEMMA WheelUnits ==
  /\ Unit("second") = 1 /\ Unit("minute") = kTimingMinute
  /\ Unit("hour") = kTimingHour /\ Unit("day") = kTimingDay
  /\ \A w \in Wheels : Unit(w) \in Nat \ {0}
  BY WheelSizes DEF Unit, Wheels

LEMMA WheelSlots ==
  /\ Slots("second") = kTimingMinute
  /\ \A w \in Wheels : Slots(w) \in Nat
<1>1. /\ kTimingHour \div kTimingMinute \in Nat
      /\ kTimingDay \div kTimingHour \in Nat
  BY WheelSizes
<1>2. QED
  BY <1>1, WheelSizes DEF Slots, Wheels

(* The phase of the minute, tick by tick: m_tick wraps at a full minute.     *)
LEMMA PhaseOfTick ==
  ASSUME NEW m \in 0 .. kTimingDay - 1
  PROVE  /\ (m % kTimingMinute) \in 0 .. kTimingMinute - 1
         /\ ((m + 1) % kTimingDay) \in 0 .. kTimingDay - 1
         /\ ((m + 1) % kTimingMinute) # 0 =>
              /\ (((m + 1) % kTimingDay) % kTimingMinute) = (m % kTimingMinute) + 1
              /\ (m % kTimingMinute) + 1 < kTimingMinute
         /\ ((m + 1) % kTimingMinute) = 0 =>
              /\ (((m + 1) % kTimingDay) % kTimingMinute) = 0
              /\ (m % kTimingMinute) + 1 = kTimingMinute
<1>1. m \in Nat /\ m + 1 <= kTimingDay
  BY WheelSizes
<1>2. /\ ((m + 1) % kTimingMinute) = 
           IF (m % kTimingMinute) + 1 = kTimingMinute THEN 0
           ELSE (m % kTimingMinute) + 1
      /\ (m % kTimingMinute) \in 0 .. kTimingMinute - 1
  <2> DEFINE q == m \div kTimingMinute
             r == m % kTimingMinute
  <2>1. q \in Nat /\ r \in 0 .. kTimingMinute - 1 /\ m = kTimingMinute * q + r
    <3>1. kTimingMinute \in Nat \ {0}
      BY WheelSizes
    <3>2. QED
      BY <1>1, <3>1, Division
  <2> HIDE DEF q, r
  <2>2. CASE r + 1 = kTimingMinute
    <3>1. m + 1 = kTimingMinute * (q + 1) + 0 /\ q + 1 \in Nat /\ 0 \in 0 .. kTimingMinute - 1
      BY <2>1, <2>2, WheelSizes
    <3>2. (m + 1) % kTimingMinute = 0
      BY <3>1, Remainder, WheelSizes
    <3>3. QED
      BY <3>2, <2>1, <2>2 DEF r
  <2>3. CASE r + 1 # kTimingMinute
    <3>1. m + 1 = kTimingMinute * q + (r + 1) /\ r + 1 \in 0 .. kTimingMinute - 1
      BY <2>1, <2>3, WheelSizes
    <3>2. ((m + 1) % kTimingMinute) = r + 1
      BY <3>1, <2>1, Remainder, WheelSizes
    <3>3. QED
      BY <3>2, <2>1, <2>3 DEF r
  <2>4. QED
    BY <2>2, <2>3
<1>3. CASE m + 1 = kTimingDay
  <2>1. ((m + 1) % kTimingDay) = 0
    BY <1>3, WheelSizes
  <2>2. ((m + 1) % kTimingMinute) = 0
    BY <1>3, WheelSizes
  <2>3. (0 % kTimingMinute) = 0
    BY WheelSizes
  <2>4. QED
    BY <1>2, <2>1, <2>2, <2>3, WheelSizes
<1>4. CASE m + 1 # kTimingDay
  <2>1. ((m + 1) % kTimingDay) = m + 1
    BY <1>1, <1>4, WheelSizes
  <2>2. QED
    BY <1>1, <1>2, <1>4, <2>1, WheelSizes
<1>5. QED
  BY <1>3, <1>4

(* OnTimer pops the minute wheel at a full minute, and no other ever.        *)
LEMMA CoarserWheelsPopped ==
  ASSUME NEW tick \in Nat
  PROVE  CoarserWheels(tick) = IF (tick % kTimingMinute) = 0 THEN {"minute"} ELSE {}
<1> /\ kTimingMinute \in Nat \ {0} /\ kTimingHour \in Nat \ {0} /\ kTimingDay \in Nat \ {0}
    /\ (kTimingHour % kTimingMinute) = 0 /\ (kTimingDay % kTimingMinute) = 0
  BY WheelSizes
<1>1. (tick % kTimingHour) = 0 => (tick % kTimingMinute) = 0
  BY MultipleOfMultiple
<1>2. (tick % kTimingDay) = 0 => (tick % kTimingMinute) = 0
  BY MultipleOfMultiple
<1>3. QED
  BY <1>1, <1>2 DEF CoarserWheels

-----------------------------------------------------------------------------
(* The wheels.                                                               *)

(* A reference waits in a wheel with a rest below the wheel's unit.          *)
Reference(w) == [entry : Entries, rest : 0 .. Unit(w) - 1]

WheelsType(W) ==
  DOMAIN W = Wheels /\ \A w \in Wheels : W[w] \in [1 .. Slots(w) -> SUBSET Reference(w)]

LEMMA WheelChosen ==
  ASSUME NEW d \in Int
  PROVE  /\ WheelFor(d) = "second" <=> 0 < d /\ d < kTimingMinute
         /\ WheelFor(d) = "minute" <=> kTimingMinute <= d /\ d < kTimingHour
         /\ WheelFor(d) = "hour" <=> kTimingHour <= d /\ d < kTimingDay
         /\ WheelFor(d) = "day" => kTimingDay <= d /\ d < (Days + 1) * kTimingDay
         /\ d = 0 => WheelFor(d) = "none"
         /\ WheelFor(d) \in Wheels => d > 0
<1>1. "none" \notin Wheels
  BY DEF Wheels
<1>2. CASE d <= 0
  BY <1>1, <1>2, WheelSizes DEF WheelFor
<1>3. CASE d > 0
  BY <1>1, <1>3, WheelSizes DEF WheelFor
<1>4. QED
  BY <1>2, <1>3

(* What a slot holds after an insertion.                                     *)
LEMMA InsertHolds ==
  ASSUME NEW W, WheelsType(W), NEW waits \in SUBSET [entry : Entries, rest : Int]
  PROVE  /\ WheelsType(InsertEntry(W, waits))
         /\ \A w \in Wheels : \A i \in 1 .. Slots(w) : \A x :
              x \in InsertEntry(W, waits)[w][i] <=>
                \/ x \in W[w][i]
                \/ \E y \in waits :
                     /\ WheelFor(y.rest) = w /\ y.rest \div Unit(w) = i
                     /\ x = [entry |-> y.entry, rest |-> y.rest % Unit(w)]
<1> DEFINE New(w, i) == {[entry |-> y.entry, rest |-> y.rest % Unit(w)] :
                           y \in {z \in waits : WheelFor(z.rest) = w
                                                  /\ z.rest \div Unit(w) = i}}
           Z == InsertEntry(W, waits)
<1>1. Z = [w \in Wheels |-> [i \in 1 .. Slots(w) |-> W[w][i] \cup New(w, i)]]
  BY DEF InsertEntry
<1> HIDE DEF Z
<1>2. \A w \in Wheels : \A i \in 1 .. Slots(w) : Z[w][i] = W[w][i] \cup New(w, i)
  BY <1>1
<1>3. \A w \in Wheels : \A i \in 1 .. Slots(w) : New(w, i) \in SUBSET Reference(w)
  <2> SUFFICES ASSUME NEW w \in Wheels, NEW i \in 1 .. Slots(w), NEW y \in waits
               PROVE  [entry |-> y.entry, rest |-> y.rest % Unit(w)] \in Reference(w)
    OBVIOUS
  <2>1. Unit(w) \in Nat \ {0} /\ y.rest \in Int /\ y.entry \in Entries
    BY WheelUnits
  <2>2. (y.rest % Unit(w)) \in 0 .. Unit(w) - 1
    BY <2>1
  <2>3. QED
    BY <2>1, <2>2 DEF Reference
<1>4. WheelsType(Z)
  <2>1. \A w \in Wheels : Z[w] = [i \in 1 .. Slots(w) |-> W[w][i] \cup New(w, i)]
    BY <1>1
  <2>2. DOMAIN Z = Wheels
    BY <1>1
  <2> SUFFICES ASSUME NEW w \in Wheels
               PROVE  Z[w] \in [1 .. Slots(w) -> SUBSET Reference(w)]
    BY <2>2 DEF WheelsType
  <2>3. \A i \in 1 .. Slots(w) : W[w][i] \in SUBSET Reference(w)
    BY DEF WheelsType
  <2>4. \A i \in 1 .. Slots(w) : W[w][i] \cup New(w, i) \in SUBSET Reference(w)
    BY <2>3, <1>3
  <2> HIDE DEF New
  <2>5. QED
    BY <2>1, <2>4
<1>5. ASSUME NEW w \in Wheels, NEW i \in 1 .. Slots(w), NEW x
      PROVE  x \in Z[w][i] <=>
                \/ x \in W[w][i]
                \/ \E y \in waits :
                     /\ WheelFor(y.rest) = w /\ y.rest \div Unit(w) = i
                     /\ x = [entry |-> y.entry, rest |-> y.rest % Unit(w)]
  <2>1. x \in New(w, i) <=> \E y \in waits :
                     /\ WheelFor(y.rest) = w /\ y.rest \div Unit(w) = i
                     /\ x = [entry |-> y.entry, rest |-> y.rest % Unit(w)]
    OBVIOUS
  <2> HIDE DEF New
  <2>2. QED
    BY <1>2, <2>1
<1>6. QED
  BY <1>4, <1>5 DEF Z

(* Insertion of one reference.                                               *)
LEMMA InsertOneHolds ==
  ASSUME NEW W, WheelsType(W), NEW e \in Entries, NEW d \in Int
  PROVE  LET Z == InsertEntry(W, {[entry |-> e, rest |-> d]})
         IN  /\ WheelsType(Z)
             /\ \A w \in Wheels : \A i \in 1 .. Slots(w) : \A x :
                  x \in Z[w][i] <=>
                    \/ x \in W[w][i]
                    \/ /\ WheelFor(d) = w /\ d \div Unit(w) = i
                       /\ x = [entry |-> e, rest |-> d % Unit(w)]
<1> DEFINE one == [entry |-> e, rest |-> d]
           Z == InsertEntry(W, {one})
<1>1. {one} \in SUBSET [entry : Entries, rest : Int]
  OBVIOUS
<1>2. one.entry = e /\ one.rest = d
  OBVIOUS
<1> HIDE DEF one
<1>3. WheelsType(Z)
  BY <1>1, InsertHolds
<1>4. \A w \in Wheels : \A i \in 1 .. Slots(w) : \A x :
              x \in Z[w][i] <=>
                \/ x \in W[w][i]
                \/ \E y \in {one} :
                     /\ WheelFor(y.rest) = w /\ y.rest \div Unit(w) = i
                     /\ x = [entry |-> y.entry, rest |-> y.rest % Unit(w)]
  BY <1>1, InsertHolds
<1> HIDE DEF Z
<1>5. \A w \in Wheels : \A i \in 1 .. Slots(w) : \A x :
              x \in Z[w][i] <=>
                \/ x \in W[w][i]
                \/ /\ WheelFor(d) = w /\ d \div Unit(w) = i
                   /\ x = [entry |-> e, rest |-> d % Unit(w)]
  BY <1>2, <1>4
<1>6. QED
  BY <1>3, <1>5 DEF Z, one

(* What a wheel holds after its first slot was taken off.                    *)
Shifted(W, wheel) ==
  [W EXCEPT ![wheel] = [i \in 1 .. Slots(wheel) |->
                          IF i = Slots(wheel) THEN {} ELSE W[wheel][i + 1]]]

LEMMA ShiftHolds ==
  ASSUME NEW W, WheelsType(W), NEW wheel \in Wheels
  PROVE  /\ WheelsType(Shifted(W, wheel))
         /\ \A w \in Wheels : \A i \in 1 .. Slots(w) : \A x :
              x \in Shifted(W, wheel)[w][i] <=>
                IF w = wheel THEN i + 1 \in 1 .. Slots(w) /\ x \in W[w][i + 1]
                ELSE x \in W[w][i]
<1> DEFINE Z == Shifted(W, wheel)
           row == [i \in 1 .. Slots(wheel) |->
                     IF i = Slots(wheel) THEN {} ELSE W[wheel][i + 1]]
<1>1. \A i \in 1 .. Slots(wheel) : i # Slots(wheel) <=> i + 1 \in 1 .. Slots(wheel)
  BY WheelSlots
<1>2. row \in [1 .. Slots(wheel) -> SUBSET Reference(wheel)]
  BY <1>1 DEF WheelsType
<1>3. \A i \in 1 .. Slots(wheel) : \A x :
        x \in row[i] <=> i + 1 \in 1 .. Slots(wheel) /\ x \in W[wheel][i + 1]
  BY <1>1
<1> HIDE DEF row
<1>4. /\ DOMAIN Z = Wheels /\ Z[wheel] = row
      /\ \A w \in Wheels \ {wheel} : Z[w] = W[w]
  BY DEF Shifted, row, WheelsType
<1> HIDE DEF Z
<1>5. WheelsType(Z)
  BY <1>2, <1>4 DEF WheelsType
<1>6. QED
  BY <1>3, <1>4, <1>5 DEF Z

LEMMA PopUpIs ==
  ASSUME NEW W, NEW wheel
  PROVE  PopUp(W, wheel) = InsertEntry(Shifted(W, wheel), W[wheel][1])
  BY DEF PopUp, Shifted

(* The wheel of seconds drops what its first slot held.                      *)
LEMMA PopSecondHolds ==
  ASSUME NEW W, WheelsType(W)
  PROVE  /\ WheelsType(PopUp(W, "second"))
         /\ \A w \in Wheels : \A i \in 1 .. Slots(w) : \A x :
              x \in PopUp(W, "second")[w][i] <=>
                IF w = "second" THEN i + 1 \in 1 .. Slots(w) /\ x \in W[w][i + 1]
                ELSE x \in W[w][i]
<1> DEFINE S == Shifted(W, "second")
           Z == PopUp(W, "second")
<1>1. "second" \in Wheels /\ 1 \in 1 .. Slots("second")
  BY WheelNames, WheelSlots, WheelSizes
<1>2. W["second"][1] \in SUBSET Reference("second")
  BY <1>1 DEF WheelsType
<1>3. \A y \in W["second"][1] : y.rest = 0
  BY <1>2, WheelUnits DEF Reference
<1>4. W["second"][1] \in SUBSET [entry : Entries, rest : Int]
  BY <1>2, WheelUnits DEF Reference
<1>5. /\ WheelsType(S)
      /\ \A w \in Wheels : \A i \in 1 .. Slots(w) : \A x :
              x \in S[w][i] <=>
                IF w = "second" THEN i + 1 \in 1 .. Slots(w) /\ x \in W[w][i + 1]
                ELSE x \in W[w][i]
  BY <1>1, ShiftHolds
<1>6. Z = InsertEntry(S, W["second"][1])
  BY PopUpIs
<1> HIDE DEF Z, S
<1>7. /\ WheelsType(Z)
      /\ \A w \in Wheels : \A i \in 1 .. Slots(w) : \A x :
           x \in Z[w][i] <=>
                \/ x \in S[w][i]
                \/ \E y \in W["second"][1] :
                     /\ WheelFor(y.rest) = w /\ y.rest \div Unit(w) = i
                     /\ x = [entry |-> y.entry, rest |-> y.rest % Unit(w)]
  BY <1>4, <1>5, <1>6, InsertHolds
<1>8. \A y \in W["second"][1] : WheelFor(y.rest) \notin Wheels
  BY <1>3, WheelChosen
<1>9. \A w \in Wheels : \A i \in 1 .. Slots(w) : \A x : x \in Z[w][i] <=> x \in S[w][i]
  BY <1>7, <1>8
<1>10. QED
  BY <1>5, <1>7, <1>9 DEF Z

(* The wheel of minutes moves what its first slot held to the wheel of       *)
(* seconds, by what the delay leaves, or drops it.                           *)
LEMMA PopMinuteHolds ==
  ASSUME NEW W, WheelsType(W)
  PROVE  /\ WheelsType(PopUp(W, "minute"))
         /\ 1 \in 1 .. Slots("minute")
         /\ \A w \in Wheels : \A i \in 1 .. Slots(w) : \A x :
              x \in PopUp(W, "minute")[w][i] <=>
                IF w = "minute" THEN i + 1 \in 1 .. Slots(w) /\ x \in W[w][i + 1]
                ELSE \/ x \in W[w][i]
                     \/ /\ w = "second"
                        /\ \E y \in W["minute"][1] :
                             y.rest = i /\ x = [entry |-> y.entry, rest |-> 0]
<1> DEFINE S == Shifted(W, "minute")
           Z == PopUp(W, "minute")
<1>1. "minute" \in Wheels /\ 1 \in 1 .. Slots("minute")
  <2>1. kTimingHour \div kTimingMinute \in Nat
        /\ kTimingHour = kTimingMinute * (kTimingHour \div kTimingMinute)
                           + (kTimingHour % kTimingMinute)
    <3>1. kTimingMinute \in Nat \ {0} /\ kTimingHour \in Nat
      BY WheelSizes
    <3>2. QED
      BY <3>1, Division
  <2> DEFINE q == kTimingHour \div kTimingMinute
  <2>2. q \in Nat /\ kTimingHour = kTimingMinute * q
    BY <2>1, WheelSizes
  <2> HIDE DEF q
  <2>3. q # 0
    BY <2>2, WheelSizes
  <2>4. Slots("minute") = q
    BY DEF Slots, q
  <2>5. QED
    BY <2>2, <2>3, <2>4, WheelNames
<1>2. W["minute"][1] \in SUBSET Reference("minute")
  BY <1>1 DEF WheelsType
<1>3. \A y \in W["minute"][1] : y.rest \in 0 .. kTimingMinute - 1
  BY <1>2, WheelUnits DEF Reference
<1>4. W["minute"][1] \in SUBSET [entry : Entries, rest : Int]
  BY <1>2, <1>3 DEF Reference
<1>5. /\ WheelsType(S)
      /\ \A w \in Wheels : \A i \in 1 .. Slots(w) : \A x :
              x \in S[w][i] <=>
                IF w = "minute" THEN i + 1 \in 1 .. Slots(w) /\ x \in W[w][i + 1]
                ELSE x \in W[w][i]
  BY <1>1, ShiftHolds
<1>6. Z = InsertEntry(S, W["minute"][1])
  BY PopUpIs
<1> HIDE DEF Z, S
<1>7. /\ WheelsType(Z)
      /\ \A w \in Wheels : \A i \in 1 .. Slots(w) : \A x :
           x \in Z[w][i] <=>
                \/ x \in S[w][i]
                \/ \E y \in W["minute"][1] :
                     /\ WheelFor(y.rest) = w /\ y.rest \div Unit(w) = i
                     /\ x = [entry |-> y.entry, rest |-> y.rest % Unit(w)]
  BY <1>4, <1>5, <1>6, InsertHolds
<1>8. ASSUME NEW y \in W["minute"][1], NEW w \in Wheels, NEW i \in 1 .. Slots(w), NEW x
      PROVE  /\ WheelFor(y.rest) = w /\ y.rest \div Unit(w) = i
             /\ x = [entry |-> y.entry, rest |-> y.rest % Unit(w)]
             <=> w = "second" /\ y.rest = i /\ x = [entry |-> y.entry, rest |-> 0]
  <2>1. y.rest \in Int /\ 0 <= y.rest /\ y.rest < kTimingMinute /\ i \in Int /\ i >= 1
    BY <1>3, WheelSizes, WheelSlots
  <2>2. CASE y.rest = 0
    <3>1. WheelFor(y.rest) \notin Wheels
      BY <2>1, <2>2, WheelChosen
    <3>2. QED
      BY <2>1, <2>2, <3>1
  <2>3. CASE y.rest # 0
    <3>1. WheelFor(y.rest) = "second"
      BY <2>1, <2>3, WheelChosen
    <3>2. y.rest \div 1 = y.rest /\ (y.rest % 1) = 0
      BY <2>1
    <3>3. Unit("second") = 1
      BY WheelUnits
    <3>4. QED
      BY <3>1, <3>2, <3>3
  <2>4. QED
    BY <2>2, <2>3
<1>9. ASSUME NEW w \in Wheels, NEW i \in 1 .. Slots(w), NEW x
      PROVE  x \in Z[w][i] <=> \/ x \in S[w][i]
                               \/ /\ w = "second"
                                  /\ \E y \in W["minute"][1] :
                                       y.rest = i /\ x = [entry |-> y.entry, rest |-> 0]
  BY <1>7, <1>8
<1>10. "second" # "minute"
  OBVIOUS
<1>11. QED
  BY <1>1, <1>5, <1>7, <1>9, <1>10 DEF Z

(* RunEvery's timers among some entries come again, nobody else does.        *)
LEMMA RunAgainHolds ==
  ASSUME NEW W, WheelsType(W), delay \in [Timers -> Int], NEW S
  PROVE  /\ WheelsType(RunAgain(W, S))
         /\ \A w \in Wheels : \A i \in 1 .. Slots(w) : \A x :
              x \in RunAgain(W, S)[w][i] <=>
                \/ x \in W[w][i]
                \/ \E t \in S \cap Timers :
                     /\ every[t]
                     /\ WheelFor(delay[t]) = w /\ delay[t] \div Unit(w) = i
                     /\ x = [entry |-> t, rest |-> delay[t] % Unit(w)]
<1> DEFINE waits == {[entry |-> e, rest |-> delay[e]] :
                       e \in {f \in S \cap Timers : every[f]}}
           Z == RunAgain(W, S)
<1>1. Z = InsertEntry(W, waits)
  BY DEF RunAgain
<1>2. waits \in SUBSET [entry : Entries, rest : Int]
  BY DEF Entries
<1>3. ASSUME NEW w \in Wheels, NEW i \in 1 .. Slots(w), NEW x
      PROVE  (\E y \in waits :
                     /\ WheelFor(y.rest) = w /\ y.rest \div Unit(w) = i
                     /\ x = [entry |-> y.entry, rest |-> y.rest % Unit(w)])
             <=> \E t \in S \cap Timers :
                     /\ every[t]
                     /\ WheelFor(delay[t]) = w /\ delay[t] \div Unit(w) = i
                     /\ x = [entry |-> t, rest |-> delay[t] % Unit(w)]
  <2>1. ASSUME NEW y \in waits,
               WheelFor(y.rest) = w, y.rest \div Unit(w) = i,
               x = [entry |-> y.entry, rest |-> y.rest % Unit(w)]
        PROVE  \E t \in S \cap Timers :
                     /\ every[t]
                     /\ WheelFor(delay[t]) = w /\ delay[t] \div Unit(w) = i
                     /\ x = [entry |-> t, rest |-> delay[t] % Unit(w)]
    <3>1. PICK t \in S \cap Timers : every[t] /\ y = [entry |-> t, rest |-> delay[t]]
      BY <2>1
    <3>2. y.entry = t /\ y.rest = delay[t]
      BY <3>1
    <3>3. WheelFor(delay[t]) = w /\ delay[t] \div Unit(w) = i
          /\ x = [entry |-> t, rest |-> delay[t] % Unit(w)]
      BY <2>1, <3>2
    <3>4. QED
      BY <3>1, <3>3
  <2>2. ASSUME NEW t \in S \cap Timers, every[t],
               WheelFor(delay[t]) = w, delay[t] \div Unit(w) = i,
               x = [entry |-> t, rest |-> delay[t] % Unit(w)]
        PROVE  \E y \in waits :
                     /\ WheelFor(y.rest) = w /\ y.rest \div Unit(w) = i
                     /\ x = [entry |-> y.entry, rest |-> y.rest % Unit(w)]
    <3> DEFINE y == [entry |-> t, rest |-> delay[t]]
    <3>1. y \in waits
      BY <2>2
    <3>2. y.entry = t /\ y.rest = delay[t]
      OBVIOUS
    <3> HIDE DEF y, waits
    <3>3. WheelFor(y.rest) = w /\ y.rest \div Unit(w) = i
          /\ x = [entry |-> y.entry, rest |-> y.rest % Unit(w)]
      BY <2>2, <3>2
    <3>4. QED
      BY <3>1, <3>3
  <2>3. QED
    BY <2>1, <2>2
<1> HIDE DEF Z, waits
<1>4. /\ WheelsType(Z)
      /\ \A w \in Wheels : \A i \in 1 .. Slots(w) : \A x :
           x \in Z[w][i] <=>
                \/ x \in W[w][i]
                \/ \E y \in waits :
                     /\ WheelFor(y.rest) = w /\ y.rest \div Unit(w) = i
                     /\ x = [entry |-> y.entry, rest |-> y.rest % Unit(w)]
  BY <1>1, <1>2, InsertHolds
<1>5. QED
  BY <1>3, <1>4 DEF Z

-----------------------------------------------------------------------------
(* The inductive invariant: types, the time that ticks stand for, and for    *)
(* every reference the ticks until it is dropped.                            *)
TypeOK ==
  /\ WheelsType(m_wheels)
  /\ m_tick \in 0 .. kTimingDay - 1
  /\ since \in {NotYet} \cup 0 .. Period
  /\ delay \in [Timers -> Delays \cup {NotYet}]
  /\ conn \in [Conns -> {"new", "open", "closed"}]
  /\ DOMAIN ticks = Entries /\ \A e \in Entries : ticks[e] \in Nat
  /\ DOMAIN time = Entries /\ \A e \in Entries : time[e] \in Nat
  /\ /\ DOMAIN fired_after = Entries
     /\ \A e \in Entries : fired_after[e] \in Nat \cup {NotYet}

(* After n ticks and a time s, when the last tick is x ago.                  *)
KeepsTime(n, s, x) ==
  /\ s <= n * (Period + LongestTurn) + (IF x = NotYet THEN 0 ELSE x + LongestTurn)
  /\ n > 0 => x # NotYet /\ s >= (n - 1) * (Period + 1) + x

(* A connection's references are in the wheel of seconds, no farther than    *)
(* the ticks it has left; while it is open there is one just as far.         *)
ConnPlaces(W, c, left) ==
  \A w \in Wheels : \A i \in 1 .. Slots(w) : \A x \in W[w][i] :
    x.entry = c => w = "second" /\ i <= left

Held(W, c, left) == [entry |-> c, rest |-> 0] \in W["second"][left]

ConnInv(c) ==
  /\ ConnPlaces(m_wheels, c, MaxIdle)
  /\ conn[c] = "new" => ticks[c] = 0
  /\ conn[c] = "open" =>
       /\ ticks[c] < MaxIdle
       /\ ConnPlaces(m_wheels, c, MaxIdle - ticks[c])
       /\ Held(m_wheels, c, MaxIdle - ticks[c])
  /\ fired_after[c] \in {NotYet, MaxIdle}

(* Where the reference of a timer may be that was given the delay d and has  *)
(* an age, p ticks after a full minute: age and the ticks to come make d, or *)
(* less than a minute less for a timer that counts minutes.                  *)
Fits(w, i, r, d, age, p) ==
  \/ w = "second" /\ WheelFor(d) = "second" /\ age + i = d
  \/ /\ w = "second" /\ WheelFor(d) = "minute"
     /\ i + p = (d % kTimingMinute)
     /\ d - kTimingMinute < age + i /\ age + i <= d
  \/ /\ w = "minute" /\ WheelFor(d) = "minute"
     /\ r = (d % kTimingMinute)
     /\ d - kTimingMinute < age + i * kTimingMinute - p + r
     /\ age + i * kTimingMinute - p + r <= d
  \/ w \in {"hour", "day"} /\ WheelFor(d) = w

TimerPlaces(W, t, d, age, p) ==
  \A w \in Wheels : \A i \in 1 .. Slots(w) : \A x \in W[w][i] :
    x.entry = t => Fits(w, i, x.rest, d, age, p)

Stays(W, t, w) == \E i \in 1 .. Slots(w) : \E x \in W[w][i] : x.entry = t

FiredOnTime(d, n) ==
  n > 0 => n <= d /\ n > d - kTimingMinute /\ (d < kTimingMinute => n = d)

TimerInv(t) ==
  /\ TimerPlaces(m_wheels, t, delay[t], ticks[t], m_tick % kTimingMinute)
  /\ t \notin References(m_wheels) => ticks[t] = 0
  /\ WheelFor(delay[t]) \in {"hour", "day"} =>
       Stays(m_wheels, t, WheelFor(delay[t])) /\ fired_after[t] = NotYet
  /\ FiredOnTime(delay[t], fired_after[t])

IInv ==
  /\ TypeOK
  /\ \A e \in Entries : KeepsTime(ticks[e], time[e], since)
  /\ \A c \in Conns : ConnInv(c)
  /\ \A t \in Timers : TimerInv(t)

-----------------------------------------------------------------------------
(* Wheels that hold the same references of an entry.                         *)
SameReferences(W, Z, e) ==
  \A w \in Wheels : \A i \in 1 .. Slots(w) : \A x :
    x.entry = e => (x \in Z[w][i] <=> x \in W[w][i])

LEMMA SameKeeps ==
  ASSUME NEW W, NEW Z, NEW e \in Entries, SameReferences(W, Z, e)
  PROVE  /\ e \in References(Z) <=> e \in References(W)
         /\ \A left : ConnPlaces(W, e, left) => ConnPlaces(Z, e, left)
         /\ \A left \in 1 .. Slots("second") : Held(W, e, left) => Held(Z, e, left)
         /\ \A d, age, p : TimerPlaces(W, e, d, age, p) => TimerPlaces(Z, e, d, age, p)
         /\ \A w \in Wheels : Stays(W, e, w) => Stays(Z, e, w)
<1>1. e \in References(Z) <=> e \in References(W)
  BY DEF SameReferences, References
<1>2. \A left : ConnPlaces(W, e, left) => ConnPlaces(Z, e, left)
  BY DEF SameReferences, ConnPlaces
<1>3. \A left \in 1 .. Slots("second") : Held(W, e, left) => Held(Z, e, left)
  <2> SUFFICES ASSUME NEW left \in 1 .. Slots("second"), Held(W, e, left)
               PROVE  Held(Z, e, left)
    OBVIOUS
  <2> DEFINE x == [entry |-> e, rest |-> 0]
  <2>1. x.entry = e
    OBVIOUS
  <2>2. x \in W["second"][left]
    BY DEF Held
  <2> HIDE DEF x
  <2>3. x \in Z["second"][left]
    BY <2>1, <2>2, WheelNames DEF SameReferences
  <2>4. QED
    BY <2>3 DEF Held, x
<1>4. \A d, age, p : TimerPlaces(W, e, d, age, p) => TimerPlaces(Z, e, d, age, p)
  BY DEF SameReferences, TimerPlaces
<1>5. \A w \in Wheels : Stays(W, e, w) => Stays(Z, e, w)
  BY DEF SameReferences, Stays
<1>6. QED
  BY <1>1, <1>2, <1>3, <1>4, <1>5

LEMMA InsertOneSame ==
  ASSUME NEW W, WheelsType(W), NEW f \in Entries, NEW d \in Int,
         NEW e \in Entries, e # f
  PROVE  SameReferences(W, InsertEntry(W, {[entry |-> f, rest |-> d]}), e)
<1> DEFINE Z == InsertEntry(W, {[entry |-> f, rest |-> d]})
<1>1. \A w \in Wheels : \A i \in 1 .. Slots(w) : \A x :
        x \in Z[w][i] <=>
          \/ x \in W[w][i]
          \/ /\ WheelFor(d) = w /\ d \div Unit(w) = i
             /\ x = [entry |-> f, rest |-> d % Unit(w)]
  BY InsertOneHolds
<1> HIDE DEF Z
<1>2. \A r : [entry |-> f, rest |-> r].entry # e
  OBVIOUS
<1>3. SameReferences(W, Z, e)
  BY <1>1, <1>2 DEF SameReferences
<1>4. QED
  BY <1>3 DEF Z

LEMMA RunAgainSame ==
  ASSUME NEW W, WheelsType(W), delay \in [Timers -> Int], NEW S,
         NEW e \in Entries, e \notin S \cap Timers
  PROVE  SameReferences(W, RunAgain(W, S), e)
<1> DEFINE Z == RunAgain(W, S)
<1>1. \A w \in Wheels : \A i \in 1 .. Slots(w) : \A x :
              x \in Z[w][i] <=>
                \/ x \in W[w][i]
                \/ \E t \in S \cap Timers :
                     /\ every[t]
                     /\ WheelFor(delay[t]) = w /\ delay[t] \div Unit(w) = i
                     /\ x = [entry |-> t, rest |-> delay[t] % Unit(w)]
  BY RunAgainHolds
<1> HIDE DEF Z
<1>2. \A t, r : [entry |-> t, rest |-> r].entry = t
  OBVIOUS
<1>3. SameReferences(W, Z, e)
  BY <1>1, <1>2 DEF SameReferences
<1>4. QED
  BY <1>3 DEF Z

LEMMA PopMinuteSame ==
  ASSUME NEW W, WheelsType(W), NEW e \in Entries,
         \A i \in 1 .. Slots("minute") : \A x \in W["minute"][i] : x.entry # e
  PROVE  SameReferences(W, PopUp(W, "minute"), e)
<1> DEFINE Z == PopUp(W, "minute")
<1>1. /\ 1 \in 1 .. Slots("minute")
      /\ \A w \in Wheels : \A i \in 1 .. Slots(w) : \A x :
              x \in Z[w][i] <=>
                IF w = "minute" THEN i + 1 \in 1 .. Slots(w) /\ x \in W[w][i + 1]
                ELSE \/ x \in W[w][i]
                     \/ /\ w = "second"
                        /\ \E y \in W["minute"][1] :
                             y.rest = i /\ x = [entry |-> y.entry, rest |-> 0]
  BY PopMinuteHolds
<1> HIDE DEF Z
<1>2. \A t, r : [entry |-> t, rest |-> r].entry = t
  OBVIOUS
<1> SUFFICES ASSUME NEW w \in Wheels, NEW i \in 1 .. Slots(w), NEW x, x.entry = e
             PROVE  x \in Z[w][i] <=> x \in W[w][i]
  BY DEF SameReferences, Z
<1>3. CASE w = "minute"
  BY <1>1, <1>3
<1>4. CASE w # "minute"
  BY <1>1, <1>2, <1>4
<1>5. QED
  BY <1>3, <1>4

-----------------------------------------------------------------------------
(* References of connections.                                                *)
LEMMA IdleSlots ==
  /\ MaxIdle \in Nat /\ 1 <= MaxIdle /\ MaxIdle < kTimingMinute
  /\ WheelFor(MaxIdle) = "second"
  /\ \A left \in 1 .. MaxIdle : left \in 1 .. Slots("second")
<1>1. MaxIdle \in Nat /\ 1 <= MaxIdle /\ MaxIdle < kTimingMinute
  BY WheelSizes, TimingWheelAssumption
<1>2. QED
  BY <1>1, WheelChosen, WheelSlots, WheelSizes

LEMMA ConnTicks ==
  ASSUME NEW W, WheelsType(W), NEW c \in Conns, NEW left \in Int,
         ConnPlaces(W, c, left)
  PROVE  /\ ConnPlaces(PopUp(W, "second"), c, left - 1)
         /\ left \in 2 .. MaxIdle /\ Held(W, c, left) =>
              Held(PopUp(W, "second"), c, left - 1)
<1> DEFINE Z == PopUp(W, "second")
<1>1. \A w \in Wheels : \A i \in 1 .. Slots(w) : \A x :
        x \in Z[w][i] <=>
          IF w = "second" THEN i + 1 \in 1 .. Slots(w) /\ x \in W[w][i + 1]
          ELSE x \in W[w][i]
  BY PopSecondHolds
<1> HIDE DEF Z
<1>2. ConnPlaces(Z, c, left - 1)
  <2> SUFFICES ASSUME NEW w \in Wheels, NEW i \in 1 .. Slots(w), NEW x \in Z[w][i],
                      x.entry = c
               PROVE  w = "second" /\ i <= left - 1
    BY DEF ConnPlaces
  <2>1. i \in Int
    BY WheelSlots
  <2>2. CASE w = "second"
    <3>1. i + 1 \in 1 .. Slots(w) /\ x \in W[w][i + 1]
      BY <1>1, <2>2
    <3>2. i + 1 <= left
      BY <3>1, <2>2, WheelNames DEF ConnPlaces
    <3>3. QED
      BY <2>1, <2>2, <3>2
  <2>3. CASE w # "second"
    BY <1>1, <2>3 DEF ConnPlaces
  <2>4. QED
    BY <2>2, <2>3
<1>3. ASSUME left \in 2 .. MaxIdle, Held(W, c, left)
      PROVE  Held(Z, c, left - 1)
  <2>1. left - 1 \in 1 .. Slots("second") /\ (left - 1) + 1 \in 1 .. Slots("second")
        /\ (left - 1) + 1 = left
    BY <1>3, IdleSlots, WheelSlots
  <2>2. QED
    BY <1>1, <1>3, <2>1, WheelNames DEF Held
<1>4. QED
  BY <1>2, <1>3 DEF Z

LEMMA ConnInserted ==
  ASSUME NEW W, WheelsType(W), NEW c \in Conns, ConnPlaces(W, c, MaxIdle)
  PROVE  LET Z == InsertEntry(W, {[entry |-> c, rest |-> MaxIdle]})
         IN  ConnPlaces(Z, c, MaxIdle) /\ Held(Z, c, MaxIdle)
<1> DEFINE Z == InsertEntry(W, {[entry |-> c, rest |-> MaxIdle]})
<1>1. c \in Entries /\ MaxIdle \in Int
  BY IdleSlots DEF Entries
<1>2. \A w \in Wheels : \A i \in 1 .. Slots(w) : \A x :
        x \in Z[w][i] <=>
          \/ x \in W[w][i]
          \/ /\ WheelFor(MaxIdle) = w /\ MaxIdle \div Unit(w) = i
             /\ x = [entry |-> c, rest |-> MaxIdle % Unit(w)]
  BY <1>1, InsertOneHolds
<1> HIDE DEF Z
<1>3. MaxIdle \div Unit("second") = MaxIdle /\ (MaxIdle % Unit("second")) = 0
  <2>1. \A n \in Nat : n \div 1 = n /\ (n % 1) = 0
    OBVIOUS
  <2>2. QED
    BY <2>1, IdleSlots, WheelUnits
<1>4. ConnPlaces(Z, c, MaxIdle)
  <2> SUFFICES ASSUME NEW w \in Wheels, NEW i \in 1 .. Slots(w), NEW x \in Z[w][i],
                      x.entry = c
               PROVE  w = "second" /\ i <= MaxIdle
    BY DEF ConnPlaces
  <2>1. CASE x \in W[w][i]
    BY <2>1 DEF ConnPlaces
  <2>2. CASE WheelFor(MaxIdle) = w /\ MaxIdle \div Unit(w) = i
    BY <2>2, <1>3, IdleSlots
  <2>3. QED
    BY <1>2, <2>1, <2>2
<1>5. Held(Z, c, MaxIdle)
  <2>1. MaxIdle \in 1 .. Slots("second")
    BY IdleSlots
  <2>2. QED
    BY <1>2, <1>3, <2>1, IdleSlots, WheelNames DEF Held
<1>6. QED
  BY <1>4, <1>5 DEF Z

(* A connection's references that are in the wheel, or are not.              *)
LEMMA HeldIsReferred ==
  ASSUME NEW W, NEW c \in Conns, NEW left \in 1 .. MaxIdle, Held(W, c, left)
  PROVE  c \in References(W)
<1> DEFINE x == [entry |-> c, rest |-> 0]
<1>1. x.entry = c /\ x \in W["second"][left] /\ left \in 1 .. Slots("second")
  BY IdleSlots DEF Held
<1> HIDE DEF x
<1>2. QED
  BY <1>1, WheelNames DEF References, Entries

LEMMA NoneLeft ==
  ASSUME NEW W, NEW c \in Conns, NEW left \in Int, left <= 0, ConnPlaces(W, c, left)
  PROVE  c \notin References(W)
<1> SUFFICES ASSUME c \in References(W) PROVE FALSE
  OBVIOUS
<1>1. PICK w \in Wheels : \E i \in 1 .. Slots(w) : \E x \in W[w][i] : x.entry = c
  BY DEF References
<1>2. PICK i \in 1 .. Slots(w) : \E x \in W[w][i] : x.entry = c
  BY <1>1
<1>3. i \in Int /\ i >= 1 /\ i <= left
  BY <1>2, WheelSlots DEF ConnPlaces
<1>4. QED
  BY <1>3

(* What happens to a connection's references in a tick after the first       *)
(* wheel has turned: nothing.                                                *)
LEMMA ConnPopMinuteSame ==
  ASSUME NEW W, WheelsType(W), NEW c \in Conns, NEW left \in Int, ConnPlaces(W, c, left)
  PROVE  SameReferences(W, PopUp(W, "minute"), c)
<1>1. c \in Entries
  BY DEF Entries
<1>2. \A i \in 1 .. Slots("minute") : \A x \in W["minute"][i] : x.entry # c
  BY WheelNames DEF ConnPlaces
<1>3. QED
  BY <1>1, <1>2, PopMinuteSame

-----------------------------------------------------------------------------
(* References of timers.                                                     *)

(* A tick, as far as the wheel of seconds.                                   *)
LEMMA TimerTicks ==
  ASSUME NEW W, WheelsType(W), NEW t \in Timers, NEW d \in Int, NEW age \in Nat,
         NEW p \in 0 .. kTimingMinute - 1, TimerPlaces(W, t, d, age, p)
  PROVE  TimerPlaces(PopUp(W, "second"), t, d, age + 1, p + 1)
<1> DEFINE Z == PopUp(W, "second")
<1>1. /\ WheelsType(Z)
      /\ \A w \in Wheels : \A i \in 1 .. Slots(w) : \A x :
        x \in Z[w][i] <=>
          IF w = "second" THEN i + 1 \in 1 .. Slots(w) /\ x \in W[w][i + 1]
          ELSE x \in W[w][i]
  BY PopSecondHolds
<1> HIDE DEF Z
<1> SUFFICES ASSUME NEW w \in Wheels, NEW i \in 1 .. Slots(w), NEW x \in Z[w][i],
                    x.entry = t
             PROVE  Fits(w, i, x.rest, d, age + 1, p + 1)
  BY DEF TimerPlaces, Z
<1>2. i \in Int /\ p \in Int /\ kTimingMinute \in Int /\ (d % kTimingMinute) \in Int
  BY WheelSlots, WheelSizes
<1>3. CASE w = "second"
  <2>1. i + 1 \in 1 .. Slots(w) /\ x \in W[w][i + 1]
    BY <1>1, <1>3
  <2>2. Fits(w, i + 1, x.rest, d, age, p)
    BY <2>1 DEF TimerPlaces
  <2>3. QED
    BY <1>2, <1>3, <2>2 DEF Fits
<1>4. CASE w = "minute"
  <2>1. x \in W[w][i]
    BY <1>1, <1>4
  <2>2. Fits(w, i, x.rest, d, age, p)
    BY <2>1 DEF TimerPlaces
  <2>3. i * kTimingMinute \in Int
    BY <1>2
  <2>4. QED
    BY <1>2, <1>4, <2>2, <2>3 DEF Fits
<1>5. CASE w \in {"hour", "day"}
  <2>1. x \in W[w][i]
    BY <1>1, <1>5
  <2>2. Fits(w, i, x.rest, d, age, p)
    BY <2>1 DEF TimerPlaces
  <2>3. QED
    BY <1>5, <2>2 DEF Fits
<1>6. QED
  BY <1>3, <1>4, <1>5 DEF Wheels

(* The full minute.                                                          *)
LEMMA TimerFullMinute ==
  ASSUME NEW W, WheelsType(W), NEW t \in Timers, NEW d \in Int, NEW age \in Nat,
         TimerPlaces(W, t, d, age, kTimingMinute)
  PROVE  TimerPlaces(PopUp(W, "minute"), t, d, age, 0)
<1> DEFINE Z == PopUp(W, "minute")
<1>1. /\ 1 \in 1 .. Slots("minute")
      /\ \A w \in Wheels : \A i \in 1 .. Slots(w) : \A x :
              x \in Z[w][i] <=>
                IF w = "minute" THEN i + 1 \in 1 .. Slots(w) /\ x \in W[w][i + 1]
                ELSE \/ x \in W[w][i]
                     \/ /\ w = "second"
                        /\ \E y \in W["minute"][1] :
                             y.rest = i /\ x = [entry |-> y.entry, rest |-> 0]
  BY PopMinuteHolds
<1> HIDE DEF Z
<1> SUFFICES ASSUME NEW w \in Wheels, NEW i \in 1 .. Slots(w), NEW x \in Z[w][i],
                    x.entry = t
             PROVE  Fits(w, i, x.rest, d, age, 0)
  BY DEF TimerPlaces, Z
<1>2. /\ i \in Int /\ 1 <= i /\ kTimingMinute \in Int
      /\ (d % kTimingMinute) \in Int /\ (d % kTimingMinute) < kTimingMinute
  BY WheelSlots, WheelSizes
<1>3. CASE w = "second" /\ x \in W[w][i]
  <2>1. Fits(w, i, x.rest, d, age, kTimingMinute)
    BY <1>3 DEF TimerPlaces
  <2>2. QED
    BY <1>2, <1>3, <2>1 DEF Fits
<1>4. CASE w = "second" /\ x \notin W[w][i]
  <2>1. PICK y \in W["minute"][1] : y.rest = i /\ x = [entry |-> y.entry, rest |-> 0]
    BY <1>1, <1>4
  <2>2. y.entry = t
    BY <2>1
  <2>3. Fits("minute", 1, i, d, age, kTimingMinute)
    BY <1>1, <2>1, <2>2, WheelNames DEF TimerPlaces
  <2>4. QED
    BY <1>2, <1>4, <2>3 DEF Fits
<1>5. CASE w = "minute"
  <2>1. i + 1 \in 1 .. Slots(w) /\ x \in W[w][i + 1]
    BY <1>1, <1>5
  <2>2. Fits(w, i + 1, x.rest, d, age, kTimingMinute)
    BY <2>1 DEF TimerPlaces
  <2>3. /\ i * kTimingMinute \in Int
        /\ (i + 1) * kTimingMinute = i * kTimingMinute + kTimingMinute
    BY <1>2
  <2>4. QED
    BY <1>2, <1>5, <2>2, <2>3 DEF Fits
<1>6. CASE w \in {"hour", "day"}
  <2>1. x \in W[w][i]
    BY <1>1, <1>6
  <2>2. Fits(w, i, x.rest, d, age, kTimingMinute)
    BY <2>1 DEF TimerPlaces
  <2>3. QED
    BY <1>6, <2>2 DEF Fits
<1>7. QED
  BY <1>3, <1>4, <1>5, <1>6 DEF Wheels

(* A timer none of whose references was there before it was inserted.        *)
Fresh(Z, t, d) ==
  \A w \in Wheels : \A i \in 1 .. Slots(w) : \A x \in Z[w][i] :
    x.entry = t => /\ WheelFor(d) = w /\ d \div Unit(w) = i
                   /\ x.rest = (d % Unit(w))

LEMMA FreshFits ==
  ASSUME NEW Z, NEW t \in Timers, NEW d \in Int, Fresh(Z, t, d),
         NEW p \in 0 .. kTimingMinute,
         WheelFor(d) = "minute" => p < kTimingMinute
  PROVE  TimerPlaces(Z, t, d, 0, p)
<1> SUFFICES ASSUME NEW w \in Wheels, NEW i \in 1 .. Slots(w), NEW x \in Z[w][i],
                    x.entry = t
             PROVE  Fits(w, i, x.rest, d, 0, p)
  BY DEF TimerPlaces
<1>1. WheelFor(d) = w /\ d \div Unit(w) = i /\ x.rest = (d % Unit(w))
  BY DEF Fresh
<1>2. CASE w = "second"
  <2>1. d \div 1 = d
    OBVIOUS
  <2>2. i = d
    BY <1>1, <1>2, <2>1, WheelUnits
  <2>3. QED
    BY <1>1, <1>2, <2>2 DEF Fits
<1>3. CASE w = "minute"
  <2> DEFINE q == d \div kTimingMinute
             r == d % kTimingMinute
  <2>1. d \in Nat /\ kTimingMinute \in Nat \ {0}
    BY <1>1, <1>3, WheelChosen, WheelSizes
  <2>2. q \in Nat /\ r \in 0 .. kTimingMinute - 1 /\ d = kTimingMinute * q + r
    BY <2>1, Division
  <2>3. i = q /\ x.rest = r
    BY <1>1, <1>3, WheelUnits
  <2>4. kTimingMinute * q = q * kTimingMinute
    BY <2>1, <2>2
  <2> DEFINE n == q * kTimingMinute
  <2>5. n \in Int /\ d = n + r /\ p \in Int /\ 0 <= p /\ p < kTimingMinute /\ r \in Int
    BY <1>1, <1>3, <2>1, <2>2, <2>4
  <2>6. i * kTimingMinute = n
    BY <2>3
  <2> HIDE DEF q, n
  <2>7. d - kTimingMinute < 0 + n - p + r /\ 0 + n - p + r <= d
    BY <2>1, <2>5
  <2>8. QED
    BY <1>1, <1>3, <2>3, <2>6, <2>7 DEF Fits
<1>4. CASE w \in {"hour", "day"}
  BY <1>1, <1>4 DEF Fits
<1>5. QED
  BY <1>2, <1>3, <1>4 DEF Wheels

LEMMA FreshInserted ==
  ASSUME NEW W, WheelsType(W), NEW t \in Timers, t \notin References(W), NEW d \in Int
  PROVE  Fresh(InsertEntry(W, {[entry |-> t, rest |-> d]}), t, d)
<1> DEFINE Z == InsertEntry(W, {[entry |-> t, rest |-> d]})
<1>1. t \in Entries
  BY DEF Entries
<1>2. \A w \in Wheels : \A i \in 1 .. Slots(w) : \A x :
        x \in Z[w][i] <=>
          \/ x \in W[w][i]
          \/ /\ WheelFor(d) = w /\ d \div Unit(w) = i
             /\ x = [entry |-> t, rest |-> d % Unit(w)]
  BY <1>1, InsertOneHolds
<1> HIDE DEF Z
<1>3. \A w \in Wheels : \A i \in 1 .. Slots(w) : \A x \in W[w][i] : x.entry # t
  BY <1>1 DEF References
<1>4. \A r : [entry |-> t, rest |-> r].rest = r
  OBVIOUS
<1>5. Fresh(Z, t, d)
  BY <1>2, <1>3, <1>4 DEF Fresh
<1>6. QED
  BY <1>5 DEF Z

LEMMA FreshAgain ==
  ASSUME NEW W, WheelsType(W), delay \in [Timers -> Int], NEW S,
         NEW t \in Timers, t \notin References(W)
  PROVE  Fresh(RunAgain(W, S), t, delay[t])
<1> DEFINE Z == RunAgain(W, S)
<1>1. \A w \in Wheels : \A i \in 1 .. Slots(w) : \A x :
              x \in Z[w][i] <=>
                \/ x \in W[w][i]
                \/ \E u \in S \cap Timers :
                     /\ every[u]
                     /\ WheelFor(delay[u]) = w /\ delay[u] \div Unit(w) = i
                     /\ x = [entry |-> u, rest |-> delay[u] % Unit(w)]
  BY RunAgainHolds
<1> HIDE DEF Z
<1>2. \A w \in Wheels : \A i \in 1 .. Slots(w) : \A x \in W[w][i] : x.entry # t
  BY DEF References, Entries
<1>3. \A u, r : [entry |-> u, rest |-> r].entry = u /\ [entry |-> u, rest |-> r].rest = r
  OBVIOUS
<1> SUFFICES ASSUME NEW w \in Wheels, NEW i \in 1 .. Slots(w), NEW x \in Z[w][i],
                    x.entry = t
             PROVE  /\ WheelFor(delay[t]) = w /\ delay[t] \div Unit(w) = i
                    /\ x.rest = (delay[t] % Unit(w))
  BY DEF Fresh, Z
<1>4. PICK u \in S \cap Timers :
              /\ WheelFor(delay[u]) = w /\ delay[u] \div Unit(w) = i
              /\ x = [entry |-> u, rest |-> delay[u] % Unit(w)]
  BY <1>1, <1>2
<1>5. u = t /\ x.rest = (delay[u] % Unit(w))
  BY <1>3, <1>4
<1>6. QED
  BY <1>4, <1>5

(* A timer that does its work because the wheel of seconds dropped it.       *)
LEMMA DroppedInSecond ==
  ASSUME NEW W, WheelsType(W), NEW t \in Timers, NEW d \in Int, NEW age \in Nat,
         NEW p \in 0 .. kTimingMinute - 1, TimerPlaces(W, t, d, age, p),
         t \in References(W), t \notin References(PopUp(W, "second"))
  PROVE  /\ WheelFor(d) \in {"second", "minute"}
         /\ FiredOnTime(d, age + 1)
         /\ WheelFor(d) = "minute" => p + 1 < kTimingMinute
<1> DEFINE Z == PopUp(W, "second")
<1>1. \A w \in Wheels : \A i \in 1 .. Slots(w) : \A x :
        x \in Z[w][i] <=>
          IF w = "second" THEN i + 1 \in 1 .. Slots(w) /\ x \in W[w][i + 1]
          ELSE x \in W[w][i]
  BY PopSecondHolds
<1> HIDE DEF Z
<1>2. \A w \in Wheels : \A i \in 1 .. Slots(w) : \A x \in Z[w][i] : x.entry # t
  BY DEF References, Z, Entries
<1>3. PICK w \in Wheels : \E i \in 1 .. Slots(w) : \E x \in W[w][i] : x.entry = t
  BY DEF References
<1>4. PICK i \in 1 .. Slots(w) : \E x \in W[w][i] : x.entry = t
  BY <1>3
<1>5. PICK x \in W[w][i] : x.entry = t
  BY <1>4
<1>6. w = "second"
  BY <1>1, <1>2, <1>5
<1>7. i = 1
  <2> SUFFICES ASSUME i # 1 PROVE FALSE
    OBVIOUS
  <2>1. i - 1 \in 1 .. Slots(w) /\ (i - 1) + 1 = i
    BY WheelSlots
  <2>2. x \in Z[w][i - 1]
    BY <1>1, <1>5, <1>6, <2>1
  <2>3. QED
    BY <1>2, <1>5, <2>1, <2>2
<1>8. Fits("second", 1, x.rest, d, age, p)
  BY <1>5, <1>6, <1>7 DEF TimerPlaces
<1>9. (d % kTimingMinute) \in Int /\ (d % kTimingMinute) < kTimingMinute
      /\ kTimingMinute \in Int
  BY WheelSizes
<1>10. CASE WheelFor(d) = "second" /\ age + 1 = d
  BY <1>9, <1>10, WheelChosen DEF FiredOnTime
<1>11. CASE /\ WheelFor(d) = "minute" /\ 1 + p = (d % kTimingMinute)
            /\ d - kTimingMinute < age + 1 /\ age + 1 <= d
  BY <1>9, <1>11, WheelChosen DEF FiredOnTime
<1>12. QED
  BY <1>8, <1>10, <1>11 DEF Fits

(* One that does because the wheel of minutes did.                           *)
LEMMA DroppedInMinute ==
  ASSUME NEW W, WheelsType(W), NEW t \in Timers, NEW d \in Int, NEW age \in Nat,
         TimerPlaces(W, t, d, age, kTimingMinute),
         t \in References(W), t \notin References(PopUp(W, "minute"))
  PROVE  WheelFor(d) = "minute" /\ FiredOnTime(d, age)
<1> DEFINE Z == PopUp(W, "minute")
<1>1. /\ 1 \in 1 .. Slots("minute")
      /\ \A w \in Wheels : \A i \in 1 .. Slots(w) : \A x :
              x \in Z[w][i] <=>
                IF w = "minute" THEN i + 1 \in 1 .. Slots(w) /\ x \in W[w][i + 1]
                ELSE \/ x \in W[w][i]
                     \/ /\ w = "second"
                        /\ \E y \in W["minute"][1] :
                             y.rest = i /\ x = [entry |-> y.entry, rest |-> 0]
  BY PopMinuteHolds
<1> HIDE DEF Z
<1>2. \A w \in Wheels : \A i \in 1 .. Slots(w) : \A x \in Z[w][i] : x.entry # t
  BY DEF References, Z, Entries
<1>3. PICK w \in Wheels : \E i \in 1 .. Slots(w) : \E x \in W[w][i] : x.entry = t
  BY DEF References
<1>4. PICK i \in 1 .. Slots(w) : \E x \in W[w][i] : x.entry = t
  BY <1>3
<1>5. PICK x \in W[w][i] : x.entry = t
  BY <1>4
<1>6. w = "minute"
  BY <1>1, <1>2, <1>5
<1>7. i = 1
  <2> SUFFICES ASSUME i # 1 PROVE FALSE
    OBVIOUS
  <2>1. i - 1 \in 1 .. Slots(w) /\ (i - 1) + 1 = i
    BY WheelSlots
  <2>2. x \in Z[w][i - 1]
    BY <1>1, <1>5, <1>6, <2>1
  <2>3. QED
    BY <1>2, <1>5, <2>1, <2>2
<1>8. x.rest \in 0 .. kTimingMinute - 1
  <2>1. W["minute"][i] \in SUBSET Reference("minute")
    BY <1>6, WheelNames DEF WheelsType
  <2>2. x \in Reference("minute")
    BY <2>1, <1>5, <1>6
  <2>3. QED
    BY <2>2, WheelUnits DEF Reference
<1>9. x.rest = 0
  <2> SUFFICES ASSUME x.rest # 0 PROVE FALSE
    OBVIOUS
  <2>1. x.rest \in 1 .. Slots("second")
    BY <1>8, WheelSlots, WheelSizes
  <2> DEFINE z == [entry |-> x.entry, rest |-> 0]
  <2>2. z.entry = t
    BY <1>5
  <2>3. z \in Z["second"][x.rest]
    BY <1>1, <1>5, <1>6, <1>7, <2>1, WheelNames
  <2> HIDE DEF z
  <2>4. QED
    BY <1>2, <2>1, <2>2, <2>3, WheelNames
<1>10. Fits("minute", 1, 0, d, age, kTimingMinute)
  BY <1>5, <1>6, <1>7, <1>9 DEF TimerPlaces
<1>11. QED
  BY <1>10, WheelChosen, WheelSizes DEF Fits, FiredOnTime

(* What waits in the wheels of hours and days stays there.                   *)
LEMMA StaysInTick ==
  ASSUME NEW W, WheelsType(W), delay \in [Timers -> Int], NEW t, NEW w \in {"hour", "day"},
         Stays(W, t, w)
  PROVE  /\ Stays(PopUp(W, "second"), t, w)
         /\ Stays(PopUp(W, "minute"), t, w)
         /\ \A S : Stays(RunAgain(W, S), t, w)
<1>1. PICK i \in 1 .. Slots(w) : \E x \in W[w][i] : x.entry = t
  BY DEF Stays
<1>2. PICK x \in W[w][i] : x.entry = t
  BY <1>1
<1>3. w \in Wheels /\ w # "second" /\ w # "minute"
  BY WheelNames
<1>4. x \in PopUp(W, "second")[w][i]
  BY <1>3, PopSecondHolds
<1>5. x \in PopUp(W, "minute")[w][i]
  BY <1>3, PopMinuteHolds
<1>6. ASSUME NEW S PROVE x \in RunAgain(W, S)[w][i]
  BY <1>3, RunAgainHolds
<1>7. QED
  BY <1>2, <1>4, <1>5, <1>6 DEF Stays

LEMMA StaysInserted ==
  ASSUME NEW W, WheelsType(W), NEW t \in Entries, NEW d \in Int,
         WheelFor(d) \in {"hour", "day"}
  PROVE  Stays(InsertEntry(W, {[entry |-> t, rest |-> d]}), t, WheelFor(d))
<1> DEFINE Z == InsertEntry(W, {[entry |-> t, rest |-> d]})
           w == WheelFor(d)
           i == d \div Unit(w)
<1>1. \A n \in Nat \ {0}, k \in Nat : n <= d /\ d < n * (k + 1) =>
        d \div n \in 1 .. k
  <2> SUFFICES ASSUME NEW n \in Nat \ {0}, NEW k \in Nat, n <= d, d < n * (k + 1)
               PROVE  d \div n \in 1 .. k
    OBVIOUS
  <2> DEFINE q == d \div n
  <2>1. q \in Nat /\ (d % n) \in 0 .. n - 1 /\ d = n * q + (d % n)
    <3>1. d \in Nat
      OBVIOUS
    <3>2. QED
      BY <3>1, Division
  <2> DEFINE r == d % n
  <2> HIDE DEF q, r
  <2>2. q \in Nat /\ r \in Int /\ 0 <= r /\ r < n /\ d = n * q + r
    BY <2>1 DEF r
  <2>3. q # 0
    BY <2>2
  <2>4. q <= k
    <3> SUFFICES ASSUME q > k PROVE FALSE
      BY <2>2
    <3>1. \A a \in Nat, b \in Nat : a * b >= 0
      OBVIOUS
    <3>2. q - (k + 1) \in Nat
      BY <2>2
    <3>3. n * (q - (k + 1)) >= 0
      BY <3>1, <3>2
    <3>4. n * (q - (k + 1)) = n * q - n * (k + 1)
      BY <2>2
    <3>5. QED
      BY <2>2, <3>3, <3>4
  <2>5. QED
    BY <2>2, <2>3, <2>4 DEF q
<1>2. i \in 1 .. Slots(w)
  <2>1. CASE w = "hour"
    <3> DEFINE k == kTimingDay \div kTimingHour
    <3>1. k \in Nat /\ kTimingDay = kTimingHour * k
      <4>1. kTimingHour \in Nat \ {0} /\ kTimingDay \in Nat
        BY WheelSizes
      <4>2. k \in Nat /\ kTimingDay = kTimingHour * k + (kTimingDay % kTimingHour)
        BY <4>1, Division
      <4>3. QED
        BY <4>1, <4>2, WheelSizes
    <3> HIDE DEF k
    <3>2. k # 0
      BY <3>1, WheelSizes
    <3>3. kTimingHour <= d /\ d < kTimingHour * ((k - 1) + 1) /\ k - 1 \in Nat
          /\ kTimingHour \in Nat \ {0}
      BY <2>1, <3>1, <3>2, WheelChosen, WheelSizes
    <3>4. d \div kTimingHour \in 1 .. k - 1
      BY <1>1, <3>3
    <3>5. Slots(w) = k /\ Unit(w) = kTimingHour
      BY <2>1, WheelUnits DEF Slots, k
    <3>6. QED
      BY <3>1, <3>4, <3>5
  <2>2. CASE w = "day"
    <3>1. kTimingDay <= d /\ d < kTimingDay * (Days + 1) /\ kTimingDay \in Nat \ {0}
          /\ Days \in Nat
      BY <2>2, WheelChosen, WheelSizes
    <3>2. d \div kTimingDay \in 1 .. Days
      BY <1>1, <3>1
    <3>3. Slots(w) = Days /\ Unit(w) = kTimingDay
      BY <2>2, WheelUnits DEF Slots
    <3>4. QED
      BY <3>2, <3>3
  <2>3. QED
    BY <2>1, <2>2
<1>3. w \in Wheels
  BY WheelNames
<1>4. \A x : x = [entry |-> t, rest |-> d % Unit(w)] => x \in Z[w][i]
  BY <1>2, <1>3, InsertOneHolds
<1> DEFINE x == [entry |-> t, rest |-> d % Unit(w)]
<1>5. x.entry = t
  OBVIOUS
<1>6. x \in Z[w][i]
  BY <1>4
<1> HIDE DEF x, Z, i, w
<1>7. Stays(Z, t, w)
  BY <1>2, <1>5, <1>6 DEF Stays
<1>8. QED
  BY <1>7 DEF Z, w

-----------------------------------------------------------------------------
(* What ticks say of time.                                                   *)
LEMMA TimeStarts ==
  ASSUME NEW x \in {NotYet} \cup 0 .. Period
  PROVE  KeepsTime(0, 0, x)
  BY TimingWheelAssumption DEF KeepsTime, NotYet

LEMMA TimeOfTick ==
  ASSUME NEW n \in Nat, NEW s \in Nat, NEW x \in 0 .. Period,
         NEW elapsed \in 0 .. LongestTurn, x + elapsed > Period, KeepsTime(n, s, x)
  PROVE  KeepsTime(n + 1, s + elapsed, 0)
<1> DEFINE P == Period
           L == LongestTurn
           up == n * (P + L)
           down == (n - 1) * (P + 1)
<1>1. P \in Nat /\ L \in Nat /\ up \in Int /\ down \in Int
  BY TimingWheelAssumption
<1>2. (n + 1) * (P + L) = up + (P + L) /\ ((n + 1) - 1) * (P + 1) = down + (P + 1)
  BY <1>1
<1>3. /\ s <= up + (x + L)
      /\ n > 0 => s >= down + x
      /\ n = 0 => down = 0 - (P + 1)
  BY <1>1 DEF KeepsTime, NotYet
<1> HIDE DEF up, down, P, L
<1>4. x \in Int /\ elapsed \in Int /\ 0 <= x /\ x <= P /\ 0 <= elapsed /\ elapsed <= L /\ x + elapsed > P
  BY TimingWheelAssumption DEF P, L
<1>5. s + elapsed <= up + (P + L) + L
  BY <1>1, <1>3, <1>4
<1>6. s + elapsed >= down + (P + 1)
  BY <1>1, <1>3, <1>4
<1>7. s + elapsed <= (n + 1) * (P + L) + (0 + L) /\ s + elapsed >= ((n + 1) - 1) * (P + 1) + 0
  BY <1>1, <1>2, <1>5, <1>6
<1>8. QED
  BY <1>7 DEF KeepsTime, NotYet, P, L

LEMMA TimeOfWait ==
  ASSUME NEW n \in Nat, NEW s \in Nat, NEW x \in {NotYet} \cup 0 .. Period,
         NEW elapsed \in 0 .. LongestTurn, KeepsTime(n, s, x)
  PROVE  KeepsTime(n, s + elapsed, IF x = NotYet THEN 0 ELSE x + elapsed)
<1> DEFINE P == Period
           L == LongestTurn
           up == n * (P + L)
           down == (n - 1) * (P + 1)
<1>1. P \in Nat /\ L \in Nat /\ up \in Int /\ down \in Int
  BY TimingWheelAssumption
<1>2. /\ s <= up + (IF x = NotYet THEN 0 ELSE x + L)
      /\ n > 0 => x # NotYet /\ s >= down + x
  BY DEF KeepsTime
<1> HIDE DEF up, down, P, L
<1>3. elapsed \in Int /\ 0 <= elapsed /\ elapsed <= L /\ NotYet = -1
      /\ x \in Int /\ (x # NotYet => 0 <= x)
  BY TimingWheelAssumption DEF L, NotYet
<1>4. CASE x = NotYet
  <2>1. s + elapsed <= up + (0 + L) /\ ~(n > 0)
    BY <1>1, <1>2, <1>3, <1>4
  <2>2. QED
    BY <1>3, <1>4, <2>1 DEF KeepsTime, up, down, P, L
<1>5. CASE x # NotYet
  <2>1. s + elapsed <= up + (x + elapsed + L) /\ (n > 0 => s + elapsed >= down + (x + elapsed))
    BY <1>1, <1>2, <1>3, <1>5
  <2>2. x + elapsed # NotYet
    BY <1>3, <1>5
  <2>3. QED
    BY <1>5, <2>1, <2>2 DEF KeepsTime, up, down, P, L
<1>6. QED
  BY <1>4, <1>5

-----------------------------------------------------------------------------
(* The steps.                                                                *)
LEMMA DelayType ==
  ASSUME TypeOK
  PROVE  delay \in [Timers -> Int]
<1>1. Delays \cup {NotYet} \subseteq Int
  BY TimingWheelAssumption DEF NotYet
<1>2. QED
  BY <1>1 DEF TypeOK

LEMMA SameItself == \A W, e : SameReferences(W, W, e)
  BY DEF SameReferences

(* A step that leaves a timer and its references alone.                      *)
LEMMA TimerKept ==
  ASSUME NEW t \in Timers, TimerInv(t), SameReferences(m_wheels, m_wheels', t),
         delay'[t] = delay[t], ticks'[t] = ticks[t], m_tick' = m_tick,
         fired_after'[t] = fired_after[t], delay[t] \in Int
  PROVE  TimerInv(t)'
<1>1. t \in Entries
  BY DEF Entries
<1>2. /\ t \in References(m_wheels') <=> t \in References(m_wheels)
      /\ \A d, age, p : TimerPlaces(m_wheels, t, d, age, p) =>
                          TimerPlaces(m_wheels', t, d, age, p)
      /\ \A w \in Wheels : Stays(m_wheels, t, w) => Stays(m_wheels', t, w)
  BY <1>1, SameKeeps
<1>3. QED
  BY <1>2, WheelNames DEF TimerInv

LEMMA ConnKept ==
  ASSUME TypeOK, NEW c \in Conns, ConnInv(c), SameReferences(m_wheels, m_wheels', c),
         conn'[c] = conn[c] \/ conn'[c] = "closed",
         ticks'[c] = ticks[c], fired_after'[c] = fired_after[c]
  PROVE  ConnInv(c)'
<1>1. c \in Entries
  BY DEF Entries
<1>2. /\ \A left : ConnPlaces(m_wheels, c, left) => ConnPlaces(m_wheels', c, left)
      /\ \A left \in 1 .. Slots("second") :
           Held(m_wheels, c, left) => Held(m_wheels', c, left)
  BY <1>1, SameKeeps
<1>3. ticks[c] \in Nat
  BY <1>1 DEF TypeOK
<1>4. ticks[c] < MaxIdle => MaxIdle - ticks[c] \in 1 .. Slots("second")
  BY <1>3, IdleSlots
<1>5. QED
  BY <1>2, <1>4 DEF ConnInv

LEMMA InitInvariant == Init => IInv
<1> SUFFICES ASSUME Init PROVE IInv
  OBVIOUS
<1>1. \A w \in Wheels : \A i \in 1 .. Slots(w) : m_wheels[w][i] = {}
  BY DEF Init
<1>2. (0 % kTimingMinute) = 0
  BY WheelSizes
<1>3. TypeOK
  <2>1. WheelsType(m_wheels)
    BY DEF Init, WheelsType
  <2>2. 0 \in 0 .. kTimingDay - 1
    BY WheelSizes
  <2>3. /\ delay \in [Timers -> Delays \cup {NotYet}]
        /\ conn \in [Conns -> {"new", "open", "closed"}]
    BY DEF Init
  <2>4. /\ DOMAIN ticks = Entries /\ \A e \in Entries : ticks[e] \in Nat
        /\ DOMAIN time = Entries /\ \A e \in Entries : time[e] \in Nat
        /\ DOMAIN fired_after = Entries
        /\ \A e \in Entries : fired_after[e] \in Nat \cup {NotYet}
    BY DEF Init
  <2>5. QED
    BY <2>1, <2>2, <2>3, <2>4 DEF Init, TypeOK
<1>4. \A e \in Entries : KeepsTime(ticks[e], time[e], since)
  BY TimeStarts DEF Init
<1>5. \A c \in Conns : ConnInv(c)
  BY <1>1 DEF Init, ConnInv, ConnPlaces, Entries
<1>6. ASSUME NEW t \in Timers PROVE TimerInv(t)
  <2>1. /\ delay[t] = NotYet /\ ticks[t] = 0 /\ fired_after[t] = NotYet
    BY DEF Init, Entries
  <2>2. WheelFor(delay[t]) \notin Wheels
    BY <2>1, WheelChosen DEF NotYet
  <2>3. WheelFor(delay[t]) \notin {"hour", "day"}
    BY <2>2, WheelNames
  <2>4. FiredOnTime(delay[t], fired_after[t])
    BY <2>1 DEF FiredOnTime, NotYet
  <2>5. TimerPlaces(m_wheels, t, delay[t], ticks[t], m_tick % kTimingMinute)
    BY <1>1 DEF TimerPlaces
  <2>6. QED
    BY <2>1, <2>3, <2>4, <2>5 DEF TimerInv
<1>7. QED
  BY <1>3, <1>4, <1>5, <1>6 DEF IInv

LEMMA RunKeeps ==
  ASSUME IInv, NEW t \in Timers, NEW d \in Delays, NEW periodic \in BOOLEAN,
         Run(t, d, periodic)
  PROVE  IInv'
<1> DEFINE W == m_wheels
           p == m_tick % kTimingMinute
<1>1. /\ d \in Nat /\ t \in Entries /\ delay[t] = NotYet
      /\ t \in Timers /\ t \notin Conns
  BY TimingWheelAssumption DEF Run, Entries
<1>2. m_wheels' = InsertEntry(W, {[entry |-> t, rest |-> d]})
  BY DEF Run
<1>3. TypeOK /\ WheelsType(W) /\ delay \in [Timers -> Int]
  BY DelayType DEF IInv, TypeOK
<1>4. /\ delay' = [delay EXCEPT ![t] = d]
      /\ fired_after' = [fired_after EXCEPT ![t] =
                       IF t \in References(m_wheels') THEN NotYet ELSE 0]
      /\ UNCHANGED <<m_tick, since, conn, ticks, time>>
  BY DEF Run
<1>5. TypeOK'
  <2>1. WheelsType(m_wheels')
    <3>1. d \in Int
      BY <1>1
    <3>2. WheelsType(InsertEntry(W, {[entry |-> t, rest |-> d]}))
      BY <1>1, <1>3, <3>1, InsertOneHolds
    <3>3. QED
      BY <1>2, <3>2
  <2>2. delay' \in [Timers -> Delays \cup {NotYet}]
    BY <1>3, <1>4 DEF TypeOK
  <2>3. /\ DOMAIN fired_after' = Entries
        /\ \A e \in Entries : fired_after'[e] \in Nat \cup {NotYet}
    BY <1>3, <1>4 DEF TypeOK
  <2>4. QED
    BY <1>3, <1>4, <2>1, <2>2, <2>3 DEF TypeOK
<1>6. \A e \in Entries \ {t} : SameReferences(m_wheels, m_wheels', e)
  BY <1>1, <1>2, <1>3, InsertOneSame
<1>7. \A e \in Entries \ {t} : fired_after'[e] = fired_after[e]
  BY <1>3, <1>4 DEF TypeOK
<1>8. ASSUME NEW c \in Conns PROVE ConnInv(c)'
  <2>1. c \in Entries \ {t}
    BY <1>1 DEF Entries
  <2>2. ConnInv(c)
    BY DEF IInv
  <2>3. QED
    BY <1>3, <1>4, <1>6, <1>7, <2>1, <2>2, ConnKept
<1>9. ASSUME NEW u \in Timers, u # t PROVE TimerInv(u)'
  <2>1. u \in Entries \ {t} /\ TimerInv(u)
    BY <1>9 DEF Entries, IInv
  <2>2. delay'[u] = delay[u] /\ delay[u] \in Int
    BY <1>3, <1>4, <1>9
  <2>3. QED
    BY <1>4, <1>6, <1>7, <2>1, <2>2, TimerKept
<1>10. TimerInv(t)'
  <2>1. TimerInv(t)
    BY DEF IInv
  <2>2. t \notin References(W)
    <3>1. WheelFor(delay[t]) \notin Wheels
      BY <1>1, WheelChosen DEF NotYet
    <3>2. \A w \in Wheels : \A i, r : ~Fits(w, i, r, delay[t], ticks[t], p)
      BY <3>1, WheelNames DEF Fits
    <3>3. QED
      BY <2>1, <3>2 DEF TimerInv, TimerPlaces, References
  <2>3. ticks[t] = 0
    BY <2>1, <2>2 DEF TimerInv
  <2>4. Fresh(m_wheels', t, d)
    BY <1>1, <1>2, <1>3, <2>2, FreshInserted
  <2>5. p \in 0 .. kTimingMinute - 1
    BY <1>3, PhaseOfTick DEF TypeOK
  <2>6. TimerPlaces(m_wheels', t, d, 0, p)
    <3>1. p \in 0 .. kTimingMinute /\ p < kTimingMinute
      BY <2>5, WheelSizes
    <3>2. QED
      BY <1>1, <2>4, <3>1, FreshFits
  <2>7. delay'[t] = d /\ ticks'[t] = 0 /\ m_tick' = m_tick
        /\ fired_after'[t] = IF t \in References(m_wheels') THEN NotYet ELSE 0
    BY <1>1, <1>3, <1>4, <2>3 DEF TypeOK
  <2>8. FiredOnTime(d, fired_after'[t])
    BY <2>7 DEF FiredOnTime, NotYet
  <2>9. WheelFor(d) \in {"hour", "day"} =>
          Stays(m_wheels', t, WheelFor(d)) /\ fired_after'[t] = NotYet
    <3> SUFFICES ASSUME WheelFor(d) \in {"hour", "day"}
                 PROVE  Stays(m_wheels', t, WheelFor(d)) /\ fired_after'[t] = NotYet
      OBVIOUS
    <3>1. Stays(m_wheels', t, WheelFor(d))
      BY <1>1, <1>2, <1>3, StaysInserted
    <3>2. t \in References(m_wheels')
      BY <1>1, <3>1, WheelNames DEF Stays, References
    <3>3. QED
      BY <2>7, <3>1, <3>2
  <2>10. QED
    BY <2>6, <2>7, <2>8, <2>9 DEF TimerInv
<1>11. \A e \in Entries : KeepsTime(ticks'[e], time'[e], since')
  BY <1>4 DEF IInv
<1>12. QED
  BY <1>5, <1>8, <1>9, <1>10, <1>11 DEF IInv

(* A connection's entry is inserted, when it joins the loop or is in use.    *)
LEMMA ConnInsertKeeps ==
  ASSUME IInv, NEW c \in Conns,
         m_wheels' = InsertEntry(m_wheels, {[entry |-> c, rest |-> MaxIdle]}),
         conn' = [conn EXCEPT ![c] = "open"],
         DOMAIN ticks' = Entries, ticks'[c] = 0,
         \A e \in Entries \ {c} : ticks'[e] = ticks[e],
         DOMAIN time' = Entries, \A e \in Entries : time'[e] \in Nat,
         \A e \in Entries : KeepsTime(ticks'[e], time'[e], since),
         UNCHANGED <<m_tick, since, delay, fired_after>>
  PROVE  IInv'
<1>1. c \in Entries /\ c \notin Timers /\ MaxIdle \in Int
  BY TimingWheelAssumption, IdleSlots DEF Entries
<1>2. TypeOK /\ WheelsType(m_wheels) /\ delay \in [Timers -> Int]
  BY DelayType DEF IInv, TypeOK
<1>3. \A e \in Entries \ {c} : SameReferences(m_wheels, m_wheels', e)
  BY <1>1, <1>2, InsertOneSame
<1>4. ConnPlaces(m_wheels', c, MaxIdle) /\ Held(m_wheels', c, MaxIdle)
  <2>1. ConnPlaces(m_wheels, c, MaxIdle)
    BY DEF IInv, ConnInv
  <2>2. QED
    BY <1>2, <2>1, ConnInserted
<1>5. TypeOK'
  <2>1. WheelsType(InsertEntry(m_wheels, {[entry |-> c, rest |-> MaxIdle]}))
    BY <1>1, <1>2, InsertOneHolds
  <2>2. WheelsType(m_wheels')
    BY <2>1
  <2>3. conn' \in [Conns -> {"new", "open", "closed"}]
    BY <1>2 DEF TypeOK
  <2>4. \A e \in Entries : ticks'[e] \in Nat
    BY <1>2 DEF TypeOK
  <2>5. QED
    BY <1>2, <2>2, <2>3, <2>4 DEF TypeOK
<1>6. ConnInv(c)'
  <2>1. conn'[c] = "open"
    BY <1>2 DEF TypeOK
  <2>2. MaxIdle - 0 = MaxIdle /\ 0 < MaxIdle
    BY IdleSlots
  <2>3. fired_after'[c] \in {NotYet, MaxIdle}
    BY DEF IInv, ConnInv
  <2>4. QED
    BY <1>4, <2>1, <2>2, <2>3 DEF ConnInv
<1>7. ASSUME NEW b \in Conns, b # c PROVE ConnInv(b)'
  <2>1. b \in Entries \ {c} /\ ConnInv(b) /\ conn'[b] = conn[b]
    BY <1>2, <1>7 DEF Entries, IInv, TypeOK
  <2>2. QED
    BY <1>2, <1>3, <2>1, ConnKept
<1>8. ASSUME NEW t \in Timers PROVE TimerInv(t)'
  <2>1. t \in Entries \ {c} /\ TimerInv(t) /\ delay[t] \in Int
    BY <1>1, <1>2 DEF Entries, IInv
  <2>2. QED
    BY <1>3, <2>1, TimerKept
<1>9. \A e \in Entries : KeepsTime(ticks'[e], time'[e], since')
  OBVIOUS
<1>10. QED
  BY <1>5, <1>6, <1>7, <1>8, <1>9 DEF IInv

(* A step that leaves all references and ages alone.                         *)
LEMMA SameKeepsAll ==
  ASSUME IInv, UNCHANGED <<m_wheels, m_tick, since, delay, ticks, time, fired_after>>,
         conn' \in [Conns -> {"new", "open", "closed"}],
         \A c \in Conns : conn'[c] = conn[c] \/ conn'[c] = "closed"
  PROVE  IInv'
<1>1. TypeOK /\ delay \in [Timers -> Int]
  BY DelayType DEF IInv
<1>2. TypeOK'
  BY <1>1 DEF TypeOK
<1>3. ASSUME NEW c \in Conns PROVE ConnInv(c)'
  <2>1. ConnInv(c) /\ SameReferences(m_wheels, m_wheels', c)
    BY SameItself DEF IInv
  <2>2. QED
    BY <1>1, <2>1, ConnKept
<1>4. ASSUME NEW t \in Timers PROVE TimerInv(t)'
  <2>1. TimerInv(t) /\ SameReferences(m_wheels, m_wheels', t) /\ delay[t] \in Int
    BY <1>1, SameItself DEF IInv
  <2>2. QED
    BY <2>1, TimerKept
<1>5. \A e \in Entries : KeepsTime(ticks'[e], time'[e], since')
  BY DEF IInv
<1>6. QED
  BY <1>2, <1>3, <1>4, <1>5 DEF IInv

LEMMA AcceptKeeps ==
  ASSUME IInv, NEW c \in Conns, Accept(c)
  PROVE  IInv'
<1>1. ConnInv(c) /\ TypeOK /\ \A e \in Entries : KeepsTime(ticks[e], time[e], since)
  BY DEF IInv
<1>2. ticks[c] = 0
  BY <1>1 DEF ConnInv, Accept
<1>3. QED
  BY <1>1, <1>2, ConnInsertKeeps DEF Accept, TypeOK

LEMMA TrafficKeeps ==
  ASSUME IInv, NEW c \in Conns, Traffic(c)
  PROVE  IInv'
<1>1. TypeOK /\ \A e \in Entries : KeepsTime(ticks[e], time[e], since)
  BY DEF IInv
<1>2. c \in Entries /\ conn[c] = "open"
  BY DEF Entries, Traffic
<1>3. CASE c \in References(m_wheels)
  <2>1. /\ m_wheels' = InsertEntry(m_wheels, {[entry |-> c, rest |-> MaxIdle]})
        /\ ticks' = [ticks EXCEPT ![c] = 0] /\ time' = [time EXCEPT ![c] = 0]
        /\ UNCHANGED <<m_tick, since, delay, conn, fired_after>>
    BY <1>3 DEF Traffic
  <2>2. conn' = [conn EXCEPT ![c] = "open"]
    BY <1>1, <1>2, <2>1 DEF TypeOK
  <2>3. /\ DOMAIN ticks' = Entries /\ ticks'[c] = 0
        /\ \A e \in Entries \ {c} : ticks'[e] = ticks[e]
        /\ DOMAIN time' = Entries /\ time'[c] = 0
        /\ \A e \in Entries \ {c} : time'[e] = time[e]
    BY <1>1, <1>2, <2>1 DEF TypeOK
  <2>4. \A e \in Entries : time'[e] \in Nat
    BY <1>1, <2>3 DEF TypeOK
  <2>5. KeepsTime(0, 0, since)
    BY <1>1, TimeStarts DEF TypeOK
  <2>6. \A e \in Entries : KeepsTime(ticks'[e], time'[e], since)
    BY <1>1, <2>3, <2>5
  <2>7. QED
    BY <2>1, <2>2, <2>3, <2>4, <2>6, ConnInsertKeeps
<1>4. CASE c \notin References(m_wheels)
  <2>1. UNCHANGED <<m_wheels, m_tick, since, delay, ticks, time, fired_after, conn>>
    BY <1>4 DEF Traffic
  <2>2. QED
    BY <1>1, <2>1, SameKeepsAll DEF TypeOK
<1>5. QED
  BY <1>3, <1>4

LEMMA PeerClosesKeeps ==
  ASSUME IInv, NEW c \in Conns, PeerCloses(c)
  PROVE  IInv'
<1>1. TypeOK
  BY DEF IInv
<1>2. QED
  BY <1>1, SameKeepsAll DEF PeerCloses, TypeOK

LEMMA PostKeeps ==
  ASSUME IInv, NEW t \in Timers, Post(t)
  PROVE  IInv'
<1>1. TypeOK
  BY DEF IInv
<1>2. QED
  BY <1>1, SameKeepsAll DEF Post, TypeOK

(* Entries whose ticks count.                                                *)
LEMMA CountedIs ==
  /\ \A c \in Conns : c \in Counted <=> conn[c] = "open"
  /\ \A t \in Timers : t \in Counted <=>
       t \in References(m_wheels) /\ WheelFor(delay[t]) \in {"second", "minute"}
  BY TimingWheelAssumption DEF Counted

LEMMA TimerOfNoWheel ==
  ASSUME NEW W, NEW t, NEW d, NEW a, NEW b, NEW p, NEW q,
         WheelFor(d) \notin {"second", "minute"}, TimerPlaces(W, t, d, a, p)
  PROVE  TimerPlaces(W, t, d, b, q)
  BY DEF TimerPlaces, Fits

LEMMA TimerOfNoReference ==
  ASSUME NEW W, NEW t \in Entries, NEW d, NEW a, NEW p, t \notin References(W)
  PROVE  TimerPlaces(W, t, d, a, p)
  BY DEF TimerPlaces, References

LEMMA WaitKeeps ==
  ASSUME IInv, NEW elapsed \in 0 .. LongestTurn, Wait(elapsed)
  PROVE  IInv'
<1>1. TypeOK /\ delay \in [Timers -> Int]
  BY DelayType DEF IInv
<1>2. /\ elapsed \in Nat
      /\ since' = IF since = NotYet THEN 0 ELSE since + elapsed
      /\ since # NotYet => ~(since + elapsed > Period)
      /\ UNCHANGED <<m_wheels, m_tick, delay, conn, fired_after>>
  BY TimingWheelAssumption DEF Wait, Due
<1>3. /\ time' = [e \in Entries |-> IF e \in Counted THEN time[e] + elapsed ELSE 0]
      /\ ticks' = [e \in Entries |-> IF e \in Counted THEN ticks[e] + 0 ELSE 0]
  BY DEF Wait, Older
<1>4. \A e \in Entries : ticks[e] \in Nat /\ time[e] \in Nat
  BY <1>1 DEF TypeOK
<1>5. \A e \in Entries : /\ e \in Counted => ticks'[e] = ticks[e] /\ time'[e] = time[e] + elapsed
                         /\ e \notin Counted => ticks'[e] = 0 /\ time'[e] = 0
  BY <1>3, <1>4
<1>6. since' \in {NotYet} \cup 0 .. Period
  BY <1>1, <1>2, TimingWheelAssumption DEF TypeOK, NotYet
<1>7. TypeOK'
  <2>1. /\ DOMAIN ticks' = Entries /\ \A e \in Entries : ticks'[e] \in Nat
        /\ DOMAIN time' = Entries /\ \A e \in Entries : time'[e] \in Nat
    BY <1>2, <1>3, <1>4
  <2>2. QED
    BY <1>1, <1>2, <1>6, <2>1 DEF TypeOK
<1>8. ASSUME NEW e \in Entries PROVE KeepsTime(ticks'[e], time'[e], since')
  <2>1. CASE e \in Counted
    <3>1. KeepsTime(ticks[e], time[e], since) /\ since \in {NotYet} \cup 0 .. Period
      BY <1>1 DEF IInv, TypeOK
    <3>2. KeepsTime(ticks[e], time[e] + elapsed, IF since = NotYet THEN 0 ELSE since + elapsed)
      BY <1>4, <3>1, TimeOfWait
    <3>3. QED
      BY <1>2, <1>5, <2>1, <3>2
  <2>2. CASE e \notin Counted
    BY <1>5, <1>6, <2>2, TimeStarts
  <2>3. QED
    BY <2>1, <2>2
<1>9. ASSUME NEW c \in Conns PROVE ConnInv(c)'
  <2>1. ConnInv(c) /\ c \in Entries
    BY DEF IInv, Entries
  <2>2. conn[c] = "open" => ticks'[c] = ticks[c]
    BY <1>5, <2>1, CountedIs
  <2>3. conn[c] # "open" => ticks'[c] = 0
    BY <1>5, <2>1, CountedIs
  <2>4. QED
    BY <1>2, <2>1, <2>2, <2>3 DEF ConnInv
<1>10. ASSUME NEW t \in Timers PROVE TimerInv(t)'
  <2>1. TimerInv(t) /\ t \in Entries
    BY DEF IInv, Entries
  <2> DEFINE p == m_tick % kTimingMinute
  <2>2. TimerPlaces(m_wheels, t, delay[t], ticks'[t], p)
    <3>1. CASE t \in Counted
      BY <1>5, <2>1, <3>1 DEF TimerInv
    <3>2. CASE t \notin References(m_wheels)
      BY <2>1, <3>2, TimerOfNoReference
    <3>3. CASE WheelFor(delay[t]) \notin {"second", "minute"}
      BY <2>1, <3>3, TimerOfNoWheel DEF TimerInv
    <3>4. QED
      BY <3>1, <3>2, <3>3, CountedIs
  <2>3. t \notin References(m_wheels) => ticks'[t] = 0
    BY <1>5, <2>1, CountedIs
  <2>4. QED
    BY <1>2, <2>1, <2>2, <2>3 DEF TimerInv
<1>11. QED
  BY <1>7, <1>8, <1>9, <1>10 DEF IInv

-----------------------------------------------------------------------------
(* A tick in its stages: the wheel of seconds turns, periodic timers come    *)
(* again, the wheel of minutes turns at a full minute, and they come again.  *)
Turned == PopUp(m_wheels, "second")
Fired == References(m_wheels) \ References(Turned)
Again == RunAgain(Turned, Fired)
FullMinute == ((m_tick + 1) % kTimingMinute) = 0
TurnedAll == IF FullMinute THEN PopUp(Again, "minute") ELSE Again
FiredLater == References(Again) \ References(TurnedAll)
Expired == Fired \cup FiredLater

LEMMA OnTimerStages ==
  ASSUME TypeOK, NEW elapsed \in 0 .. LongestTurn, OnTimer(elapsed)
  PROVE  /\ since # NotYet /\ since + elapsed > Period /\ since' = 0
         /\ m_tick' = ((m_tick + 1) % kTimingDay)
         /\ m_wheels' = RunAgain(TurnedAll, FiredLater)
         /\ conn' = [c \in Conns |-> IF c \in Expired THEN "closed" ELSE conn[c]]
         /\ fired_after' = [e \in Entries |->
              IF e \in Expired \cap Counted THEN ticks[e] + 1 ELSE fired_after[e]]
         /\ time' = [e \in Entries |->
              IF e \in Counted \ Expired THEN time[e] + elapsed ELSE 0]
         /\ ticks' = [e \in Entries |->
              IF e \in Counted \ Expired THEN ticks[e] + 1 ELSE 0]
         /\ delay' = delay
<1>1. m_tick + 1 \in Nat
  BY WheelSizes DEF TypeOK
<1>2. CoarserWheels(m_tick + 1) = IF FullMinute THEN {"minute"} ELSE {}
  BY <1>1, CoarserWheelsPopped DEF FullMinute
<1>3. (CHOOSE w \in {"minute"} : TRUE) = "minute"
  OBVIOUS
<1> DEFINE coarser == CoarserWheels(m_tick + 1)
           wheel == CHOOSE w \in coarser : TRUE
           second == IF coarser = {} THEN Again ELSE PopUp(Again, wheel)
           later == References(Again) \ References(second)
<1>4. /\ since # NotYet /\ since + elapsed > Period /\ since' = 0
      /\ m_tick' = ((m_tick + 1) % kTimingDay)
      /\ delay' = delay
  BY DEF OnTimer, Due
<1>5. m_wheels' = RunAgain(second, later)
  BY DEF OnTimer, Turned, Fired, Again
<1>6. /\ conn' = [c \in Conns |-> IF c \in Fired \cup later THEN "closed" ELSE conn[c]]
      /\ fired_after' = [e \in Entries |->
           IF e \in (Fired \cup later) \cap Counted THEN ticks[e] + 1 ELSE fired_after[e]]
      /\ time' = [e \in Entries |->
           IF e \in Counted \ (Fired \cup later) THEN time[e] + elapsed ELSE 0]
      /\ ticks' = [e \in Entries |->
           IF e \in Counted \ (Fired \cup later) THEN ticks[e] + 1 ELSE 0]
  BY DEF OnTimer, Turned, Fired, Again
<1>7. coarser = IF FullMinute THEN {"minute"} ELSE {}
  BY <1>2
<1>8. FullMinute => wheel = "minute"
  BY <1>3, <1>7
<1> HIDE DEF coarser, wheel
<1>9. second = TurnedAll
  BY <1>7, <1>8 DEF TurnedAll
<1> HIDE DEF second
<1>10. later = FiredLater
  BY <1>9 DEF FiredLater
<1> HIDE DEF later
<1>11. QED
  BY <1>4, <1>5, <1>6, <1>9, <1>10 DEF Expired

LEMMA StageTypes ==
  ASSUME TypeOK
  PROVE  /\ WheelsType(m_wheels) /\ WheelsType(Turned) /\ WheelsType(Again)
         /\ WheelsType(TurnedAll) /\ WheelsType(RunAgain(TurnedAll, FiredLater))
         /\ delay \in [Timers -> Int]
         /\ m_tick % kTimingMinute \in 0 .. kTimingMinute - 1
<1>1. WheelsType(m_wheels) /\ delay \in [Timers -> Int]
  BY DelayType DEF TypeOK
<1>2. WheelsType(Turned)
  BY <1>1, PopSecondHolds DEF Turned
<1>3. WheelsType(Again)
  BY <1>1, <1>2, RunAgainHolds DEF Again
<1>4. WheelsType(TurnedAll)
  BY <1>3, PopMinuteHolds DEF TurnedAll
<1>5. WheelsType(RunAgain(TurnedAll, FiredLater))
  BY <1>1, <1>4, RunAgainHolds
<1>6. QED
  BY <1>1, <1>2, <1>3, <1>4, <1>5, PhaseOfTick DEF TypeOK

(* A connection in a tick: its references move up by one slot and no stage   *)
(* after that touches them; it expires when its last tick has come.          *)
LEMMA ConnInTick ==
  ASSUME TypeOK, NEW c \in Conns, NEW left \in Int, ConnPlaces(m_wheels, c, left)
  PROVE  LET Z == RunAgain(TurnedAll, FiredLater)
         IN  /\ ConnPlaces(Z, c, left - 1)
             /\ left \in 2 .. MaxIdle /\ Held(m_wheels, c, left) =>
                  Held(Z, c, left - 1) /\ c \notin Expired
             /\ left = 1 /\ Held(m_wheels, c, left) => c \in Expired
<1> DEFINE Z == RunAgain(TurnedAll, FiredLater)
<1>1. /\ WheelsType(m_wheels) /\ WheelsType(Turned) /\ WheelsType(Again)
      /\ WheelsType(TurnedAll) /\ delay \in [Timers -> Int]
  BY StageTypes
<1>2. c \in Entries /\ c \notin Timers
  BY TimingWheelAssumption DEF Entries
<1>3. ConnPlaces(Turned, c, left - 1) /\ left - 1 \in Int
  BY <1>1, ConnTicks DEF Turned
<1>4. SameReferences(Turned, Again, c)
  BY <1>1, <1>2, RunAgainSame DEF Again
<1>5. ConnPlaces(Again, c, left - 1)
  BY <1>2, <1>3, <1>4, SameKeeps
<1>6. SameReferences(Again, TurnedAll, c)
  <2>1. SameReferences(Again, PopUp(Again, "minute"), c)
    BY <1>1, <1>3, <1>5, ConnPopMinuteSame
  <2>2. QED
    BY <2>1, SameItself DEF TurnedAll
<1>7. SameReferences(TurnedAll, Z, c)
  BY <1>1, <1>2, RunAgainSame
<1>8. SameReferences(Turned, Z, c)
  BY <1>4, <1>6, <1>7 DEF SameReferences
<1>9. c \in References(Turned) <=> c \in References(TurnedAll)
  BY <1>2, <1>4, <1>6, SameKeeps
<1>10. c \in References(Turned) <=> c \in References(Again)
  BY <1>2, <1>4, SameKeeps
<1>11. ConnPlaces(Z, c, left - 1)
  BY <1>2, <1>3, <1>8, SameKeeps
<1>12. ASSUME left \in 2 .. MaxIdle, Held(m_wheels, c, left)
       PROVE  Held(Z, c, left - 1) /\ c \notin Expired
  <2>1. Held(Turned, c, left - 1)
    BY <1>1, <1>12, ConnTicks DEF Turned
  <2>2. left - 1 \in 1 .. MaxIdle
    BY <1>12, IdleSlots
  <2>3. Held(Z, c, left - 1)
    BY <1>2, <1>8, <2>1, <2>2, IdleSlots, SameKeeps
  <2>4. c \in References(Turned)
    BY <2>1, <2>2, HeldIsReferred
  <2>5. QED
    BY <1>9, <1>10, <2>3, <2>4 DEF Expired, Fired, FiredLater
<1>13. ASSUME left = 1, Held(m_wheels, c, left)
       PROVE  c \in Expired
  <2>1. 1 \in 1 .. MaxIdle
    BY IdleSlots
  <2>2. c \in References(m_wheels)
    BY <1>13, <2>1, HeldIsReferred
  <2>3. c \notin References(Turned)
    <3>1. left - 1 <= 0
      BY <1>13
    <3>2. QED
      BY <1>3, <3>1, NoneLeft
  <2>4. QED
    BY <2>2, <2>3 DEF Expired, Fired
<1> HIDE DEF Z
<1>14. QED
  BY <1>11, <1>12, <1>13 DEF Z

(* Nothing is referred to after a wheel has turned that was not before.      *)
LEMMA PopSecondRefers ==
  ASSUME NEW W, WheelsType(W), NEW e, e \in References(PopUp(W, "second"))
  PROVE  e \in References(W)
<1> DEFINE Z == PopUp(W, "second")
<1>1. \A w \in Wheels : \A i \in 1 .. Slots(w) : \A x :
        x \in Z[w][i] <=>
          IF w = "second" THEN i + 1 \in 1 .. Slots(w) /\ x \in W[w][i + 1]
          ELSE x \in W[w][i]
  BY PopSecondHolds
<1> HIDE DEF Z
<1>2. PICK w \in Wheels : \E i \in 1 .. Slots(w) : \E x \in Z[w][i] : x.entry = e
  BY DEF References, Z
<1>3. PICK i \in 1 .. Slots(w) : \E x \in Z[w][i] : x.entry = e
  BY <1>2
<1>4. PICK x \in Z[w][i] : x.entry = e
  BY <1>3
<1>5. PICK j \in 1 .. Slots(w) : x \in W[w][j]
  BY <1>1, <1>4
<1>6. e \in Entries
  BY DEF References
<1>7. QED
  BY <1>4, <1>5, <1>6 DEF References

LEMMA PopMinuteRefers ==
  ASSUME NEW W, WheelsType(W), NEW e, e \in References(PopUp(W, "minute"))
  PROVE  e \in References(W)
<1> DEFINE Z == PopUp(W, "minute")
<1>1. /\ 1 \in 1 .. Slots("minute")
      /\ \A w \in Wheels : \A i \in 1 .. Slots(w) : \A x :
              x \in Z[w][i] <=>
                IF w = "minute" THEN i + 1 \in 1 .. Slots(w) /\ x \in W[w][i + 1]
                ELSE \/ x \in W[w][i]
                     \/ /\ w = "second"
                        /\ \E y \in W["minute"][1] :
                             y.rest = i /\ x = [entry |-> y.entry, rest |-> 0]
  BY PopMinuteHolds
<1> HIDE DEF Z
<1>2. PICK w \in Wheels : \E i \in 1 .. Slots(w) : \E x \in Z[w][i] : x.entry = e
  BY DEF References, Z
<1>3. PICK i \in 1 .. Slots(w) : \E x \in Z[w][i] : x.entry = e
  BY <1>2
<1>4. PICK x \in Z[w][i] : x.entry = e
  BY <1>3
<1>5. \A a, r : [entry |-> a, rest |-> r].entry = a
  OBVIOUS
<1>6. PICK v \in Wheels : \E j \in 1 .. Slots(v) : \E y \in W[v][j] : y.entry = e
  BY <1>1, <1>4, <1>5, WheelNames
<1>7. e \in Entries
  BY DEF References
<1>8. QED
  BY <1>6, <1>7 DEF References

(* A timer in a tick.                                                        *)
LEMMA TimerInTick ==
  ASSUME TypeOK, NEW t \in Timers, TimerInv(t)
  PROVE  LET Z == RunAgain(TurnedAll, FiredLater)
             d == delay[t]
             p == (((m_tick + 1) % kTimingDay) % kTimingMinute)
         IN  /\ TimerPlaces(Z, t, d, IF t \in Expired THEN 0 ELSE ticks[t] + 1, p)
             /\ t \in References(Z) /\ t \notin Expired => t \in References(m_wheels)
             /\ t \notin References(Z) /\ t \notin Expired => t \notin References(m_wheels)
             /\ t \in Expired /\ t \in References(m_wheels) => FiredOnTime(d, ticks[t] + 1)
             /\ WheelFor(d) \in {"hour", "day"} => Stays(Z, t, WheelFor(d))
<1> DEFINE Z == RunAgain(TurnedAll, FiredLater)
           d == delay[t]
           p == m_tick % kTimingMinute
           age == IF t \in Fired THEN 0 ELSE ticks[t] + 1
<1>1. /\ WheelsType(m_wheels) /\ WheelsType(Turned) /\ WheelsType(Again)
      /\ WheelsType(TurnedAll) /\ delay \in [Timers -> Int]
      /\ p \in 0 .. kTimingMinute - 1
  BY StageTypes
<1>2. /\ t \in Entries /\ d \in Int /\ ticks[t] \in Nat /\ age \in Nat
      /\ ticks[t] + 1 \in Nat
  BY <1>1 DEF Entries, TypeOK
<1>3. TimerPlaces(m_wheels, t, d, ticks[t], p)
  BY DEF TimerInv
<1>4. TimerPlaces(Turned, t, d, ticks[t] + 1, p + 1)
  BY <1>1, <1>2, <1>3, TimerTicks DEF Turned
<1>5. t \in Fired => /\ FiredOnTime(d, ticks[t] + 1)
                     /\ WheelFor(d) = "minute" => p + 1 < kTimingMinute
  BY <1>1, <1>2, <1>3, DroppedInSecond DEF Fired, Turned
<1>6. p + 1 \in 0 .. kTimingMinute
  BY <1>1, WheelSizes
<1>7. t \notin Fired => SameReferences(Turned, Again, t)
  BY <1>1, <1>2, RunAgainSame DEF Again
<1>8. TimerPlaces(Again, t, d, age, p + 1)
  <2>1. CASE t \in Fired
    <3>1. t \notin References(Turned)
      BY <2>1 DEF Fired
    <3>2. Fresh(Again, t, d)
      BY <1>1, <3>1, FreshAgain DEF Again
    <3>3. TimerPlaces(Again, t, d, 0, p + 1)
      BY <1>2, <1>5, <1>6, <2>1, <3>2, FreshFits
    <3>4. QED
      BY <2>1, <3>3
  <2>2. CASE t \notin Fired
    <3>1. SameReferences(Turned, Again, t)
      BY <1>7, <2>2
    <3>2. TimerPlaces(Again, t, d, ticks[t] + 1, p + 1)
      BY <1>2, <1>4, <3>1, SameKeeps
    <3>3. QED
      BY <2>2, <3>2
  <2>3. QED
    BY <2>1, <2>2
<1> DEFINE q == (((m_tick + 1) % kTimingDay) % kTimingMinute)
<1>9. /\ FullMinute => q = 0 /\ p + 1 = kTimingMinute
      /\ ~FullMinute => q = p + 1 /\ p + 1 < kTimingMinute
  BY PhaseOfTick DEF TypeOK, FullMinute
<1>10. q \in 0 .. kTimingMinute /\ q < kTimingMinute
  BY <1>1, <1>9, WheelSizes
<1>11. TimerPlaces(TurnedAll, t, d, age, q)
  <2>1. CASE FullMinute
    <3>1. TimerPlaces(Again, t, d, age, kTimingMinute)
      BY <1>8, <1>9, <2>1
    <3>2. TimerPlaces(PopUp(Again, "minute"), t, d, age, 0)
      BY <1>1, <1>2, <3>1, TimerFullMinute
    <3>3. QED
      BY <1>9, <2>1, <3>2 DEF TurnedAll
  <2>2. CASE ~FullMinute
    BY <1>8, <1>9, <2>2 DEF TurnedAll
  <2>3. QED
    BY <2>1, <2>2
<1>12. t \in FiredLater => FiredOnTime(d, age)
  <2> SUFFICES ASSUME t \in FiredLater PROVE FiredOnTime(d, age)
    OBVIOUS
  <2>1. FullMinute
    BY DEF FiredLater, TurnedAll
  <2>2. TimerPlaces(Again, t, d, age, kTimingMinute)
    BY <1>8, <1>9, <2>1
  <2>3. t \in References(Again) /\ t \notin References(PopUp(Again, "minute"))
    BY <2>1 DEF FiredLater, TurnedAll
  <2>4. QED
    BY <1>1, <1>2, <2>2, <2>3, DroppedInMinute
<1>13. t \notin FiredLater => SameReferences(TurnedAll, Z, t)
  BY <1>1, <1>2, RunAgainSame
<1>14. TimerPlaces(Z, t, d, IF t \in Expired THEN 0 ELSE ticks[t] + 1, q)
  <2>1. CASE t \in FiredLater
    <3>1. t \notin References(TurnedAll)
      BY <2>1 DEF FiredLater
    <3>2. Fresh(Z, t, d)
      BY <1>1, <3>1, FreshAgain
    <3>3. TimerPlaces(Z, t, d, 0, q)
      BY <1>2, <1>10, <3>2, FreshFits
    <3>4. QED
      BY <2>1, <3>3 DEF Expired
  <2>2. CASE t \notin FiredLater
    <3>1. TimerPlaces(Z, t, d, age, q)
      BY <1>2, <1>11, <1>13, <2>2, SameKeeps
    <3>2. age = IF t \in Expired THEN 0 ELSE ticks[t] + 1
      BY <2>2 DEF Expired
    <3>3. QED
      BY <3>1, <3>2
  <2>3. QED
    BY <2>1, <2>2
<1>15. ASSUME t \notin Expired
       PROVE  t \in References(Z) <=> t \in References(m_wheels)
  <2>1. t \notin Fired /\ t \notin FiredLater
    BY <1>15 DEF Expired
  <2>2. t \in References(Z) <=> t \in References(TurnedAll)
    BY <1>2, <1>13, <2>1, SameKeeps
  <2>3. t \in References(Again) => t \in References(TurnedAll)
    BY <2>1 DEF FiredLater
  <2>4. t \in References(Turned) <=> t \in References(Again)
    BY <1>2, <1>7, <2>1, SameKeeps
  <2>5. t \in References(m_wheels) => t \in References(Turned)
    BY <2>1 DEF Fired
  <2>6. t \in References(TurnedAll) => t \in References(Again)
    <3>1. t \in References(PopUp(Again, "minute")) => t \in References(Again)
      BY <1>1, PopMinuteRefers
    <3>2. QED
      BY <3>1 DEF TurnedAll
  <2>7. t \in References(Turned) => t \in References(m_wheels)
    BY <1>1, PopSecondRefers DEF Turned
  <2>8. QED
    BY <2>2, <2>3, <2>4, <2>5, <2>6, <2>7
<1>16. t \in Expired => FiredOnTime(d, ticks[t] + 1)
  <2>1. CASE t \in Fired
    BY <1>5, <2>1
  <2>2. CASE t \notin Fired
    BY <1>12, <2>2 DEF Expired
  <2>3. QED
    BY <2>1, <2>2
<1>17. ASSUME WheelFor(d) \in {"hour", "day"}
       PROVE  Stays(Z, t, WheelFor(d))
  <2>1. Stays(m_wheels, t, WheelFor(d))
    BY <1>17 DEF TimerInv
  <2>2. Stays(Turned, t, WheelFor(d))
    BY <1>1, <1>17, <2>1, StaysInTick DEF Turned
  <2>3. Stays(Again, t, WheelFor(d))
    BY <1>1, <1>17, <2>2, StaysInTick DEF Again
  <2>4. Stays(TurnedAll, t, WheelFor(d))
    BY <1>1, <1>17, <2>3, StaysInTick DEF TurnedAll
  <2>5. QED
    BY <1>1, <1>17, <2>4, StaysInTick
<1> HIDE DEF Z, d, q
<1>18. QED
  BY <1>14, <1>15, <1>16, <1>17 DEF Z, d, q

LEMMA OnTimerKeeps ==
  ASSUME IInv, NEW elapsed \in 0 .. LongestTurn, OnTimer(elapsed)
  PROVE  IInv'
<1> DEFINE Z == RunAgain(TurnedAll, FiredLater)
<1>1. TypeOK
  BY DEF IInv
<1>2. /\ since # NotYet /\ since + elapsed > Period /\ since' = 0
      /\ m_tick' = ((m_tick + 1) % kTimingDay)
      /\ m_wheels' = Z
      /\ delay' = delay
  BY <1>1, OnTimerStages
<1>3. /\ conn' = [c \in Conns |-> IF c \in Expired THEN "closed" ELSE conn[c]]
      /\ fired_after' = [e \in Entries |->
              IF e \in Expired \cap Counted THEN ticks[e] + 1 ELSE fired_after[e]]
      /\ time' = [e \in Entries |->
              IF e \in Counted \ Expired THEN time[e] + elapsed ELSE 0]
      /\ ticks' = [e \in Entries |->
              IF e \in Counted \ Expired THEN ticks[e] + 1 ELSE 0]
  BY <1>1, OnTimerStages
<1>4. \A e \in Entries : ticks[e] \in Nat /\ time[e] \in Nat
                           /\ fired_after[e] \in Nat \cup {NotYet}
  BY <1>1 DEF TypeOK
<1>5. elapsed \in Nat /\ since \in 0 .. Period
  BY <1>1, <1>2, TimingWheelAssumption DEF TypeOK
<1>6. \A e \in Entries :
        /\ e \in Counted /\ e \notin Expired =>
             ticks'[e] = ticks[e] + 1 /\ time'[e] = time[e] + elapsed
        /\ e \notin Counted \/ e \in Expired => ticks'[e] = 0 /\ time'[e] = 0
        /\ e \in Counted /\ e \in Expired => fired_after'[e] = ticks[e] + 1
        /\ e \notin Counted \/ e \notin Expired => fired_after'[e] = fired_after[e]
  BY <1>3
<1>7. \A c \in Conns : conn'[c] = IF c \in Expired THEN "closed" ELSE conn[c]
  BY <1>3
<1>8. TypeOK'
  <2>1. /\ DOMAIN ticks' = Entries /\ DOMAIN time' = Entries /\ DOMAIN fired_after' = Entries
    BY <1>3
  <2>2. \A e \in Entries : ticks'[e] \in Nat /\ time'[e] \in Nat
                           /\ fired_after'[e] \in Nat \cup {NotYet}
    BY <1>4, <1>5, <1>6
  <2>3. conn' \in [Conns -> {"new", "open", "closed"}]
    BY <1>1, <1>3 DEF TypeOK
  <2>4. WheelsType(m_wheels')
    BY <1>1, <1>2, StageTypes
  <2>5. m_tick' \in 0 .. kTimingDay - 1
    BY <1>1, <1>2, PhaseOfTick DEF TypeOK
  <2>6. since' \in {NotYet} \cup 0 .. Period
    BY <1>2, TimingWheelAssumption
  <2>7. delay' \in [Timers -> Delays \cup {NotYet}]
    BY <1>1, <1>2 DEF TypeOK
  <2>8. QED
    BY <2>1, <2>2, <2>3, <2>4, <2>5, <2>6, <2>7 DEF TypeOK
<1>9. ASSUME NEW e \in Entries PROVE KeepsTime(ticks'[e], time'[e], since')
  <2>1. CASE e \in Counted /\ e \notin Expired
    <3>1. KeepsTime(ticks[e], time[e], since)
      BY DEF IInv
    <3>2. KeepsTime(ticks[e] + 1, time[e] + elapsed, 0)
      BY <1>2, <1>4, <1>5, <3>1, TimeOfTick
    <3>3. QED
      BY <1>2, <1>6, <2>1, <3>2
  <2>2. CASE e \notin Counted \/ e \in Expired
    <3>1. 0 \in {NotYet} \cup 0 .. Period
      BY TimingWheelAssumption
    <3>2. KeepsTime(0, 0, 0)
      BY <3>1, TimeStarts
    <3>3. QED
      BY <1>2, <1>6, <2>2, <3>2
  <2>3. QED
    BY <2>1, <2>2
<1>10. ASSUME NEW c \in Conns PROVE ConnInv(c)'
  <2>1. ConnInv(c) /\ c \in Entries /\ ticks[c] \in Nat /\ MaxIdle \in Nat
    BY <1>4, IdleSlots DEF IInv, Entries
  <2>2. c \in Counted <=> conn[c] = "open"
    BY CountedIs
  <2>3. ConnPlaces(m_wheels', c, MaxIdle)
    <3>1. ConnPlaces(Z, c, MaxIdle - 1)
      BY <1>1, <2>1, ConnInTick DEF ConnInv
    <3>2. QED
      BY <1>2, <2>1, <3>1, WheelSlots DEF ConnPlaces
  <2>4. CASE conn[c] # "open"
    <3>1. conn'[c] # "open" /\ ticks'[c] = 0 /\ fired_after'[c] = fired_after[c]
      BY <1>6, <1>7, <2>1, <2>2, <2>4
    <3>2. QED
      BY <2>1, <2>3, <3>1 DEF ConnInv
  <2>5. CASE conn[c] = "open"
    <3> DEFINE left == MaxIdle - ticks[c]
    <3>1. /\ left \in Int /\ left \in 1 .. MaxIdle
          /\ ConnPlaces(m_wheels, c, left) /\ Held(m_wheels, c, left)
      BY <2>1, <2>5 DEF ConnInv
    <3>2. CASE left = 1
      <4>1. c \in Expired
        BY <1>1, <3>1, <3>2, ConnInTick
      <4>2. conn'[c] = "closed" /\ fired_after'[c] = ticks[c] + 1
        BY <1>6, <1>7, <2>1, <2>2, <2>5, <4>1
      <4>3. ticks[c] + 1 = MaxIdle
        BY <2>1, <3>2
      <4>4. QED
        BY <2>3, <4>2, <4>3 DEF ConnInv
    <3>3. CASE left # 1
      <4>1. left \in 2 .. MaxIdle
        BY <2>1, <3>1, <3>3
      <4>2. ConnPlaces(Z, c, left - 1) /\ Held(Z, c, left - 1) /\ c \notin Expired
        BY <1>1, <3>1, <4>1, ConnInTick
      <4>3. conn'[c] = "open" /\ ticks'[c] = ticks[c] + 1 /\ fired_after'[c] = fired_after[c]
        BY <1>6, <1>7, <2>1, <2>2, <2>5, <4>2
      <4>4. MaxIdle - ticks'[c] = left - 1 /\ ticks'[c] < MaxIdle
        BY <2>1, <4>1, <4>3
      <4>5. fired_after'[c] \in {NotYet, MaxIdle}
        BY <2>1, <4>3 DEF ConnInv
      <4> HIDE DEF Z, left
      <4>6. QED
        BY <1>2, <2>3, <4>2, <4>3, <4>4, <4>5 DEF ConnInv
    <3>4. QED
      BY <3>2, <3>3
  <2>6. QED
    BY <2>4, <2>5
<1>11. ASSUME NEW t \in Timers PROVE TimerInv(t)'
  <2> DEFINE d == delay[t]
             p == (((m_tick + 1) % kTimingDay) % kTimingMinute)
  <2>1. TimerInv(t) /\ t \in Entries
    BY DEF IInv, Entries
  <2>2. /\ TimerPlaces(Z, t, d, IF t \in Expired THEN 0 ELSE ticks[t] + 1, p)
        /\ t \in References(Z) /\ t \notin Expired => t \in References(m_wheels)
        /\ t \notin References(Z) /\ t \notin Expired => t \notin References(m_wheels)
        /\ t \in Expired /\ t \in References(m_wheels) => FiredOnTime(d, ticks[t] + 1)
        /\ WheelFor(d) \in {"hour", "day"} => Stays(Z, t, WheelFor(d))
    BY <1>1, <2>1, TimerInTick
  <2>3. delay'[t] = d /\ (m_tick' % kTimingMinute) = p
    BY <1>2
  <2> HIDE DEF d, p, Z
  <2>4. t \in Counted <=> t \in References(m_wheels) /\ WheelFor(d) \in {"second", "minute"}
    BY CountedIs DEF d
  <2>5. TimerPlaces(Z, t, d, ticks'[t], p)
    <3>1. CASE t \in Expired
      BY <1>6, <2>1, <2>2, <3>1
    <3>2. CASE t \notin Expired /\ t \in Counted
      BY <1>6, <2>1, <2>2, <3>2
    <3>3. CASE t \notin Expired /\ t \notin References(m_wheels)
      BY <2>1, <2>2, <3>3, TimerOfNoReference
    <3>4. CASE WheelFor(d) \notin {"second", "minute"}
      BY <2>2, <3>4, TimerOfNoWheel
    <3>5. QED
      BY <2>4, <3>1, <3>2, <3>3, <3>4
  <2>6. t \notin References(Z) => ticks'[t] = 0
    BY <1>6, <2>1, <2>2, <2>4
  <2>7. WheelFor(d) \in {"hour", "day"} =>
          Stays(Z, t, WheelFor(d)) /\ fired_after'[t] = NotYet
    <3>1. WheelFor(d) \in {"hour", "day"} => fired_after[t] = NotYet
      BY <2>1 DEF TimerInv, d
    <3>2. WheelFor(d) \in {"hour", "day"} => t \notin Counted
      BY <2>4
    <3>3. QED
      BY <1>6, <2>1, <2>2, <3>1, <3>2
  <2>8. FiredOnTime(d, fired_after'[t])
    <3>1. CASE t \in Expired /\ t \in Counted
      BY <1>6, <2>1, <2>2, <2>4, <3>1
    <3>2. CASE ~(t \in Expired /\ t \in Counted)
      BY <1>6, <2>1, <3>2 DEF TimerInv, d
    <3>3. QED
      BY <3>1, <3>2
  <2>9. QED
    BY <1>2, <2>3, <2>5, <2>6, <2>7, <2>8 DEF TimerInv
<1>12. QED
  BY <1>8, <1>9, <1>10, <1>11 DEF IInv

LEMMA StepInvariant == IInv /\ [Next]_vars => IInv'
<1> SUFFICES ASSUME IInv, [Next]_vars PROVE IInv'
  OBVIOUS
<1>1. ASSUME NEW t \in Timers, NEW d \in Delays, NEW periodic \in BOOLEAN,
             RunHere(t, d, periodic) \/ RunPosted(t, d, periodic)
      PROVE  IInv'
  BY <1>1, RunKeeps DEF RunHere, RunPosted
<1>2. ASSUME NEW t \in Timers, Post(t)
      PROVE  IInv'
  BY <1>2, PostKeeps
<1>3. ASSUME NEW c \in Conns, Accept(c) \/ Traffic(c) \/ PeerCloses(c)
      PROVE  IInv'
  BY <1>3, AcceptKeeps, TrafficKeeps, PeerClosesKeeps
<1>4. ASSUME NEW elapsed \in 0 .. LongestTurn, Wait(elapsed) \/ OnTimer(elapsed)
      PROVE  IInv'
  BY <1>4, WaitKeeps, OnTimerKeeps
<1>5. CASE UNCHANGED vars
  <2>1. TypeOK
    BY DEF IInv
  <2>2. QED
    BY <1>5, <2>1, SameKeepsAll DEF vars, TypeOK
<1>6. QED
  BY <1>1, <1>2, <1>3, <1>4, <1>5 DEF Next

(* The wheels, ticks and ages of every run are those of the inductive        *)
(* invariant: each reference knows the ticks until it is dropped             *)
(* (TimingWheel::InsertEntry, PopUp, OnTimer).                               *)
THEOREM TimingWheelInvariant == Spec => []IInv
<1>1. Init => IInv
  BY InitInvariant
<1>2. IInv /\ [Next]_vars => IInv'
  BY StepInvariant
<1>3. QED
  BY <1>1, <1>2, PTL DEF Spec

(* What the invariant says of one entry's time.                              *)
LEMMA KeepsTimeIs ==
  ASSUME IInv, NEW e \in Entries
  PROVE  TicksKeepTime(e)
<1> DEFINE n == ticks[e]
           s == time[e]
           P == Period
           L == LongestTurn
           up == n * (P + L)
<1>1. /\ n \in Nat /\ s \in Nat /\ P \in Nat /\ L \in Nat /\ up \in Int
      /\ since \in {NotYet} \cup 0 .. P /\ NotYet = -1
  BY TimingWheelAssumption DEF IInv, TypeOK, NotYet
<1>2. KeepsTime(n, s, since)
  BY DEF IInv
<1>3. s <= up + (IF since = NotYet THEN 0 ELSE since + L)
  BY <1>2 DEF KeepsTime
<1>4. n > 0 => s >= (n - 1) * (P + 1) + since
  BY <1>2 DEF KeepsTime
<1>5. (n + 1) * (P + L) = up + (P + L)
  BY <1>1
<1> HIDE DEF up
<1>6. s <= up + (P + L)
  BY <1>1, <1>3
<1>7. s <= (n + 1) * (P + L)
  BY <1>5, <1>6
<1>8. QED
  BY <1>4, <1>7 DEF TicksKeepTime

(* A connection is closed for idleness after exactly MaxIdle ticks without a *)
(* read or a write, and the ticks are seconds stretched by less than a turn  *)
(* each (TcpConnection::enableCheckIdleTimeout, extendLifetime,              *)
(* TimingWheel::OnTimer).                                                    *)
THEOREM TimingWheelIdle == Spec => []IdleClosedOnTime
<1>1. IInv => IdleClosedOnTime
  BY KeepsTimeIs DEF IInv, ConnInv, IdleClosedOnTime, Entries
<1>2. QED
  BY <1>1, TimingWheelInvariant, PTL

(* A timer does its work after its delay, up to a minute early if it waited  *)
(* in the wheel of minutes, and never if it waits in a coarser one           *)
(* (TimingWheel::RunAfter, RunEvery, OnTimer).                               *)
THEOREM TimingWheelTimers == Spec => []TimersOnTime
<1>1. ASSUME IInv, NEW t \in Timers, t \in Counted
      PROVE  ticks[t] < delay[t]
  <2> DEFINE p == m_tick % kTimingMinute
             d == delay[t]
  <2>1. TimerPlaces(m_wheels, t, d, ticks[t], p) /\ TypeOK /\ t \in Entries
    <3>1. TimerInv(t) /\ TypeOK /\ t \in Entries
      BY <1>1 DEF IInv, Entries
    <3>2. QED
      BY <3>1 DEF TimerInv
  <2>2. t \in References(m_wheels) /\ WheelFor(d) \in {"second", "minute"}
    BY <1>1, CountedIs
  <2>3. PICK w \in Wheels : \E i \in 1 .. Slots(w) : \E x \in m_wheels[w][i] : x.entry = t
    BY <2>2 DEF References
  <2>4. PICK i \in 1 .. Slots(w) : \E x \in m_wheels[w][i] : x.entry = t
    BY <2>3
  <2>5. PICK x \in m_wheels[w][i] : x.entry = t
    BY <2>4
  <2>6. Fits(w, i, x.rest, d, ticks[t], p)
    BY <2>1, <2>5 DEF TimerPlaces
  <2>7. /\ i \in Int /\ 1 <= i /\ p \in 0 .. kTimingMinute - 1 /\ d \in Int
        /\ ticks[t] \in Nat /\ kTimingMinute \in Nat
        /\ (d % kTimingMinute) \in Int /\ 0 <= (d % kTimingMinute)
    <3>1. d \in Int
      BY <2>1, DelayType
    <3>2. QED
      BY <2>1, <3>1, WheelSlots, WheelSizes, PhaseOfTick DEF TypeOK
  <2>8. i * kTimingMinute \in Int /\ i * kTimingMinute >= kTimingMinute
    <3>1. \A a \in Nat, b \in Nat : a * b >= 0
      OBVIOUS
    <3>2. i - 1 \in Nat /\ (i - 1) * kTimingMinute >= 0
      BY <2>7, <3>1
    <3>3. (i - 1) * kTimingMinute = i * kTimingMinute - kTimingMinute
      BY <2>7
    <3>4. QED
      BY <2>7, <3>2, <3>3
  <2> DEFINE n == i * kTimingMinute
             r == d % kTimingMinute
  <2> HIDE DEF n, r, d, p
  <2>9. n \in Int /\ n >= kTimingMinute /\ r \in Int /\ 0 <= r
    BY <2>7, <2>8 DEF n, r
  <2>10. \/ ticks[t] + i = d \/ ticks[t] + i <= d
         \/ ticks[t] + n - p + r <= d
    BY <2>2, <2>6 DEF Fits, n, r
  <2>11. p \in Int /\ p < kTimingMinute
    BY <2>7
  <2>12. ticks[t] < d
    BY <2>7, <2>9, <2>10, <2>11
  <2>13. QED
    BY <2>12 DEF d
<1>2. ASSUME IInv, NEW t \in Timers, WheelFor(delay[t]) \in {"hour", "day"}
      PROVE  t \in References(m_wheels) /\ fired_after[t] = NotYet
  BY <1>2, WheelNames DEF IInv, TimerInv, Stays, References, Entries
<1>3. IInv => TimersOnTime
  BY <1>1, <1>2, KeepsTimeIs DEF IInv, TimerInv, FiredOnTime, TimersOnTime, Entries
<1>4. QED
  BY <1>3, TimingWheelInvariant, PTL

=============================================================================
