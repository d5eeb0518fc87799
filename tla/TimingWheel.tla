----------------------------- MODULE TimingWheel -----------------------------
(***************************************************************************)
(* The timers of an event loop (network::TimingWheel, driven by             *)
(* EventLoop::loop), and what the server uses them for: closing a           *)
(* TcpConnection on which nothing was read or written for too long.         *)
(*                                                                          *)
(* A wheel is a row of slots; a slot holds references to entries, and an    *)
(* entry does its work when its last reference is dropped.  An entry in a    *)
(* coarser wheel waits there with the delay that remains afterwards.         *)
(*                                                                          *)
(* Everything runs on the loop's thread.  Time is counted in units of which  *)
(* Period make the 1000 ms between ticks.                                    *)
(***************************************************************************)
EXTENDS Integers, FiniteSets

CONSTANTS
  Timers,       (* callbacks given to RunAfter or RunEvery                  *)
  Conns,        (* connections accepted by the loop                         *)
  Delays,       (* delays that RunAfter and RunEvery are given, in seconds  *)
  MaxIdle,      (* the argument of enableCheckIdleTimeout, in seconds       *)
  kTimingMinute, kTimingHour, kTimingDay,
  Days,         (* slots of the coarsest wheel                              *)
  Period,       (* one second                                               *)
  LongestTurn   (* the longest turn of the loop: epoll_wait's timeout       *)

ASSUME TimingWheelAssumption ==
  /\ Timers \cap Conns = {}
  /\ kTimingMinute \in Nat \ {0, 1}
  /\ kTimingHour \in Nat /\ kTimingHour > kTimingMinute
  /\ kTimingHour % kTimingMinute = 0
  /\ kTimingDay \in Nat /\ kTimingDay > kTimingHour
  /\ kTimingDay % kTimingHour = 0
  /\ Days \in Nat \ {0}
  /\ Delays \subseteq Nat
  /\ MaxIdle \in 1 .. kTimingMinute - 1
  /\ Period \in Nat \ {0} /\ LongestTurn \in Nat \ {0}

Entries == Timers \cup Conns

VARIABLES
  m_wheels,    (* the references in each slot of each wheel                 *)
  m_tick,      (* ticks, modulo a day                                       *)
  since,       (* time since m_last_ts, NotYet while that is 0              *)
  posted,      (* timers given by other threads, for the loop to insert     *)
  delay,       (* the delay a timer was given, NotYet before                *)
  every,       (* it was given to RunEvery                                  *)
  conn,        (* TcpConnection: new, open or closed                        *)
  ticks,       (* history: ticks since the entry was last inserted          *)
  time,        (* history: time since then                                  *)
  fired_after  (* history: ticks at which it last did its work, or NotYet   *)

vars == <<m_wheels, m_tick, since, posted, delay, every, conn, ticks, time,
          fired_after>>

NotYet == -1

Wheels == {"second", "minute", "hour", "day"}

Unit(w) == CASE w = "second" -> 1
             [] w = "minute" -> kTimingMinute
             [] w = "hour"   -> kTimingHour
             [] w = "day"    -> kTimingDay

Slots(w) == CASE w = "second" -> kTimingMinute
              [] w = "minute" -> kTimingHour \div kTimingMinute
              [] w = "hour"   -> kTimingDay \div kTimingHour
              [] w = "day"    -> Days

(* The wheel InsertEntry chooses; a delay of 0 or of too many days has none, *)
(* and the reference is dropped.                                             *)
WheelFor(d) == CASE d = 0 -> "none"
                 [] 0 < d /\ d < kTimingMinute -> "second"
                 [] kTimingMinute <= d /\ d < kTimingHour -> "minute"
                 [] kTimingHour <= d /\ d < kTimingDay -> "hour"
                 [] kTimingDay <= d /\ d < (Days + 1) * kTimingDay -> "day"
                 [] OTHER -> "none"

(* Insertion of a set of references, each to wait for a delay.               *)
InsertEntry(wheels, waits) ==
  [w \in Wheels |-> [i \in 1 .. Slots(w) |->
     wheels[w][i] \cup
       {[entry |-> x.entry, rest |-> x.rest % Unit(w)] :
          x \in {y \in waits : WheelFor(y.rest) = w
                                 /\ y.rest \div Unit(w) = i}}]]

(* The first slot is dropped: its entries are inserted again with the delay  *)
(* that remains.                                                             *)
PopUpDropping(wheels, wheel) ==
  [wheels EXCEPT ![wheel] = [i \in 1 .. Slots(wheel) |->
     IF i = Slots(wheel) THEN {} ELSE wheels[wheel][i + 1]]]

PopUp(wheels, wheel) ==
  InsertEntry([wheels EXCEPT ![wheel] =
                 [i \in 1 .. Slots(wheel) |->
                    IF i = Slots(wheel) THEN {} ELSE wheels[wheel][i + 1]]],
              wheels[wheel][1])

References(wheels) ==
  {e \in Entries :
     \E w \in Wheels : \E i \in 1 .. Slots(w) : \E x \in wheels[w][i] :
       x.entry = e}

(* RunEvery's callback inserts itself again.                                 *)
RunAgain(wheels, entries) ==
  InsertEntry(wheels, {[entry |-> e, rest |-> delay[e]] :
                         e \in {f \in entries \cap Timers : every[f]}})

(* The wheels that a tick pops after the first.                              *)
CoarserWheels(tick) ==
  CASE tick % kTimingMinute = 0 -> {"minute"}
    [] tick % kTimingMinute # 0 /\ tick % kTimingHour = 0 -> {"hour"}
    [] tick % kTimingMinute # 0 /\ tick % kTimingHour # 0
         /\ tick % kTimingDay = 0 -> {"day"}
    [] OTHER -> {}

-----------------------------------------------------------------------------
(* RunAfter or RunEvery.  A periodic timer that would be dropped at once     *)
(* calls itself without end and is left out.                                 *)
Run(t, d, periodic) ==
  /\ delay[t] = NotYet
  /\ periodic => WheelFor(d) # "none"
  /\ delay' = [delay EXCEPT ![t] = d]
  /\ every' = [every EXCEPT ![t] = periodic]
  /\ m_wheels' = InsertEntry(m_wheels, {[entry |-> t, rest |-> d]})
  /\ fired_after' = [fired_after EXCEPT ![t] =
                       IF t \in References(m_wheels') THEN NotYet ELSE 0]
  /\ UNCHANGED <<m_tick, since, conn, ticks, time>>

(* runAfter and runEvery of EventLoop: in the loop's thread at once, from    *)
(* another thread by a function that the loop runs before it looks at the    *)
(* time again.  What delay the function carries is open until then.          *)
RunHere(t, d, periodic) ==
  t \notin posted /\ Run(t, d, periodic) /\ UNCHANGED posted

Post(t) ==
  /\ delay[t] = NotYet /\ t \notin posted
  /\ posted' = posted \cup {t}
  /\ UNCHANGED <<m_wheels, m_tick, since, delay, every, conn, ticks, time,
                 fired_after>>

RunPosted(t, d, periodic) ==
  t \in posted /\ Run(t, d, periodic) /\ posted' = posted \ {t}

(* onAccet: the connection joins the loop and is watched.                    *)
Accept(c) ==
  /\ conn[c] = "new"
  /\ conn' = [conn EXCEPT ![c] = "open"]
  /\ m_wheels' = InsertEntry(m_wheels, {[entry |-> c, rest |-> MaxIdle]})
  /\ UNCHANGED <<m_tick, since, posted, delay, every, ticks, time, fired_after>>

(* A connection that reads or writes without extending its lifetime.         *)
TrafficNotExtending(c) ==
  /\ conn[c] = "open"
  /\ ticks' = [ticks EXCEPT ![c] = 0]
  /\ time' = [time EXCEPT ![c] = 0]
  /\ UNCHANGED <<m_wheels, m_tick, since, posted, delay, every, conn, fired_after>>

(* onRead or onWrite: extendLifetime inserts the entry again if it exists.   *)
Traffic(c) ==
  /\ conn[c] = "open"
  /\ IF c \in References(m_wheels)
     THEN /\ m_wheels' = InsertEntry(m_wheels, {[entry |-> c, rest |-> MaxIdle]})
          /\ ticks' = [ticks EXCEPT ![c] = 0]
          /\ time' = [time EXCEPT ![c] = 0]
     ELSE UNCHANGED <<m_wheels, ticks, time>>
  /\ UNCHANGED <<m_tick, since, posted, delay, every, conn, fired_after>>

(* Its entry stays in the wheel, and finds it closed.                        *)
PeerCloses(c) ==
  /\ conn[c] = "open"
  /\ conn' = [conn EXCEPT ![c] = "closed"]
  /\ UNCHANGED <<m_wheels, m_tick, since, posted, delay, every, ticks, time,
                 fired_after>>

-----------------------------------------------------------------------------
(* More than a second has passed since the last tick.                        *)
Due(elapsed) == since + elapsed > Period

(* The entries whose age counts: timers that wait in a wheel that turns, and *)
(* open connections.                                                         *)
Counted ==
  {t \in Timers : t \in References(m_wheels)
                    /\ WheelFor(delay[t]) \in {"second", "minute"}}
    \cup {c \in Conns : conn[c] = "open"}

Older(elapsed, tick) ==
  /\ time' = [e \in Entries |-> IF e \in Counted THEN time[e] + elapsed ELSE 0]
  /\ ticks' = [e \in Entries |-> IF e \in Counted THEN ticks[e] + tick ELSE 0]

(* A turn of the loop that does not tick.                                    *)
Wait(elapsed) ==
  /\ posted = {}
  /\ IF since = NotYet THEN since' = 0
     ELSE ~Due(elapsed) /\ since' = since + elapsed
  /\ Older(elapsed, 0)
  /\ UNCHANGED <<m_wheels, m_tick, posted, delay, every, conn, fired_after>>

(* A turn that does: one tick, however long it took.                         *)
OnTimer(elapsed) ==
  LET tick    == m_tick + 1
      first   == PopUp(m_wheels, "second")
      fired   == References(m_wheels) \ References(first)
      again   == RunAgain(first, fired)
      second  == IF CoarserWheels(tick) = {} THEN again
                 ELSE PopUp(again, CHOOSE w \in CoarserWheels(tick) : TRUE)
      fired2  == References(again) \ References(second)
      expired == fired \cup fired2
  IN  /\ posted = {}
      /\ since # NotYet /\ Due(elapsed)
      /\ since' = 0
      /\ m_tick' = tick % kTimingDay
      /\ m_wheels' = RunAgain(second, fired2)
      /\ conn' = [c \in Conns |-> IF c \in expired THEN "closed" ELSE conn[c]]
      /\ fired_after' = [e \in Entries |->
           IF e \in expired \cap Counted THEN ticks[e] + 1 ELSE fired_after[e]]
      /\ time' = [e \in Entries |->
           IF e \in Counted \ expired THEN time[e] + elapsed ELSE 0]
      /\ ticks' = [e \in Entries |->
           IF e \in Counted \ expired THEN ticks[e] + 1 ELSE 0]
      /\ UNCHANGED <<posted, delay, every>>

Init ==
  /\ m_wheels = [w \in Wheels |-> [i \in 1 .. Slots(w) |-> {}]]
  /\ m_tick = 0
  /\ since = NotYet
  /\ posted = {}
  /\ delay = [t \in Timers |-> NotYet]
  /\ every = [t \in Timers |-> FALSE]
  /\ conn = [c \in Conns |-> "new"]
  /\ ticks = [e \in Entries |-> 0]
  /\ time = [e \in Entries |-> 0]
  /\ fired_after = [e \in Entries |-> NotYet]

Next ==
  \/ \E t \in Timers, d \in Delays, periodic \in BOOLEAN :
       RunHere(t, d, periodic) \/ RunPosted(t, d, periodic)
  \/ \E t \in Timers : Post(t)
  \/ \E c \in Conns : Accept(c) \/ Traffic(c) \/ PeerCloses(c)
  \/ \E elapsed \in 0 .. LongestTurn : Wait(elapsed) \/ OnTimer(elapsed)

Spec == Init /\ [][Next]_vars

-----------------------------------------------------------------------------
(* Properties.                                                              *)

(* Time and ticks of an entry: a tick stands for more than one second and    *)
(* for less than a second and a turn of the loop.  n ticks take more than    *)
(* n - 1 seconds, since the first may come at once, and up to n + 1 of the   *)
(* longest.                                                                  *)
TicksKeepTime(e) ==
  /\ ticks[e] > 0 => time[e] >= (ticks[e] - 1) * (Period + 1) + since
  /\ time[e] <= (ticks[e] + 1) * (Period + LongestTurn)

(* A connection is closed for idleness after exactly MaxIdle ticks without a *)
(* read or a write, however its references are spread over the slots: never  *)
(* while it is in use, never later; and the ticks it counts are seconds,     *)
(* stretched by no more than a turn of the loop each.                        *)
IdleClosedOnTime ==
  \A c \in Conns :
    /\ conn[c] = "open" => ticks[c] < MaxIdle /\ TicksKeepTime(c)
    /\ fired_after[c] \in {NotYet, MaxIdle}

(* A timer of less than a minute does its work after as many ticks as it was *)
(* given seconds, each time if it is periodic.  One of less than an hour may *)
(* do it up to a minute less a tick early: InsertMinuteEntry counts from the *)
(* last full minute.  One of an hour or more never does its work: OnTimer    *)
(* pops the coarser wheels in the else-branches of a condition that holds    *)
(* whenever theirs do.                                                       *)
TimersOnTime ==
  \A t \in Timers :
    /\ t \in Counted => ticks[t] < delay[t] /\ TicksKeepTime(t)
    /\ fired_after[t] > 0 =>
         /\ fired_after[t] <= delay[t]
         /\ fired_after[t] > delay[t] - kTimingMinute
         /\ delay[t] < kTimingMinute => fired_after[t] = delay[t]
    /\ WheelFor(delay[t]) \in {"hour", "day"} =>
         t \in References(m_wheels) /\ fired_after[t] = NotYet
=============================================================================
