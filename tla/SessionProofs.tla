---------------------------- MODULE SessionProofs ----------------------------
(***************************************************************************)
(* Proofs about Session for every set of connections and loops, every       *)
(* placement of connections on loops, every set of names and every bound.   *)
(*                                                                          *)
(* Most of the argument is about who may touch a user: a user is handled by *)
(* the loop of its connection alone until it is registered, so a thread that *)
(* is between two steps of a handler finds its user as it left it.          *)
(***************************************************************************)
EXTENDS Session, FiniteSetTheorems, TLAPS

-----------------------------------------------------------------------------
(* The inductive invariant.                                                 *)

UserRecord ==
  [kind : {None, "play", "publish"}, session : 0 .. MaxSessions,
   destroyed : BOOLEAN]

(* A thread's record, and the one of the SetPublisher around it.             *)
Call ==
  [at : {"idle", "add_player", "set_publisher", "close_user", "clear"},
   user : Users \cup {NoOne}, session : 0 .. MaxSessions,
   name : Names \cup {None}, outer : {<<>>}]

ThreadRecord ==
  [at : {"idle", "add_player", "set_publisher", "close_user", "clear"},
   user : Users \cup {NoOne}, session : 0 .. MaxSessions,
   name : Names \cup {None}, outer : {<<>>} \cup [{1} -> Call]]

TypeOK ==
  /\ sessions_ \in [Names -> 0 .. MaxSessions]
  /\ created \in 0 .. MaxSessions
  /\ service_lock \in {None, Timer}
  /\ publisher_ \in [SessionIds -> Users \cup {NoOne}]
  /\ players_ \in [SessionIds -> SUBSET Users]
  /\ lock_ \in [SessionIds -> Loops \cup {None}]
  /\ user \in [Users -> UserRecord]
  /\ commands \in [Conns -> 0 .. MaxCommands]
  /\ open \in [Conns -> BOOLEAN]
  /\ tasks \in [Loops -> Seq(Conns)]
  /\ thread \in [Threads -> ThreadRecord]
  /\ raced \in SUBSET SessionIds

(* u is a user of session s.                                                 *)
UserOf(u, kind, s) == user[u].kind = kind /\ user[u].session = s

(* A connection's users are numbered by its commands, and each is in one     *)
(* session, of which its kind decides what it is.                            *)
Created ==
  \A u \in Users :
    user[u].kind # None => u[2] <= commands[u[1]] /\ user[u].session \in SessionIds

Members ==
  \A s \in SessionIds :
    /\ publisher_[s] # NoOne => UserOf(publisher_[s], "publish", s)
    /\ \A u \in players_[s] : UserOf(u, "play", s)

(* A loop handles users of its own connections.                              *)
Handles(l, u, s) ==
  /\ u \in Users /\ LoopOf[ConnOf(u)] = l
  /\ user[u].kind # None /\ user[u].session = s

OuterUser(l) == thread[l].outer[1].user
OuterSession(l) == thread[l].outer[1].session

LoopOK(l) ==
  LET t == thread[l]
  IN  /\ t.at # "clear"
      /\ t.at # "idle" => Handles(l, t.user, t.session)
      /\ t.at = "add_player" => user[t.user].kind = "play"
      /\ t.at = "set_publisher" => Publishes(t.user)
      /\ t.at = "close_user" => user[t.user].destroyed
      /\ t.at # "close_user" => t.outer = <<>>
      /\ t.outer # <<>> => /\ Handles(l, OuterUser(l), OuterSession(l))
                           /\ Publishes(OuterUser(l))
                           /\ lock_[OuterSession(l)] = l

TimerOK ==
  /\ thread[Timer].at \in {"idle", "clear"}
  /\ thread[Timer].at = "clear" =>
       thread[Timer].session \in SessionIds /\ thread[Timer].name \in Names

(* A user that is entering is live and nobody has met it yet.                *)
Fresh(u, s) == publisher_[s] # u /\ u \notin players_[s]

EnteringOK(l) ==
  /\ thread[l].at \in {"add_player", "set_publisher"} =>
       Live(thread[l].user) /\ Fresh(thread[l].user, thread[l].session)
  /\ thread[l].outer # <<>> =>
       /\ Fresh(OuterUser(l), OuterSession(l))
       /\ Live(OuterUser(l)) \/ OuterUser(l) = thread[l].user

EnteringFresh == \A l \in Loops : EnteringOK(l)

ClosesPublisherOf(l, s) ==
  /\ thread[l].at = "close_user" /\ thread[l].session = s
  /\ Publishes(thread[l].user)

(* Where no publish raced a close, a session whose publisher is being closed *)
(* has no live one registered ...                                            *)
ClosingAlone ==
  \A s \in SessionIds : \A l \in Loops :
    s \notin raced /\ ClosesPublisherOf(l, s) => ~Live(publisher_[s])

(* ... and SetPublisher, when an onClose runs inside it, has marked the      *)
(* publisher it replaces, and only that onClose can close another.           *)
ReplacedInside ==
  \A l \in Loops : thread[l].outer # <<>> =>
    /\ ~Live(publisher_[OuterSession(l)])
    /\ OuterSession(l) \notin raced =>
         \A m \in Loops \ {l} : ~ClosesPublisherOf(m, OuterSession(l))

LoopsOK == \A l \in Loops : LoopOK(l)

IInv ==
  /\ TypeOK /\ Created /\ Members /\ LoopsOK /\ TimerOK
  /\ EnteringFresh /\ ClosingAlone /\ ReplacedInside
  /\ PlayersExact /\ RegisteredPublisherLive
  /\ LivePublisherRegisteredUnlessRaced

-----------------------------------------------------------------------------
(* Users and records.                                                       *)

LEMMA NoOneIsNoUser ==
  ASSUME NEW u \in Users
  PROVE  u # NoOne
<1>1. PICK c \in Conns, n \in 1 .. MaxCommands : u = <<c, n>>
  BY DEF Users
<1>2. Len(u) = 2 /\ Len(NoOne) = 0
  BY <1>1 DEF NoOne
<1>3. QED
  BY <1>2

LEMMA UserParts ==
  ASSUME NEW u \in Users
  PROVE  /\ ConnOf(u) \in Conns /\ u[1] \in Conns /\ u[2] \in 1 .. MaxCommands
         /\ u = <<u[1], u[2]>> /\ ConnOf(u) = u[1]
         /\ LoopOf[ConnOf(u)] \in Loops
  BY SessionAssumption DEF Users, ConnOf

(* What the connection carries is one of its users, or nobody.               *)
LEMMA ContextIsUser ==
  ASSUME commands \in [Conns -> 0 .. MaxCommands], NEW c \in Conns,
         Context(c) # NoOne
  PROVE  Context(c) \in Users /\ ConnOf(Context(c)) = c
<1>1. commands[c] \in 1 .. MaxCommands
  BY SessionAssumption DEF Context
<1>2. Context(c) = <<c, commands[c]>>
  BY <1>1 DEF Context
<1>3. QED
  BY <1>1, <1>2 DEF Users, ConnOf

LEMMA HandlerParts ==
  ASSUME NEW a, NEW u, NEW s, NEW o
  PROVE  LET h == Handler(a, u, s, o)
         IN  /\ h.at = a /\ h.user = u /\ h.session = s /\ h.name = None
             /\ h.outer = o
  BY DEF Handler

LEMMA IdleParts ==
  /\ Idle.at = "idle" /\ Idle.user = NoOne /\ Idle.session = 0
  /\ Idle.name = None /\ Idle.outer = <<>>
  BY HandlerParts DEF Idle

LEMMA HandlerType ==
  ASSUME NEW a \in {"idle", "add_player", "set_publisher", "close_user"},
         NEW u \in Users \cup {NoOne}, NEW s \in 0 .. MaxSessions,
         NEW o \in {<<>>} \cup [{1} -> Call]
  PROVE  Handler(a, u, s, o) \in ThreadRecord
  BY DEF Handler, ThreadRecord

LEMMA IdleType == Idle \in ThreadRecord
  BY SessionAssumption, HandlerType DEF Idle

-----------------------------------------------------------------------------
(* What a step may do to a user: it keeps its kind and its session, and once *)
(* it is destroyed it stays so.                                              *)
UsersKept ==
  \A u \in Users :
    user[u].kind # None =>
      /\ user'[u].kind = user[u].kind /\ user'[u].session = user[u].session
      /\ user[u].destroyed => user'[u].destroyed

(* A thread that does nothing keeps its part of the invariant.               *)
LEMMA LoopKept ==
  ASSUME NEW l \in Loops, LoopOK(l), UsersKept, thread'[l] = thread[l],
         thread[l].outer # <<>> =>
           lock_'[OuterSession(l)] = lock_[OuterSession(l)]
  PROVE  LoopOK(l)'
<1>1. ASSUME NEW u, NEW s, Handles(l, u, s)
      PROVE  /\ Handles(l, u, s)' /\ user'[u].kind = user[u].kind
             /\ user[u].destroyed => user'[u].destroyed
  BY <1>1 DEF Handles, UsersKept
<1>2. thread[l].at \in {"add_player", "set_publisher", "close_user"} =>
        thread[l].at # "idle"
  OBVIOUS
<1>3. QED
  BY <1>1, <1>2 DEF LoopOK, OuterUser, OuterSession, Publishes

(* Nor does it lose anything to a step that destroys registered users or     *)
(* users of other loops, and registers users of other loops.                 *)
LEMMA EnteringKept ==
  ASSUME NEW l \in Loops, LoopOK(l), EnteringOK(l), UsersKept, Created,
         thread'[l] = thread[l],
         \A u \in Users :
           LoopOf[ConnOf(u)] = l /\ user'[u].destroyed =>
             user[u].destroyed \/ ~Fresh(u, user[u].session),
         \A u \in Users, s \in SessionIds :
           LoopOf[ConnOf(u)] = l /\ Fresh(u, s) => Fresh(u, s)'
  PROVE  EnteringOK(l)'
<1>1. ASSUME NEW u, NEW s, Handles(l, u, s), Fresh(u, s)
      PROVE  Fresh(u, s)' /\ (Live(u) => Live(u)')
  BY <1>1 DEF Handles, UsersKept, Live, Created
<1>2. thread[l].at \in {"add_player", "set_publisher"} =>
        Handles(l, thread[l].user, thread[l].session)
  BY DEF LoopOK
<1>3. thread[l].outer # <<>> => Handles(l, OuterUser(l), OuterSession(l))
  BY DEF LoopOK
<1>4. QED
  BY <1>1, <1>2, <1>3 DEF EnteringOK, OuterUser, OuterSession

-----------------------------------------------------------------------------
(* A command creates a user that nobody has met.                             *)
LEMMA CommandStep ==
  ASSUME IInv, NEW c \in Conns, NEW kind \in {"play", "publish"},
         NEW name \in Names, Command(c, kind, name)
  PROVE  IInv'
<1> DEFINE l == LoopOf[c]
           s == CreateSession(name)
           v == <<c, commands[c] + 1>>
           a == IF kind = "play" THEN "add_player" ELSE "set_publisher"
<1>1. /\ l \in Loops /\ l \in Threads /\ l # Timer
      /\ v \in Users /\ ConnOf(v) = c /\ s \in SessionIds
      /\ commands[c] \in Nat /\ commands[c] < MaxCommands
  <2>1. commands[c] \in Nat /\ commands[c] < MaxCommands /\ s \in SessionIds
    BY SessionAssumption DEF Command, IInv, TypeOK
  <2>2. l \in Loops /\ l # Timer
    BY SessionAssumption
  <2>3. commands[c] + 1 \in 1 .. MaxCommands
    BY <2>1, SessionAssumption
  <2>4. v \in Users /\ ConnOf(v) = c
    BY <2>3 DEF Users, ConnOf
  <2>5. QED
    BY <2>1, <2>2, <2>4 DEF Threads
<1>2. user[v].kind = None
  <2>1. v[2] = commands[c] + 1 /\ v[1] = c
    OBVIOUS
  <2> HIDE DEF v
  <2>2. ~(v[2] <= commands[v[1]])
    BY <1>1, <2>1
  <2>3. QED
    BY <1>1, <2>2 DEF IInv, Created
<1>3. /\ thread' = [thread EXCEPT ![l] = Handler(a, v, s, <<>>)]
      /\ thread[l] = Idle
      /\ user' = [user EXCEPT ![v] = CreateUser(kind, s)]
      /\ commands' = [commands EXCEPT ![c] = @ + 1]
      /\ sessions_' = [sessions_ EXCEPT ![name] = s]
      /\ created' = IF s > created THEN s ELSE created
      /\ UNCHANGED <<service_lock, publisher_, players_, lock_, open, tasks,
                     raced>>
  BY DEF Command
<1> HIDE DEF l, s, v, a
<1>4. /\ thread'[l] = Handler(a, v, s, <<>>)
      /\ \A m \in Threads \ {l} : thread'[m] = thread[m]
      /\ user'[v] = CreateUser(kind, s)
      /\ \A u \in Users \ {v} : user'[u] = user[u]
  BY <1>1, <1>3 DEF IInv, TypeOK
<1>5. UsersKept
  BY <1>2, <1>4 DEF UsersKept
<1>6. TypeOK'
  <2>1. CreateUser(kind, s) \in UserRecord
    BY <1>1 DEF CreateUser, UserRecord, SessionIds
  <2>2. Handler(a, v, s, <<>>) \in ThreadRecord
    BY <1>1, HandlerType DEF a, SessionIds
  <2>3. QED
    BY <1>1, <1>3, <2>1, <2>2, SessionAssumption DEF IInv, TypeOK, SessionIds
<1>7. Created'
  BY <1>1, <1>3, <1>4, UserParts DEF IInv, Created, TypeOK, CreateUser, v
<1>8. Members'
  BY <1>1, <1>2, <1>3, <1>4, NoOneIsNoUser
     DEF IInv, Members, UserOf, TypeOK, None
<1>9. LoopsOK'
  <2>1. ASSUME NEW m \in Loops, m # l PROVE LoopOK(m)'
    BY <1>1, <1>3, <1>4, <1>5, <2>1, LoopKept DEF IInv, LoopsOK, Threads
  <2>2. LoopOK(l)'
    BY <1>1, <1>4, HandlerParts
       DEF LoopOK, Handles, Publishes, CreateUser, a, l, None
  <2>3. QED
    BY <2>1, <2>2 DEF LoopsOK
<1>10. TimerOK'
  BY <1>1, <1>4 DEF IInv, TimerOK, Threads
<1>11. \A t \in SessionIds : Fresh(v, t)
  BY <1>1, <1>2, NoOneIsNoUser DEF IInv, Members, UserOf, Fresh, None
<1>12. EnteringFresh'
  <2>1. ASSUME NEW m \in Loops, m # l PROVE EnteringOK(m)'
    <3>1. m \in Threads /\ \A u \in Users : LoopOf[ConnOf(u)] = m => u # v
      BY <1>1, <2>1 DEF Threads, l
    <3>2. QED
      BY <1>3, <1>4, <1>5, <2>1, <3>1, EnteringKept
         DEF IInv, LoopsOK, EnteringFresh, Fresh
  <2>2. EnteringOK(l)'
    BY <1>1, <1>3, <1>4, <1>11, HandlerParts, NoOneIsNoUser
       DEF EnteringOK, Fresh, Live, CreateUser, None
  <2>3. QED
    BY <2>1, <2>2 DEF EnteringFresh
<1>13. /\ \A m \in Loops \ {l} : thread'[m] = thread[m]
       /\ thread[l].at = "idle" /\ thread[l].outer = <<>>
       /\ thread'[l].at \in {"add_player", "set_publisher"}
       /\ thread'[l].outer = <<>> /\ thread'[l].user = v
  BY <1>1, <1>3, <1>4, IdleParts, HandlerParts DEF Threads, a
<1>14. /\ \A m \in Loops, t \in SessionIds :
             ClosesPublisherOf(m, t)' => ClosesPublisherOf(m, t)
       /\ \A t \in SessionIds :
             /\ publisher_'[t] = publisher_[t] /\ publisher_[t] # v
             /\ Live(publisher_[t])' = Live(publisher_[t])
  <2>1. ASSUME NEW m \in Loops, m # l, thread[m].at = "close_user"
        PROVE  thread[m].user \in Users /\ thread[m].user # v
    BY <1>2, <2>1 DEF IInv, LoopsOK, LoopOK, Handles
  <2>2. ASSUME NEW m \in Loops, NEW t \in SessionIds, ClosesPublisherOf(m, t)'
        PROVE  ClosesPublisherOf(m, t)
    BY <1>4, <1>13, <2>1, <2>2 DEF ClosesPublisherOf, Publishes
  <2>3. ASSUME NEW t \in SessionIds
        PROVE  /\ publisher_'[t] = publisher_[t] /\ publisher_[t] # v
               /\ Live(publisher_[t])' = Live(publisher_[t])
    BY <1>3, <1>4, <1>11 DEF IInv, TypeOK, Fresh, Live
  <2>4. QED
    BY <2>2, <2>3
<1>15. ClosingAlone' /\ ReplacedInside'
  <2>1. ClosingAlone'
    BY <1>3, <1>14 DEF IInv, ClosingAlone
  <2>2. ASSUME NEW m \in Loops, thread'[m].outer # <<>>
        PROVE  /\ thread[m].outer # <<>> /\ OuterSession(m)' = OuterSession(m)
               /\ OuterSession(m) \in SessionIds
    BY <1>13, <2>2 DEF IInv, LoopsOK, LoopOK, Handles, Created, OuterSession
  <2>3. ReplacedInside'
    BY <1>3, <1>14, <2>2 DEF IInv, ReplacedInside
  <2>4. QED
    BY <2>1, <2>3
<1>16. \A u \in Users : /\ Closing(u)' <=> Closing(u)
                        /\ Entering(u)' <=> Entering(u) \/ u = v
  <2> TAKE u \in Users
  <2>1. Closing(u)' <=> Closing(u)
    BY <1>1, <1>13 DEF Closing
  <2>2. Entering(u)' => Entering(u) \/ u = v
    BY <1>1, <1>13 DEF Entering
  <2>3. Entering(u) => Entering(u)'
    BY <1>1, <1>13 DEF Entering
  <2>4. ASSUME u = v PROVE Entering(u)'
    <3>1. (/\ thread'[l].at \in {"add_player", "set_publisher"}
           /\ thread'[l].user = u)
      BY <1>13, <2>4
    <3>2. QED
      BY <1>1, <3>1 DEF Entering
  <2>5. QED
    BY <2>1, <2>2, <2>3, <2>4
<1>17. PlayersExact'
  BY <1>1, <1>3, <1>4, <1>11, <1>16
     DEF IInv, PlayersExact, Live, Fresh, CreateUser
<1>18. RegisteredPublisherLive'
  BY <1>3, <1>14, <1>16, NoOneIsNoUser DEF IInv, RegisteredPublisherLive, TypeOK
<1>19. LivePublisherRegisteredUnlessRaced'
  BY <1>3, <1>4, <1>14, <1>16, <1>11
     DEF IInv, LivePublisherRegisteredUnlessRaced, Publishes, Live
<1>20. QED
  BY <1>6, <1>7, <1>8, <1>9, <1>10, <1>12, <1>15, <1>17, <1>18, <1>19
     DEF IInv

-----------------------------------------------------------------------------
(* What a turn of one loop leaves of Closing and Entering.                  *)
ClosingAt(l, u) == thread[l].at = "close_user" /\ thread[l].user = u

EnteringAt(l, u) ==
  \/ /\ thread[l].at \in {"add_player", "set_publisher"}
     /\ thread[l].user = u
  \/ thread[l].outer # <<>> /\ OuterUser(l) = u

LEMMA OnItsLoop ==
  ASSUME NEW l \in Loops, LoopOK(l), NEW u \in Users,
         ClosingAt(l, u) \/ EnteringAt(l, u)
  PROVE  LoopOf[ConnOf(u)] = l
<1>1. CASE ClosingAt(l, u)
  BY <1>1 DEF ClosingAt, LoopOK, Handles
<1>2. CASE EnteringAt(l, u)
  BY <1>2 DEF EnteringAt, LoopOK, Handles
<1>3. QED
  BY <1>1, <1>2

LEMMA TurnOf ==
  ASSUME NEW l \in Loops, \A m \in Loops \ {l} : thread'[m] = thread[m],
         NEW u
  PROVE  /\ Closing(u) => ClosingAt(l, u) \/ Closing(u)'
         /\ Closing(u)' => ClosingAt(l, u)' \/ Closing(u)
         /\ ClosingAt(l, u)' => Closing(u)'
         /\ Entering(u) => EnteringAt(l, u) \/ Entering(u)'
         /\ Entering(u)' => EnteringAt(l, u)' \/ Entering(u)
         /\ EnteringAt(l, u)' => Entering(u)'
<1>1. Closing(u) <=> \E m \in Loops : ClosingAt(m, u)
  BY DEF Closing, ClosingAt
<1>2. Closing(u)' <=> \E m \in Loops : ClosingAt(m, u)'
  BY DEF Closing, ClosingAt
<1>3. Entering(u) <=> \E m \in Loops : EnteringAt(m, u)
  BY DEF Entering, EnteringAt, OuterUser
<1>4. Entering(u)' <=> \E m \in Loops : EnteringAt(m, u)'
  BY DEF Entering, EnteringAt, OuterUser
<1>5. \A m \in Loops \ {l} : /\ ClosingAt(m, u)' <=> ClosingAt(m, u)
                             /\ EnteringAt(m, u)' <=> EnteringAt(m, u)
  BY DEF ClosingAt, EnteringAt, OuterUser
<1>6. QED
  BY <1>1, <1>2, <1>3, <1>4, <1>5

(* Who is closing a publisher after a turn in which its loop closes nobody.  *)
LEMMA ClosesKept ==
  ASSUME LoopsOK, UsersKept, NEW l \in Loops,
         \A m \in Loops \ {l} : thread'[m] = thread[m],
         NEW m \in Loops, m # l, NEW s, ClosesPublisherOf(m, s)'
  PROVE  ClosesPublisherOf(m, s)
<1>1. thread'[m] = thread[m] /\ thread[m].at = "close_user"
  BY DEF ClosesPublisherOf
<1>2. Handles(m, thread[m].user, thread[m].session)
  BY <1>1 DEF LoopsOK, LoopOK
<1>3. user'[thread[m].user].kind = user[thread[m].user].kind
  BY <1>2 DEF Handles, UsersKept
<1>4. QED
  BY <1>1, <1>3 DEF ClosesPublisherOf, Publishes

-----------------------------------------------------------------------------
(* AddPlayer registers the player it was called for.                        *)
LEMMA AddPlayerStep ==
  ASSUME IInv, NEW l \in Loops, AddPlayer(l)
  PROVE  IInv'
<1> DEFINE s == thread[l].session
           v == thread[l].user
<1>1. /\ thread[l].at = "add_player" /\ thread[l].outer = <<>>
      /\ players_' = [players_ EXCEPT ![s] = @ \cup {v}]
      /\ thread' = [thread EXCEPT ![l] = Idle]
      /\ UNCHANGED <<sessions_, created, service_lock, publisher_, lock_, user,
                     commands, open, tasks, raced>>
  BY DEF AddPlayer, IInv, LoopsOK, LoopOK
<1>2. /\ v \in Users /\ s \in SessionIds /\ LoopOf[ConnOf(v)] = l
      /\ UserOf(v, "play", s) /\ Live(v)
  BY <1>1 DEF IInv, LoopsOK, LoopOK, Handles, Created, UserOf, EnteringFresh,
              EnteringOK
<1>3. l # Timer /\ l \in Threads
  BY SessionAssumption DEF Threads
<1>4. /\ thread'[l] = Idle
      /\ \A m \in Threads \ {l} : thread'[m] = thread[m]
      /\ \A m \in Loops \ {l} : thread'[m] = thread[m]
  BY <1>1, <1>3 DEF IInv, TypeOK, Threads
<1>5. /\ players_'[s] = players_[s] \cup {v}
      /\ \A t \in SessionIds \ {s} : players_'[t] = players_[t]
  BY <1>1, <1>2 DEF IInv, TypeOK
<1> HIDE DEF s, v
<1>6. UsersKept
  BY <1>1 DEF UsersKept
<1>7. TypeOK'
  BY <1>1, <1>2, IdleType DEF IInv, TypeOK
<1>8. Created' /\ Members'
  BY <1>1, <1>2, <1>5 DEF IInv, Created, Members, UserOf
<1>9. LoopsOK'
  <2>1. ASSUME NEW m \in Loops, m # l PROVE LoopOK(m)'
    BY <1>1, <1>4, <1>6, <2>1, LoopKept DEF IInv, LoopsOK
  <2>2. LoopOK(l)'
    BY <1>4, IdleParts DEF LoopOK
  <2>3. QED
    BY <2>1, <2>2 DEF LoopsOK
<1>10. TimerOK'
  BY <1>3, <1>4 DEF IInv, TimerOK, Threads
<1>11. EnteringFresh'
  <2>1. ASSUME NEW m \in Loops, m # l PROVE EnteringOK(m)'
    BY <1>1, <1>2, <1>4, <1>5, <1>6, <2>1, EnteringKept
       DEF IInv, LoopsOK, EnteringFresh, Fresh
  <2>2. EnteringOK(l)'
    BY <1>4, IdleParts DEF EnteringOK
  <2>3. QED
    BY <2>1, <2>2 DEF EnteringFresh
<1>12. ClosingAlone' /\ ReplacedInside'
  <2>1. \A m \in Loops : \A t : ClosesPublisherOf(m, t)' => ClosesPublisherOf(m, t)
    BY <1>4, <1>6, ClosesKept, IdleParts DEF IInv, ClosesPublisherOf
  <2>2. ClosingAlone'
    BY <1>1, <2>1 DEF IInv, ClosingAlone, Live
  <2>3. \A m \in Loops : thread'[m].outer # <<>> =>
          thread[m].outer # <<>> /\ OuterSession(m)' = OuterSession(m)
    BY <1>4, IdleParts DEF OuterSession
  <2>4. ReplacedInside'
    BY <1>1, <2>1, <2>3 DEF IInv, ReplacedInside, Live
  <2>5. QED
    BY <2>2, <2>4
<1>13. /\ \A u \in Users : Closing(u) => Closing(u)'
       /\ \A u \in Users : u # v /\ Entering(u) => Entering(u)'
  BY <1>1, <1>4, TurnOf DEF ClosingAt, EnteringAt, v
<1>14. PlayersExact'
  BY <1>1, <1>2, <1>5, <1>13 DEF IInv, PlayersExact, Live, UserOf, Created, None
<1>15. RegisteredPublisherLive'
  BY <1>1, <1>13 DEF IInv, RegisteredPublisherLive, Live, TypeOK
<1>16. LivePublisherRegisteredUnlessRaced'
  BY <1>1, <1>2, <1>13
     DEF IInv, LivePublisherRegisteredUnlessRaced, Publishes, Live, UserOf
<1>17. QED
  BY <1>7, <1>8, <1>9, <1>10, <1>11, <1>12, <1>14, <1>15, <1>16 DEF IInv

-----------------------------------------------------------------------------
(* SetPublisher, in the cases where it returns: its user is the publisher    *)
(* and the one before is not live any more.                                  *)
Published(l) ==
  LET s == thread[l].session
      p == publisher_[s]
  IN  /\ thread[l].at = "set_publisher" /\ lock_[s] = None
      /\ user' = IF Live(p) THEN [user EXCEPT ![p].destroyed = TRUE] ELSE user
      /\ publisher_' = [publisher_ EXCEPT ![s] = thread[l].user]
      /\ thread' = [thread EXCEPT ![l] = Idle]
      /\ raced' = IF PublisherClosing(s) THEN raced \cup {s} ELSE raced
      /\ UNCHANGED <<sessions_, created, service_lock, players_, lock_, commands>>

LEMMA PublishedStep ==
  ASSUME IInv, NEW l \in Loops, Published(l),
         open' \in [Conns -> BOOLEAN], tasks' \in [Loops -> Seq(Conns)]
  PROVE  IInv'
<1>0. PICK s, v, p : /\ s = thread[l].session /\ v = thread[l].user
                     /\ p = publisher_[s]
  OBVIOUS
<1>1. /\ thread[l].at = "set_publisher" /\ thread[l].outer = <<>>
      /\ lock_[s] = None
      /\ user' = IF Live(p) THEN [user EXCEPT ![p].destroyed = TRUE] ELSE user
      /\ publisher_' = [publisher_ EXCEPT ![s] = v]
      /\ thread' = [thread EXCEPT ![l] = Idle]
      /\ raced' = IF PublisherClosing(s) THEN raced \cup {s} ELSE raced
      /\ UNCHANGED <<sessions_, created, service_lock, players_, lock_, commands>>
  BY <1>0 DEF Published, IInv, LoopsOK, LoopOK
<1>2. /\ v \in Users /\ s \in SessionIds /\ LoopOf[ConnOf(v)] = l
      /\ UserOf(v, "publish", s) /\ Live(v) /\ p # v
  BY <1>0, <1>1
     DEF IInv, LoopsOK, LoopOK, Handles, Created, UserOf, EnteringFresh,
         EnteringOK, Publishes, Fresh
<1>3. l # Timer /\ l \in Threads
  BY SessionAssumption DEF Threads
<1>4. /\ thread'[l] = Idle
      /\ \A m \in Threads \ {l} : thread'[m] = thread[m]
      /\ \A m \in Loops \ {l} : thread'[m] = thread[m]
  BY <1>1, <1>3 DEF IInv, TypeOK, Threads
<1>5. /\ publisher_'[s] = v
      /\ \A t \in SessionIds \ {s} : publisher_'[t] = publisher_[t]
  BY <1>1, <1>2 DEF IInv, TypeOK
<1>6. p # NoOne => p \in Users /\ UserOf(p, "publish", s)
  BY <1>0, <1>2 DEF IInv, TypeOK, Members
<1>7. /\ \A u \in Users \ {p} : user'[u] = user[u]
      /\ p # NoOne => UserOf(p, "publish", s)' /\ ~Live(p)'
      /\ Live(p) => user'[p].destroyed
      /\ user' \in [Users -> UserRecord]
  <2>1. CASE Live(p)
    <3>1. p \in Users /\ p # NoOne
      BY <1>6, <2>1 DEF Live
    <3>2. user' = [user EXCEPT ![p] = [@ EXCEPT !.destroyed = TRUE]]
      BY <1>1, <2>1
    <3>3. user[p] \in UserRecord
      BY <3>1 DEF IInv, TypeOK
    <3>4. user'[p] = [user[p] EXCEPT !.destroyed = TRUE]
      BY <3>1, <3>2 DEF IInv, TypeOK
    <3>5. /\ user'[p] \in UserRecord /\ user'[p].destroyed
          /\ user'[p].kind = user[p].kind /\ user'[p].session = user[p].session
      BY <3>3, <3>4 DEF UserRecord
    <3>6. QED
      BY <1>6, <3>1, <3>2, <3>5 DEF IInv, TypeOK, UserOf, Live
  <2>2. CASE ~Live(p)
    BY <1>1, <1>6, <2>2 DEF IInv, TypeOK, UserOf, Live
  <2>3. QED
    BY <2>1, <2>2
<1>8. UsersKept
  BY <1>6, <1>7, NoOneIsNoUser DEF UsersKept, UserOf, Live, None
<1>9. TypeOK'
  BY <1>1, <1>2, <1>7, IdleType DEF IInv, TypeOK
<1>10. Created'
  BY <1>1, <1>6, <1>7 DEF IInv, Created, UserOf
<1>11. Members'
  BY <1>1, <1>2, <1>5, <1>6, <1>7, NoOneIsNoUser DEF IInv, Members, UserOf, TypeOK
<1>12. LoopsOK'
  <2>1. ASSUME NEW m \in Loops, m # l PROVE LoopOK(m)'
    BY <1>1, <1>4, <1>8, <2>1, LoopKept DEF IInv, LoopsOK
  <2>2. LoopOK(l)'
    BY <1>4, IdleParts DEF LoopOK
  <2>3. QED
    BY <2>1, <2>2 DEF LoopsOK
<1>13. TimerOK'
  BY <1>3, <1>4 DEF IInv, TimerOK, Threads
<1>14. EnteringFresh'
  <2>1. ASSUME NEW m \in Loops, m # l PROVE EnteringOK(m)'
    <3>1. \A u \in Users : user'[u].destroyed =>
                             user[u].destroyed \/ ~Fresh(u, user[u].session)
      BY <1>0, <1>2, <1>6, <1>7, NoOneIsNoUser DEF Fresh, UserOf
    <3>2. \A u \in Users, t \in SessionIds :
            LoopOf[ConnOf(u)] = m /\ Fresh(u, t) => Fresh(u, t)'
      BY <1>1, <1>2, <1>5, <2>1 DEF Fresh
    <3>3. QED
      BY <1>4, <1>8, <2>1, <3>1, <3>2, EnteringKept
         DEF IInv, LoopsOK, EnteringFresh
  <2>2. EnteringOK(l)'
    BY <1>4, IdleParts DEF EnteringOK
  <2>3. QED
    BY <2>1, <2>2 DEF EnteringFresh
<1>15. \A m \in Loops : \A t : ClosesPublisherOf(m, t)' => ClosesPublisherOf(m, t)
  BY <1>4, <1>8, ClosesKept, IdleParts DEF IInv, ClosesPublisherOf
<1>16. /\ \A t \in SessionIds : t \notin raced' => t \notin raced
       /\ \A m \in Loops : s \notin raced' => ~ClosesPublisherOf(m, s)
  BY <1>1 DEF PublisherClosing, ClosesPublisherOf
<1>17. \A t \in SessionIds \ {s} :
         /\ publisher_[t] # p \/ p = NoOne
         /\ Live(publisher_[t])' <=> Live(publisher_[t])
  BY <1>5, <1>6, <1>7 DEF IInv, TypeOK, Members, UserOf, Live
<1>18. ClosingAlone'
  BY <1>15, <1>16, <1>17 DEF IInv, ClosingAlone
<1>19. ReplacedInside'
  <2>1. ASSUME NEW m \in Loops, thread'[m].outer # <<>>
        PROVE  /\ thread[m].outer # <<>> /\ OuterSession(m)' = OuterSession(m)
               /\ OuterSession(m) \in SessionIds \ {s}
    <3>1. m # l /\ thread'[m] = thread[m]
      BY <1>4, <2>1, IdleParts
    <3>2. Handles(m, OuterUser(m), OuterSession(m)) /\ lock_[OuterSession(m)] = m
      BY <2>1, <3>1 DEF IInv, LoopsOK, LoopOK
    <3>3. QED
      BY <1>1, <2>1, <3>1, <3>2, SessionAssumption
         DEF IInv, Created, Handles, OuterSession
  <2>2. QED
    BY <1>15, <1>16, <1>17, <2>1 DEF IInv, ReplacedInside
<1>20. /\ \A u \in Users : Closing(u) => Closing(u)'
       /\ \A u \in Users : u # v /\ Entering(u) => Entering(u)'
  BY <1>0, <1>1, <1>4, TurnOf DEF ClosingAt, EnteringAt
<1>21. PlayersExact'
  <2>1. ASSUME NEW u \in Users, user'[u].kind = "play"
        PROVE  u # v /\ user'[u] = user[u]
    BY <1>2, <1>6, <1>7, <2>1, NoOneIsNoUser DEF UserOf
  <2>2. QED
    BY <1>1, <1>20, <2>1 DEF IInv, PlayersExact, Live
<1>22. RegisteredPublisherLive'
  <2>1. ASSUME NEW t \in SessionIds, publisher_'[t] # NoOne, lock_'[t] = None
        PROVE  (Live(publisher_[t]) \/ Closing(publisher_[t]))'
    <3>1. CASE t = s
      BY <1>2, <1>5, <1>7, <3>1 DEF Live
    <3>2. CASE t # s
      BY <1>1, <1>5, <1>17, <1>20, <2>1, <3>2
         DEF IInv, RegisteredPublisherLive, TypeOK, Live
    <3>3. QED
      BY <3>1, <3>2
  <2>2. QED
    BY <2>1 DEF RegisteredPublisherLive
<1>23. LivePublisherRegisteredUnlessRaced'
  <2>1. ASSUME NEW u \in Users, Publishes(u)', Live(u)', ~Entering(u)',
               user'[u].session \notin raced'
        PROVE  publisher_'[user'[u].session] = u
    <3>1. u # p
      BY <1>7, <2>1 DEF Live
    <3>2. user'[u] = user[u]
      BY <1>7, <3>1
    <3>3. CASE u = v
      BY <1>2, <1>5, <3>2, <3>3 DEF UserOf
    <3>4. CASE u # v
      <4>1. user[u].session \in SessionIds /\ publisher_[user[u].session] = u
        BY <1>16, <1>20, <2>1, <3>2, <3>4
           DEF IInv, LivePublisherRegisteredUnlessRaced, Publishes, Live, Created
      <4>2. QED
        BY <1>0, <1>5, <3>1, <3>2, <4>1
    <3>5. QED
      BY <3>3, <3>4
  <2>2. QED
    BY <2>1 DEF LivePublisherRegisteredUnlessRaced
<1>24. QED
  BY <1>9, <1>10, <1>11, <1>12, <1>13, <1>14, <1>18, <1>19, <1>21, <1>22, <1>23
     DEF IInv

-----------------------------------------------------------------------------
(* Marking users destroyed changes nothing else of them.                    *)
LEMMA MarkedRecord ==
  ASSUME NEW r \in UserRecord
  PROVE  LET d == [r EXCEPT !.destroyed = TRUE]
         IN  /\ d \in UserRecord /\ d.destroyed
             /\ d.kind = r.kind /\ d.session = r.session
  BY DEF UserRecord

Marked(f, u) == [f EXCEPT ![u].destroyed = TRUE]

LEMMA MarkedOne ==
  ASSUME NEW f \in [Users -> UserRecord], NEW u \in Users
  PROVE  /\ Marked(f, u) \in [Users -> UserRecord]
         /\ Marked(f, u)[u].destroyed /\ Marked(f, u)[u].kind = f[u].kind
         /\ Marked(f, u)[u].session = f[u].session
         /\ \A v \in Users \ {u} : Marked(f, u)[v] = f[v]
<1>0. PICK g : g = Marked(f, u) /\ g = [f EXCEPT ![u].destroyed = TRUE]
  BY DEF Marked
<1>1. f[u] \in UserRecord
  OBVIOUS
<1>2. g[u] = [f[u] EXCEPT !.destroyed = TRUE]
  BY <1>0
<1>3. g = [f EXCEPT ![u] = [f[u] EXCEPT !.destroyed = TRUE]]
  BY <1>0
<1>4. QED
  BY <1>0, <1>1, <1>2, <1>3, MarkedRecord

(* A user whose loop is not entering it is registered, if it publishes.      *)
LEMMA ThenRegistered ==
  ASSUME IInv, NEW l \in Loops, NEW u \in Users, LoopOf[ConnOf(u)] = l,
         ~EnteringAt(l, u), Live(u), Publishes(u), user[u].session \notin raced
  PROVE  publisher_[user[u].session] = u
<1>1. \A m \in Loops : EnteringAt(m, u) => LoopOf[ConnOf(u)] = m
  BY OnItsLoop DEF IInv, LoopsOK
<1>2. ~Entering(u)
  BY <1>1 DEF Entering, EnteringAt, OuterUser
<1>3. QED
  BY <1>2 DEF IInv, LivePublisherRegisteredUnlessRaced

-----------------------------------------------------------------------------
(* onClose marks the user of its connection and goes on to CloseUser.       *)
ClosingStarts(l, u) ==
  /\ thread[l] = Idle /\ Live(u)
  /\ user' = [user EXCEPT ![u].destroyed = TRUE]
  /\ thread' = [thread EXCEPT ![l] =
       Handler("close_user", u, user[u].session, <<>>)]
  /\ UNCHANGED <<sessions_, created, service_lock, publisher_, players_,
                 lock_, commands, raced>>

LEMMA ClosingStartsStep ==
  ASSUME IInv, NEW l \in Loops, NEW u \in Users, LoopOf[ConnOf(u)] = l,
         ClosingStarts(l, u),
         open' \in [Conns -> BOOLEAN], tasks' \in [Loops -> Seq(Conns)]
  PROVE  IInv'
<1>0. PICK s : s = user[u].session
  OBVIOUS
<1>1. /\ thread[l] = Idle /\ Live(u)
      /\ user' = [user EXCEPT ![u].destroyed = TRUE]
      /\ thread' = [thread EXCEPT ![l] = Handler("close_user", u, s, <<>>)]
      /\ UNCHANGED <<sessions_, created, service_lock, publisher_, players_,
                     lock_, commands, raced>>
  BY <1>0 DEF ClosingStarts
<1>2. user[u].kind # None /\ s \in SessionIds
  BY <1>0, <1>1 DEF Live, IInv, Created
<1>3. l # Timer /\ l \in Threads
  BY SessionAssumption DEF Threads
<1>4. /\ thread'[l] = Handler("close_user", u, s, <<>>)
      /\ \A m \in Threads \ {l} : thread'[m] = thread[m]
      /\ \A m \in Loops \ {l} : thread'[m] = thread[m]
  BY <1>1, <1>3 DEF IInv, TypeOK, Threads
<1>5. /\ user' \in [Users -> UserRecord]
      /\ user'[u].destroyed /\ user'[u].kind = user[u].kind
      /\ user'[u].session = s
      /\ \A v \in Users \ {u} : user'[v] = user[v]
  <2>1. PICK f, g : /\ f = user /\ g = user' /\ f \in [Users -> UserRecord]
                    /\ g = Marked(f, u)
    BY <1>1 DEF IInv, TypeOK, Marked
  <2>2. /\ g \in [Users -> UserRecord]
        /\ g[u].destroyed /\ g[u].kind = f[u].kind
        /\ g[u].session = f[u].session
        /\ \A v \in Users \ {u} : g[v] = f[v]
    BY <2>1, MarkedOne
  <2>3. QED
    BY <1>0, <2>1, <2>2
<1>6. /\ thread'[l].at = "close_user" /\ thread'[l].user = u
      /\ thread'[l].session = s /\ thread'[l].outer = <<>>
      /\ thread[l].at = "idle" /\ thread[l].outer = <<>>
  BY <1>1, <1>4, HandlerParts, IdleParts
<1>7. UsersKept
  BY <1>0, <1>5 DEF UsersKept
<1>8. TypeOK'
  <2>1. Handler("close_user", u, s, <<>>) \in ThreadRecord
    BY <1>2, HandlerType DEF SessionIds
  <2>2. QED
    BY <1>1, <1>5, <2>1 DEF IInv, TypeOK
<1>9. Created' /\ Members'
  BY <1>0, <1>1, <1>5, NoOneIsNoUser DEF IInv, Created, Members, UserOf, TypeOK
<1>10. LoopsOK'
  <2>1. ASSUME NEW m \in Loops, m # l PROVE LoopOK(m)'
    BY <1>1, <1>4, <1>7, <2>1, LoopKept DEF IInv, LoopsOK
  <2>2. LoopOK(l)'
    BY <1>2, <1>5, <1>6 DEF LoopOK, Handles
  <2>3. QED
    BY <2>1, <2>2 DEF LoopsOK
<1>11. TimerOK'
  BY <1>3, <1>4 DEF IInv, TimerOK, Threads
<1>12. EnteringFresh'
  <2>1. ASSUME NEW m \in Loops, m # l PROVE EnteringOK(m)'
    BY <1>1, <1>4, <1>5, <1>7, <2>1, EnteringKept
       DEF IInv, LoopsOK, EnteringFresh, Fresh
  <2>2. EnteringOK(l)'
    BY <1>6 DEF EnteringOK
  <2>3. QED
    BY <2>1, <2>2 DEF EnteringFresh
<1>13. \A t \in SessionIds :
         /\ Live(publisher_[t])' => Live(publisher_[t])
         /\ publisher_[t] # u => (Live(publisher_[t])' <=> Live(publisher_[t]))
  BY <1>1, <1>5 DEF IInv, TypeOK, Live
<1>14. \A m \in Loops : \A t : ClosesPublisherOf(m, t)' =>
         \/ ClosesPublisherOf(m, t)
         \/ /\ m = l /\ t = s
            /\ s \notin raced => publisher_[s] = u
  <2>1. ASSUME NEW t, ClosesPublisherOf(l, t)', s \notin raced
        PROVE  publisher_[s] = u
    <3>1. Publishes(u) /\ ~EnteringAt(l, u)
      BY <1>5, <1>6, <2>1 DEF ClosesPublisherOf, Publishes, EnteringAt
    <3>2. QED
      BY <1>0, <1>1, <2>1, <3>1, ThenRegistered
  <2>2. \A t : ClosesPublisherOf(l, t)' => t = s
    BY <1>6 DEF ClosesPublisherOf
  <2>3. QED
    BY <1>4, <1>7, <2>1, <2>2, ClosesKept DEF IInv
<1>15. ClosingAlone'
  <2>1. publisher_[s] = u => ~Live(publisher_[s])'
    BY <1>1, <1>5 DEF Live
  <2>2. QED
    BY <1>1, <1>13, <1>14, <2>1 DEF IInv, ClosingAlone
<1>16. ReplacedInside'
  <2>1. ASSUME NEW m \in Loops, thread'[m].outer # <<>>
        PROVE  /\ thread[m].outer # <<>> /\ OuterSession(m)' = OuterSession(m)
               /\ OuterSession(m) \in SessionIds
    BY <1>4, <1>6, <2>1
       DEF IInv, LoopsOK, LoopOK, Handles, Created, OuterSession
  <2>2. QED
    BY <1>1, <1>13, <1>14, <2>1 DEF IInv, ReplacedInside
<1>17. /\ \A v \in Users : /\ Closing(v) => Closing(v)'
                           /\ Entering(v) <=> Entering(v)'
       /\ Closing(u)'
  BY <1>4, <1>6, TurnOf DEF ClosingAt, EnteringAt
<1>18. PlayersExact'
  BY <1>1, <1>5, <1>17 DEF IInv, PlayersExact, Live
<1>19. RegisteredPublisherLive'
  BY <1>1, <1>13, <1>17 DEF IInv, RegisteredPublisherLive, TypeOK
<1>20. LivePublisherRegisteredUnlessRaced'
  BY <1>1, <1>5, <1>17
     DEF IInv, LivePublisherRegisteredUnlessRaced, Publishes, Live
<1>21. QED
  BY <1>8, <1>9, <1>10, <1>11, <1>12, <1>15, <1>16, <1>18, <1>19, <1>20
     DEF IInv

-----------------------------------------------------------------------------
(* SetPublisher in the case that forceClose runs onClose inside it and the   *)
(* connection carries another user by now.                                   *)
ClosingInside(l, p, u) ==
  LET s == thread[l].session
  IN  /\ thread[l].at = "set_publisher" /\ lock_[s] = None
      /\ p = publisher_[s] /\ Live(p) /\ Live(u) /\ u # p
      /\ user' = [user EXCEPT ![p].destroyed = TRUE, ![u].destroyed = TRUE]
      /\ lock_' = [lock_ EXCEPT ![s] = l]
      /\ thread' = [thread EXCEPT ![l] =
           Handler("close_user", u, user[u].session, <<thread[l]>>)]
      /\ raced' = IF PublisherClosing(s) THEN raced \cup {s} ELSE raced
      /\ UNCHANGED <<sessions_, created, service_lock, publisher_, players_,
                     commands>>

LEMMA ClosingInsideStep ==
  ASSUME IInv, NEW l \in Loops, NEW p \in Users, LoopOf[ConnOf(p)] = l,
         NEW u \in Users, LoopOf[ConnOf(u)] = l, ClosingInside(l, p, u),
         open' \in [Conns -> BOOLEAN], tasks' \in [Loops -> Seq(Conns)]
  PROVE  IInv'
<1>0. PICK s, v, r, o : /\ s = thread[l].session /\ v = thread[l].user
                        /\ r = user[u].session /\ o = thread[l]
  OBVIOUS
<1>1. /\ thread[l].at = "set_publisher" /\ thread[l].outer = <<>>
      /\ lock_[s] = None /\ p = publisher_[s] /\ Live(p) /\ Live(u) /\ u # p
      /\ user' = [user EXCEPT ![p].destroyed = TRUE, ![u].destroyed = TRUE]
      /\ lock_' = [lock_ EXCEPT ![s] = l]
      /\ thread' = [thread EXCEPT ![l] = Handler("close_user", u, r, <<o>>)]
      /\ raced' = IF PublisherClosing(s) THEN raced \cup {s} ELSE raced
      /\ UNCHANGED <<sessions_, created, service_lock, publisher_, players_,
                     commands>>
  BY <1>0 DEF ClosingInside, IInv, LoopsOK, LoopOK
<1>2. /\ v \in Users /\ s \in SessionIds /\ LoopOf[ConnOf(v)] = l
      /\ UserOf(v, "publish", s) /\ Live(v) /\ Fresh(v, s) /\ p # v
      /\ UserOf(p, "publish", s)
  <2>1. Handles(l, v, s) /\ Publishes(v)
    BY <1>0, <1>1 DEF IInv, LoopsOK, LoopOK
  <2>2. v \in Users /\ s \in SessionIds /\ UserOf(v, "publish", s)
    BY <2>1 DEF Handles, Publishes, UserOf, IInv, Created
  <2>3. Live(v) /\ Fresh(v, s)
    BY <1>0, <1>1 DEF IInv, EnteringFresh, EnteringOK
  <2>4. UserOf(p, "publish", s)
    BY <1>1, <2>2, NoOneIsNoUser DEF IInv, Members
  <2>5. QED
    BY <1>1, <2>1, <2>2, <2>3, <2>4 DEF Handles, Fresh
<1>3. l # Timer /\ l \in Threads
  BY SessionAssumption DEF Threads
<1>4. /\ thread'[l] = Handler("close_user", u, r, <<o>>)
      /\ \A m \in Threads \ {l} : thread'[m] = thread[m]
      /\ \A m \in Loops \ {l} : thread'[m] = thread[m]
  BY <1>1, <1>3 DEF IInv, TypeOK, Threads
<1>5. /\ user' \in [Users -> UserRecord]
      /\ \A w \in {p, u} :
           /\ user'[w].destroyed
           /\ user'[w].kind = user[w].kind /\ user'[w].session = user[w].session
      /\ \A w \in Users \ {p, u} : user'[w] = user[w]
  <2>1. PICK f, h, g :
          /\ f = user /\ f \in [Users -> UserRecord]
          /\ h = Marked(f, p) /\ g = user' /\ g = Marked(h, u)
    BY <1>1 DEF IInv, TypeOK, Marked
  <2>2. /\ h \in [Users -> UserRecord]
        /\ h[p].destroyed /\ h[p].kind = f[p].kind
        /\ h[p].session = f[p].session
        /\ \A w \in Users \ {p} : h[w] = f[w]
    BY <2>1, MarkedOne
  <2>3. /\ g \in [Users -> UserRecord]
        /\ g[u].destroyed /\ g[u].kind = h[u].kind
        /\ g[u].session = h[u].session
        /\ \A w \in Users \ {u} : g[w] = h[w]
    BY <2>1, <2>2, MarkedOne
  <2>4. g[p] = h[p]
    BY <1>1, <2>3
  <2>5. \A w \in Users \ {p, u} : g[w] = f[w]
    BY <2>2, <2>3
  <2>6. \A w \in {p, u} : /\ g[w].destroyed
                          /\ g[w].kind = f[w].kind
                          /\ g[w].session = f[w].session
    BY <1>1, <2>2, <2>3, <2>4
  <2>7. QED
    BY <2>1, <2>3, <2>5, <2>6
<1>6. /\ thread'[l].at = "close_user" /\ thread'[l].user = u
      /\ thread'[l].session = r /\ thread'[l].outer = <<o>>
      /\ thread'[l].outer # <<>>
      /\ OuterUser(l)' = v /\ OuterSession(l)' = s
  <2>1. thread'[l].outer = <<o>>
    BY <1>4, HandlerParts
  <2>2. <<o>> # <<>> /\ <<o>>[1] = o
    OBVIOUS
  <2>3. QED
    BY <1>0, <1>4, <2>1, <2>2, HandlerParts DEF OuterUser, OuterSession
<1>7. UsersKept
  BY <1>5 DEF UsersKept
<1>8. user[u].kind # None /\ r \in SessionIds
  BY <1>0, <1>1 DEF Live, IInv, Created
<1>9. TypeOK'
  <2>1. o \in Call
    <3>1. o \in ThreadRecord /\ o.outer = <<>>
      BY <1>0, <1>1, <1>3 DEF IInv, TypeOK
    <3>2. QED
      BY <3>1 DEF ThreadRecord, Call
  <2>2. <<o>> \in [{1} -> Call]
    BY <2>1
  <2>3. Handler("close_user", u, r, <<o>>) \in ThreadRecord
    BY <1>8, <2>2, HandlerType DEF SessionIds
  <2>4. QED
    BY <1>1, <1>2, <1>5, <2>3 DEF IInv, TypeOK
<1>10. Created' /\ Members'
  <2>1. \A w \in Users : user'[w].kind = user[w].kind
                          /\ user'[w].session = user[w].session
    BY <1>5
  <2>2. Created'
    BY <1>1, <2>1 DEF IInv, Created
  <2>3. Members'
    <3>1. \A w \in Users : \A k, t : UserOf(w, k, t)' <=> UserOf(w, k, t)
      BY <2>1 DEF UserOf
    <3>2. \A t \in SessionIds :
            /\ publisher_[t] # NoOne => publisher_[t] \in Users
            /\ players_[t] \subseteq Users
      BY DEF IInv, TypeOK
    <3>3. QED
      BY <1>1, <3>1, <3>2 DEF IInv, Members
  <2>4. QED
    BY <2>2, <2>3
<1>11. \A m \in Loops : thread[m].outer # <<>> =>
         OuterSession(m) \in SessionIds \ {s}
  <2>1. ASSUME NEW m \in Loops, thread[m].outer # <<>>
        PROVE  /\ OuterSession(m) \in SessionIds
               /\ lock_[OuterSession(m)] = m /\ m # None
    <3>1. /\ Handles(m, OuterUser(m), OuterSession(m))
          /\ lock_[OuterSession(m)] = m
      BY <2>1 DEF IInv, LoopsOK, LoopOK
    <3>2. QED
      BY <3>1, SessionAssumption DEF IInv, Handles, Created
  <2>2. QED
    BY <1>1, <2>1
<1>12. LoopsOK'
  <2>1. ASSUME NEW m \in Loops, m # l PROVE LoopOK(m)'
    BY <1>1, <1>2, <1>4, <1>7, <1>11, <2>1, LoopKept DEF IInv, LoopsOK, TypeOK
  <2>2. Handles(l, u, r)' /\ Handles(l, v, s)' /\ Publishes(v)'
    BY <1>0, <1>2, <1>5, <1>8 DEF Handles, UserOf, Publishes, None
  <2>3. lock_'[s] = l
    BY <1>1, <1>2 DEF IInv, TypeOK
  <2>4. LoopOK(l)'
    BY <1>5, <1>6, <2>2, <2>3 DEF LoopOK
  <2>5. QED
    BY <2>1, <2>4 DEF LoopsOK
<1>13. TimerOK'
  BY <1>3, <1>4 DEF IInv, TimerOK, Threads
<1>14. EnteringFresh'
  <2>1. ASSUME NEW m \in Loops, m # l PROVE EnteringOK(m)'
    BY <1>1, <1>4, <1>5, <1>7, <2>1, EnteringKept
       DEF IInv, LoopsOK, EnteringFresh, Fresh
  <2>2. Fresh(v, s)'
    BY <1>1, <1>2 DEF Fresh
  <2>3. Live(v)' \/ v = u
    BY <1>2, <1>5 DEF Live
  <2>4. EnteringOK(l)'
    BY <1>6, <2>2, <2>3 DEF EnteringOK
  <2>5. QED
    BY <2>1, <2>4 DEF EnteringFresh
<1>15. \A t \in SessionIds :
         /\ Live(publisher_[t])' => Live(publisher_[t])
         /\ publisher_[t] \notin {p, u} =>
              (Live(publisher_[t])' <=> Live(publisher_[t]))
  BY <1>1, <1>5 DEF IInv, TypeOK, Live
<1>16. /\ \A t \in SessionIds : t \notin raced' => t \notin raced
       /\ \A m \in Loops : s \notin raced' => ~ClosesPublisherOf(m, s)
  BY <1>1 DEF PublisherClosing, ClosesPublisherOf
<1>17. \A m \in Loops \ {l} : \A t : ClosesPublisherOf(m, t)' => ClosesPublisherOf(m, t)
  BY <1>4, <1>7, ClosesKept DEF IInv
<1>18. \A t : ClosesPublisherOf(l, t)' =>
         /\ t = r
         /\ t \notin raced => publisher_[t] = u \/ t = s
  <2>1. ASSUME NEW t, ClosesPublisherOf(l, t)', t \notin raced, t # s
        PROVE  publisher_[t] = u
    <3>1. Publishes(u) /\ t = r
      BY <1>5, <1>6, <2>1 DEF ClosesPublisherOf, Publishes
    <3>2. ~EnteringAt(l, u)
      BY <1>0, <1>1, <1>2, <2>1, <3>1 DEF EnteringAt, UserOf
    <3>3. QED
      BY <1>0, <1>1, <2>1, <3>1, <3>2, ThenRegistered
  <2>2. \A t : ClosesPublisherOf(l, t)' => t = r
    BY <1>6 DEF ClosesPublisherOf
  <2>3. QED
    BY <2>1, <2>2
<1>19. ~Live(publisher_[s])'
  BY <1>1, <1>5 DEF Live
<1>20. ClosingAlone'
  <2>1. ASSUME NEW t \in SessionIds, NEW m \in Loops, t \notin raced',
               ClosesPublisherOf(m, t)', t # s
        PROVE  ~Live(publisher_[t])'
    <3>1. CASE m = l
      BY <1>1, <1>5, <1>16, <1>18, <2>1, <3>1 DEF Live
    <3>2. CASE m # l
      BY <1>15, <1>16, <1>17, <2>1, <3>2 DEF IInv, ClosingAlone
    <3>3. QED
      BY <3>1, <3>2
  <2>2. QED
    BY <1>19, <2>1 DEF ClosingAlone
<1>21. ReplacedInside'
  <2>1. ASSUME NEW m \in Loops, m # l, thread'[m].outer # <<>>
        PROVE  /\ ~Live(publisher_[OuterSession(m)])'
               /\ (OuterSession(m) \notin raced =>
                    \A k \in Loops \ {m} : ~ClosesPublisherOf(k, OuterSession(m)))'
    <3>1. PICK t \in SessionIds \ {s} :
            /\ thread[m].outer # <<>> /\ OuterSession(m) = t
            /\ OuterSession(m)' = t
      BY <1>4, <1>11, <2>1 DEF OuterSession
    <3>2. /\ ~Live(publisher_[t])
          /\ t \notin raced => \A k \in Loops \ {m} : ~ClosesPublisherOf(k, t)
      BY <3>1 DEF IInv, ReplacedInside
    <3>3. ~Live(publisher_[t])'
      BY <1>15, <3>1, <3>2
    <3>4. ASSUME t \notin raced', NEW k \in Loops, k # m
          PROVE  ~ClosesPublisherOf(k, t)'
      <4>1. CASE k = l
        BY <1>1, <1>16, <1>18, <3>1, <3>2, <3>4, <4>1
      <4>2. CASE k # l
        BY <1>16, <1>17, <3>1, <3>2, <3>4, <4>2
      <4>3. QED
        BY <4>1, <4>2
    <3>5. QED
      BY <3>1, <3>3, <3>4
  <2>2. s \notin raced' => \A k \in Loops \ {l} : ~ClosesPublisherOf(k, s)'
    BY <1>16, <1>17
  <2>3. QED
    BY <1>6, <1>19, <2>1, <2>2 DEF ReplacedInside
<1>22. /\ \A w \in Users : /\ Closing(w) => Closing(w)'
                           /\ Entering(w) => Entering(w)'
       /\ Closing(u)'
  <2>1. \A w \in Users : EnteringAt(l, w) => w = v
    BY <1>0, <1>1 DEF EnteringAt
  <2>2. EnteringAt(l, v)' /\ ClosingAt(l, u)'
    BY <1>6 DEF EnteringAt, ClosingAt
  <2>3. \A w \in Users : ~ClosingAt(l, w)
    BY <1>1 DEF ClosingAt
  <2>4. QED
    BY <1>2, <1>4, <2>1, <2>2, <2>3, TurnOf
<1>23. PlayersExact'
  BY <1>1, <1>2, <1>5, <1>22 DEF IInv, PlayersExact, Live, UserOf
<1>24. RegisteredPublisherLive'
  <2>1. ASSUME NEW t \in SessionIds, publisher_'[t] # NoOne, lock_'[t] = None
        PROVE  (Live(publisher_[t]) \/ Closing(publisher_[t]))'
    <3>1. t # s /\ lock_[t] = None
      BY <1>1, <1>2, <2>1, SessionAssumption DEF IInv, TypeOK
    <3>2. publisher_[t] \in Users /\ UserOf(publisher_[t], "publish", t)
      BY <1>1, <2>1 DEF IInv, TypeOK, Members
    <3>3. publisher_[t] # p
      BY <1>2, <3>1, <3>2 DEF UserOf
    <3>4. QED
      BY <1>1, <1>15, <1>22, <2>1, <3>1, <3>2, <3>3
         DEF IInv, RegisteredPublisherLive
  <2>2. QED
    BY <2>1 DEF RegisteredPublisherLive
<1>25. LivePublisherRegisteredUnlessRaced'
  <2>1. ASSUME NEW w \in Users, Publishes(w)', Live(w)', ~Entering(w)',
               user'[w].session \notin raced'
        PROVE  publisher_'[user'[w].session] = w
    <3>1. w \notin {p, u}
      BY <1>5, <2>1 DEF Live
    <3>2. user'[w] = user[w]
      BY <1>5, <3>1
    <3>3. user[w].session \in SessionIds
      BY <2>1, <3>2 DEF IInv, Created, Live
    <3>4. QED
      BY <1>1, <1>16, <1>22, <2>1, <3>2, <3>3
         DEF IInv, LivePublisherRegisteredUnlessRaced, Publishes, Live
  <2>2. QED
    BY <2>1 DEF LivePublisherRegisteredUnlessRaced
<1>26. QED
  BY <1>9, <1>10, <1>12, <1>13, <1>14, <1>20, <1>21, <1>23, <1>24, <1>25
     DEF IInv

-----------------------------------------------------------------------------
(* The locked half of CloseUser, and the rest of the SetPublisher around it. *)
LEMMA CloseUserStep ==
  ASSUME IInv, NEW l \in Loops, CloseUser(l)
  PROVE  IInv'
<1> DEFINE inside == thread[l].outer # <<>>
<1>0. PICK s, u, o, v : /\ s = thread[l].session /\ u = thread[l].user
                        /\ o = OuterSession(l) /\ v = OuterUser(l)
  OBVIOUS
<1>1. /\ thread[l].at = "close_user" /\ lock_[s] = None
      /\ players_' = Forget(s, u, publisher_, players_)[2]
      /\ thread' = [thread EXCEPT ![l] = Idle]
      /\ ~inside => /\ publisher_' = Forget(s, u, publisher_, players_)[1]
                    /\ lock_' = lock_
      /\ inside =>
           /\ publisher_' = [Forget(s, u, publisher_, players_)[1] EXCEPT ![o] = v]
           /\ lock_' = [lock_ EXCEPT ![o] = None]
      /\ UNCHANGED <<sessions_, created, service_lock, user, commands, open,
                     tasks, raced>>
  BY <1>0 DEF CloseUser, OuterSession, OuterUser
<1>2. /\ u \in Users /\ s \in SessionIds /\ LoopOf[ConnOf(u)] = l
      /\ user[u].kind \in {"play", "publish"} /\ user[u].session = s
      /\ user[u].destroyed
  <2>1. Handles(l, u, s) /\ user[u].destroyed
    BY <1>0, <1>1 DEF IInv, LoopsOK, LoopOK
  <2>2. user[u] \in UserRecord
    BY <2>1 DEF Handles, IInv, TypeOK
  <2>3. QED
    BY <2>1, <2>2 DEF Handles, IInv, Created, UserRecord
<1>3. inside => /\ v \in Users /\ o \in SessionIds \ {s} /\ LoopOf[ConnOf(v)] = l
                /\ UserOf(v, "publish", o) /\ Live(v) /\ Fresh(v, o)
                /\ lock_[o] = l
  <2>1. SUFFICES ASSUME inside
                 PROVE  /\ v \in Users /\ o \in SessionIds \ {s}
                        /\ LoopOf[ConnOf(v)] = l
                        /\ UserOf(v, "publish", o) /\ Live(v) /\ Fresh(v, o)
                        /\ lock_[o] = l
    OBVIOUS
  <2>2. Handles(l, v, o) /\ Publishes(v) /\ lock_[o] = l
    BY <1>0, <2>1 DEF IInv, LoopsOK, LoopOK
  <2>3. o \in SessionIds \ {s}
    BY <1>1, <2>2, SessionAssumption DEF Handles, IInv, Created
  <2>4. u # v
    BY <1>2, <2>2, <2>3 DEF Handles
  <2>5. Live(v) /\ Fresh(v, o)
    BY <1>0, <2>1, <2>4 DEF IInv, EnteringFresh, EnteringOK
  <2>6. QED
    BY <2>2, <2>3, <2>5 DEF Handles, Publishes, UserOf
<1>4. l # Timer /\ l \in Threads
  BY SessionAssumption DEF Threads
<1>5. /\ thread'[l] = Idle
      /\ \A m \in Threads \ {l} : thread'[m] = thread[m]
      /\ \A m \in Loops \ {l} : thread'[m] = thread[m]
  BY <1>1, <1>4 DEF IInv, TypeOK, Threads
<1>6. /\ players_' = IF user[u].kind = "publish" THEN players_
                     ELSE [players_ EXCEPT ![s] = @ \ {u}]
      /\ players_' \in [SessionIds -> SUBSET Users]
      /\ \A t \in SessionIds : \A w : w \in players_'[t] <=>
           w \in players_[t] /\ ~(t = s /\ w = u /\ user[u].kind = "play")
  <2>1. players_' = IF user[u].kind = "publish" THEN players_
                    ELSE [players_ EXCEPT ![s] = @ \ {u}]
    BY <1>1 DEF Forget, Publishes
  <2>2. CASE user[u].kind = "publish"
    BY <2>1, <2>2 DEF IInv, TypeOK
  <2>3. CASE user[u].kind = "play"
    BY <1>2, <2>1, <2>3 DEF IInv, TypeOK
  <2>4. QED
    BY <1>2, <2>1, <2>2, <2>3
<1>7. PICK f : /\ f = Forget(s, u, publisher_, players_)[1]
               /\ f = IF user[u].kind = "publish"
                      THEN [publisher_ EXCEPT ![s] = NoOne] ELSE publisher_
               /\ f \in [SessionIds -> Users \cup {NoOne}]
  <2>1. Forget(s, u, publisher_, players_)[1] =
          IF user[u].kind = "publish"
          THEN [publisher_ EXCEPT ![s] = NoOne] ELSE publisher_
    BY DEF Forget, Publishes
  <2>2. /\ publisher_ \in [SessionIds -> Users \cup {NoOne}]
        /\ [publisher_ EXCEPT ![s] = NoOne] \in
             [SessionIds -> Users \cup {NoOne}]
    BY DEF IInv, TypeOK
  <2>3. QED
    BY <2>1, <2>2
<1>8. /\ publisher_' \in [SessionIds -> Users \cup {NoOne}]
      /\ lock_' \in [SessionIds -> Loops \cup {None}]
      /\ \A t \in SessionIds :
           /\ inside /\ t = o => publisher_'[t] = v
           /\ ~(inside /\ t = o) =>
                /\ lock_'[t] = lock_[t]
                /\ publisher_'[t] =
                     IF t = s /\ user[u].kind = "publish" THEN NoOne
                     ELSE publisher_[t]
  <2>1. \A t \in SessionIds :
          f[t] = IF t = s /\ user[u].kind = "publish" THEN NoOne ELSE publisher_[t]
    BY <1>2, <1>7 DEF IInv, TypeOK
  <2>2. CASE ~inside
    BY <1>1, <1>7, <2>1, <2>2 DEF IInv, TypeOK
  <2>3. CASE inside
    <3>1. publisher_' = [f EXCEPT ![o] = v] /\ lock_' = [lock_ EXCEPT ![o] = None]
      BY <1>1, <1>7, <2>3
    <3>2. lock_ \in [SessionIds -> Loops \cup {None}]
      BY DEF IInv, TypeOK
    <3>3. QED
      BY <1>3, <1>7, <2>1, <2>3, <3>1, <3>2
  <2>4. QED
    BY <2>2, <2>3
<1> HIDE DEF inside
<1>9. UsersKept
  BY <1>1 DEF UsersKept
<1>10. TypeOK'
  BY <1>1, <1>6, <1>8, IdleType DEF IInv, TypeOK
<1>11. Created' /\ Members'
  <2>1. Created'
    BY <1>1 DEF IInv, Created
  <2>2. \A w, k, t : UserOf(w, k, t)' <=> UserOf(w, k, t)
    BY <1>1 DEF UserOf
  <2>3. Members'
    BY <1>3, <1>6, <1>8, <2>2 DEF IInv, Members
  <2>4. QED
    BY <2>1, <2>3
<1>12. \A m \in Loops \ {l} : thread[m].outer # <<>> =>
         /\ OuterSession(m) \in SessionIds
         /\ inside => OuterSession(m) # o
  <2>1. ASSUME NEW m \in Loops, thread[m].outer # <<>>
        PROVE  OuterSession(m) \in SessionIds /\ lock_[OuterSession(m)] = m
    <3>1. /\ Handles(m, OuterUser(m), OuterSession(m))
          /\ lock_[OuterSession(m)] = m
      BY <2>1 DEF IInv, LoopsOK, LoopOK
    <3>2. QED
      BY <3>1 DEF IInv, Handles, Created
  <2>2. QED
    BY <1>3, <2>1
<1>13. LoopsOK'
  <2>1. ASSUME NEW m \in Loops, m # l PROVE LoopOK(m)'
    BY <1>5, <1>8, <1>9, <1>12, <2>1, LoopKept DEF IInv, LoopsOK
  <2>2. LoopOK(l)'
    BY <1>5, IdleParts DEF LoopOK
  <2>3. QED
    BY <2>1, <2>2 DEF LoopsOK
<1>14. TimerOK'
  BY <1>4, <1>5 DEF IInv, TimerOK, Threads
<1>15. EnteringFresh'
  <2>1. ASSUME NEW m \in Loops, m # l PROVE EnteringOK(m)'
    <3>1. \A w \in Users, t \in SessionIds :
            LoopOf[ConnOf(w)] = m /\ Fresh(w, t) => Fresh(w, t)'
      BY <1>3, <1>6, <1>8, <2>1, NoOneIsNoUser DEF Fresh
    <3>2. QED
      BY <1>1, <1>5, <1>9, <2>1, <3>1, EnteringKept
         DEF IInv, LoopsOK, EnteringFresh
  <2>2. EnteringOK(l)'
    BY <1>5, IdleParts DEF EnteringOK
  <2>3. QED
    BY <2>1, <2>2 DEF EnteringFresh
<1>16. \A m \in Loops : \A t : ClosesPublisherOf(m, t)' =>
         m # l /\ ClosesPublisherOf(m, t)
  BY <1>5, <1>9, ClosesKept, IdleParts DEF IInv, ClosesPublisherOf
<1>17. \A t \in SessionIds :
         Live(publisher_[t])' => Live(publisher_[t]) \/ (inside /\ t = o)
  <2>1. ASSUME NEW t \in SessionIds, ~(inside /\ t = o)
        PROVE  Live(publisher_[t])' => Live(publisher_[t])
    BY <1>1, <1>8, <2>1 DEF Live
  <2>2. QED
    BY <2>1
<1>18. ClosingAlone'
  <2>1. inside => (o \notin raced =>
          \A m \in Loops \ {l} : ~ClosesPublisherOf(m, o))
    BY <1>0 DEF IInv, ReplacedInside, inside
  <2>2. QED
    BY <1>1, <1>16, <1>17, <2>1 DEF IInv, ClosingAlone
<1>19. ReplacedInside'
  <2>1. ASSUME NEW m \in Loops, thread'[m].outer # <<>>
        PROVE  /\ m # l /\ thread[m].outer # <<>>
               /\ OuterSession(m)' = OuterSession(m)
    BY <1>5, <2>1, IdleParts DEF OuterSession
  <2>2. QED
    BY <1>1, <1>12, <1>16, <1>17, <2>1 DEF IInv, ReplacedInside
<1>20. \A w \in Users :
         /\ w # u /\ Closing(w) => Closing(w)'
         /\ Entering(w) => Entering(w)' \/ (inside /\ w = v)
  <2>1. \A w \in Users : /\ ClosingAt(l, w) => w = u
                         /\ EnteringAt(l, w) => inside /\ w = v
    BY <1>0, <1>1 DEF ClosingAt, EnteringAt, inside
  <2>2. QED
    BY <1>5, <2>1, TurnOf
<1>21. PlayersExact'
  <2>1. ASSUME NEW w \in Users, user[w].kind = "play",
               w \in players_'[user[w].session]
        PROVE  (Live(w) \/ Closing(w))'
    <3>1. user[w].session \in SessionIds
      BY <2>1 DEF IInv, Created, None
    <3>2. w \in players_[user[w].session] /\ w # u
      BY <1>2, <1>6, <2>1, <3>1
    <3>3. Live(w) \/ Closing(w)
      BY <2>1, <3>2 DEF IInv, PlayersExact
    <3>4. QED
      BY <1>1, <1>20, <3>2, <3>3 DEF Live
  <2>2. ASSUME NEW w \in Users, user[w].kind = "play", Live(w), ~Entering(w)'
        PROVE  w \in players_'[user[w].session]
    <3>1. user[w].session \in SessionIds /\ w # u
      BY <1>2, <2>2 DEF IInv, Created, Live
    <3>2. ~Entering(w)
      BY <1>3, <1>20, <2>2 DEF UserOf
    <3>3. QED
      BY <1>6, <2>2, <3>1, <3>2 DEF IInv, PlayersExact
  <2>3. QED
    BY <1>1, <2>1, <2>2 DEF PlayersExact, Live
<1>22. RegisteredPublisherLive'
  <2>1. ASSUME NEW t \in SessionIds, publisher_'[t] # NoOne, lock_'[t] = None
        PROVE  (Live(publisher_[t]) \/ Closing(publisher_[t]))'
    <3>1. CASE inside /\ t = o
      BY <1>1, <1>3, <1>8, <3>1 DEF Live
    <3>2. CASE ~(inside /\ t = o)
      <4>1. PICK q : /\ q = publisher_'[t] /\ q = publisher_[t] /\ q # NoOne
                     /\ lock_[t] = None
                     /\ ~(t = s /\ user[u].kind = "publish")
        BY <1>8, <2>1, <3>2
      <4>2. Live(q) \/ Closing(q)
        BY <4>1 DEF IInv, RegisteredPublisherLive
      <4>3. q \in Users /\ UserOf(q, "publish", t)
        BY <4>1 DEF IInv, TypeOK, Members
      <4>4. q # u
        BY <1>2, <4>1, <4>3 DEF UserOf
      <4>5. QED
        BY <1>1, <1>20, <4>1, <4>2, <4>3, <4>4 DEF Live
    <3>3. QED
      BY <3>1, <3>2
  <2>2. QED
    BY <2>1 DEF RegisteredPublisherLive
<1>23. LivePublisherRegisteredUnlessRaced'
  <2>1. ASSUME NEW w \in Users, Publishes(w), Live(w), ~Entering(w)',
               user[w].session \notin raced
        PROVE  publisher_'[user[w].session] = w
    <3>1. user[w].session \in SessionIds
      BY <2>1 DEF IInv, Created, Live
    <3>2. CASE inside /\ w = v
      BY <1>3, <1>8, <3>1, <3>2 DEF UserOf
    <3>3. CASE ~(inside /\ w = v)
      <4>1. publisher_[user[w].session] = w
        BY <1>20, <2>1, <3>3 DEF IInv, LivePublisherRegisteredUnlessRaced
      <4>2. ~(user[w].session = s /\ user[u].kind = "publish")
        BY <1>0, <1>1, <1>2, <2>1, <4>1
           DEF IInv, ClosingAlone, ClosesPublisherOf, Publishes
      <4>3. ~(inside /\ user[w].session = o)
        BY <1>0, <2>1, <4>1 DEF IInv, ReplacedInside, inside
      <4>4. QED
        BY <1>8, <3>1, <4>1, <4>2, <4>3
    <3>4. QED
      BY <3>2, <3>3
  <2>2. QED
    BY <1>1, <2>1 DEF LivePublisherRegisteredUnlessRaced, Publishes, Live
<1>24. QED
  BY <1>10, <1>11, <1>13, <1>14, <1>15, <1>18, <1>19, <1>21, <1>22, <1>23
     DEF IInv

-----------------------------------------------------------------------------
(* A step that changes nothing a loop or a session depends on.              *)
LEMMA Untouched ==
  ASSUME IInv, TypeOK', TimerOK', \A l \in Loops : thread'[l] = thread[l],
         UNCHANGED <<publisher_, players_, lock_, user, commands, raced>>
  PROVE  IInv'
<1>1. UsersKept
  BY DEF UsersKept
<1>2. Created' /\ Members'
  BY DEF IInv, Created, Members, UserOf
<1>3. LoopsOK'
  BY <1>1, LoopKept DEF IInv, LoopsOK
<1>4. EnteringFresh'
  BY DEF IInv, EnteringFresh, EnteringOK, Live, Fresh, OuterUser, OuterSession
<1>5. /\ \A u : (Closing(u)' <=> Closing(u)) /\ (Entering(u)' <=> Entering(u))
      /\ \A u : Live(u)' <=> Live(u)
      /\ \A l \in Loops : \A s : ClosesPublisherOf(l, s)' <=> ClosesPublisherOf(l, s)
  BY DEF Closing, Entering, Live, ClosesPublisherOf, Publishes
<1>6. ClosingAlone'
  BY <1>5 DEF IInv, ClosingAlone, Live
<1>7. ReplacedInside'
  BY <1>5 DEF IInv, ReplacedInside, OuterSession, Live
<1>8. PlayersExact'
  BY <1>5 DEF IInv, PlayersExact
<1>9. RegisteredPublisherLive'
  <2>1. \A s \in SessionIds :
          Closing(publisher_[s])' <=> Closing(publisher_[s])
    BY DEF Closing
  <2>2. QED
    BY <2>1 DEF IInv, RegisteredPublisherLive, Live
<1>10. LivePublisherRegisteredUnlessRaced'
  BY <1>5 DEF IInv, LivePublisherRegisteredUnlessRaced, Publishes
<1>11. QED
  BY <1>2, <1>3, <1>4, <1>6, <1>7, <1>8, <1>9, <1>10 DEF IInv

-----------------------------------------------------------------------------
(* Clear destroys the live members of its session and empties it.           *)
LEMMA ClearStep ==
  ASSUME IInv, Clear
  PROVE  IInv'
<1>0. PICK s, p, name, living :
        /\ s = thread[Timer].session /\ p = publisher_[s]
        /\ name = thread[Timer].name
        /\ living = {u \in players_[s] \cup {u \in Users : u = p} : Live(u)}
  OBVIOUS
<1>1. PICK closed \in SUBSET living :
        /\ IF Live(p) THEN closed = {p}
           ELSE IF p # NoOne /\ living # {} THEN Cardinality(closed) = 1
           ELSE closed = {}
        /\ tasks' = [l \in Loops |->
             IF \E u \in closed : LoopOf[ConnOf(u)] = l
             THEN Append(tasks[l], ConnOf(CHOOSE u \in closed : TRUE))
             ELSE tasks[l]]
        /\ publisher_' = IF closed = {} THEN publisher_
                         ELSE [publisher_ EXCEPT ![s] = NoOne]
  BY <1>0 DEF Clear
<1>2. /\ thread[Timer].at = "clear" /\ lock_[s] = None
      /\ user' = [u \in Users |-> IF u \in living
                                  THEN [user[u] EXCEPT !.destroyed = TRUE]
                                  ELSE user[u]]
      /\ players_' = [players_ EXCEPT ![s] = {}]
      /\ sessions_' = [sessions_ EXCEPT ![name] = 0]
      /\ service_lock' = None
      /\ thread' = [thread EXCEPT ![Timer] = Idle]
      /\ UNCHANGED <<created, lock_, commands, open, raced>>
  BY <1>0 DEF Clear
<1>3. s \in SessionIds /\ name \in Names
  BY <1>0, <1>2 DEF IInv, TimerOK
<1>4. /\ \A l \in Loops : thread'[l] = thread[l]
      /\ thread'[Timer] = Idle
  BY <1>2, SessionAssumption DEF IInv, TypeOK, Threads
<1>5. \A u \in living : /\ u \in Users /\ Live(u) /\ user[u].session = s
                        /\ ~Fresh(u, s)
  BY <1>0, <1>3, NoOneIsNoUser DEF IInv, TypeOK, Members, UserOf, Fresh
<1>6. /\ user' \in [Users -> UserRecord]
      /\ \A u \in living : user'[u].destroyed
      /\ \A u \in Users : user'[u].kind = user[u].kind
                          /\ user'[u].session = user[u].session
      /\ \A u \in Users : u \notin living => user'[u] = user[u]
  <2>1. \A u \in Users : user[u] \in UserRecord
    BY DEF IInv, TypeOK
  <2>2. ASSUME NEW u \in Users
        PROVE  /\ user'[u] \in UserRecord
               /\ u \in living => user'[u].destroyed
               /\ user'[u].kind = user[u].kind
               /\ user'[u].session = user[u].session
               /\ u \notin living => user'[u] = user[u]
    <3>1. user'[u] = IF u \in living THEN [user[u] EXCEPT !.destroyed = TRUE]
                     ELSE user[u]
      BY <1>2
    <3>2. QED
      BY <2>1, <3>1, MarkedRecord
  <2>3. user' \in [Users -> UserRecord]
    BY <1>2, <2>2
  <2>4. QED
    BY <1>5, <2>2, <2>3
<1>7. UsersKept
  BY <1>5, <1>6 DEF UsersKept, Live
<1>8. /\ publisher_' \in [SessionIds -> Users \cup {NoOne}]
      /\ \A t \in SessionIds :
           publisher_'[t] = IF t = s /\ closed # {} THEN NoOne ELSE publisher_[t]
  BY <1>1, <1>3 DEF IInv, TypeOK
<1>9. /\ players_' \in [SessionIds -> SUBSET Users]
      /\ \A t \in SessionIds :
           players_'[t] = IF t = s THEN {} ELSE players_[t]
  BY <1>2, <1>3 DEF IInv, TypeOK
<1>10. closed = {} => ~Live(p) /\ (p = NoOne \/ living = {})
  BY <1>1, FS_EmptySet
<1>11. TypeOK'
  <2>1. tasks' \in [Loops -> Seq(Conns)]
    <3>1. ASSUME NEW l \in Loops, NEW v \in closed
          PROVE  Append(tasks[l], ConnOf(CHOOSE u \in closed : TRUE)) \in Seq(Conns)
      <4>1. (CHOOSE u \in closed : TRUE) \in closed
        OBVIOUS
      <4>2. ConnOf(CHOOSE u \in closed : TRUE) \in Conns
        BY <1>5, <4>1, UserParts
      <4>3. tasks[l] \in Seq(Conns)
        BY DEF IInv, TypeOK
      <4>4. QED
        BY <4>2, <4>3
    <3>2. \A l \in Loops : tasks[l] \in Seq(Conns)
      BY DEF IInv, TypeOK
    <3>3. ASSUME NEW l \in Loops
          PROVE  (IF \E u \in closed : LoopOf[ConnOf(u)] = l
                  THEN Append(tasks[l], ConnOf(CHOOSE u \in closed : TRUE))
                  ELSE tasks[l]) \in Seq(Conns)
      BY <3>1, <3>2
    <3>4. QED
      BY <1>1, <3>3
  <2>2. sessions_' \in [Names -> 0 .. MaxSessions]
    BY <1>2, <1>3, SessionAssumption DEF IInv, TypeOK
  <2>3. thread' \in [Threads -> ThreadRecord]
    BY <1>2, IdleType DEF IInv, TypeOK
  <2>4. QED
    BY <1>2, <1>6, <1>8, <1>9, <2>1, <2>2, <2>3 DEF IInv, TypeOK
<1>12. Created' /\ Members'
  <2>1. Created'
    BY <1>2, <1>6 DEF IInv, Created
  <2>2. \A u \in Users : \A k, t : UserOf(u, k, t)' <=> UserOf(u, k, t)
    BY <1>6 DEF UserOf
  <2>3. \A t \in SessionIds :
          /\ publisher_[t] # NoOne => publisher_[t] \in Users
          /\ players_[t] \subseteq Users
    BY DEF IInv, TypeOK
  <2>4. Members'
    BY <1>8, <1>9, <2>2, <2>3 DEF IInv, Members
  <2>5. QED
    BY <2>1, <2>4
<1>13. LoopsOK'
  BY <1>2, <1>4, <1>7, LoopKept DEF IInv, LoopsOK
<1>14. TimerOK'
  BY <1>4, IdleParts DEF TimerOK
<1>15. EnteringFresh'
  <2>1. \A u \in Users : user'[u].destroyed =>
                           user[u].destroyed \/ ~Fresh(u, user[u].session)
    BY <1>5, <1>6
  <2>2. \A u \in Users, t \in SessionIds : Fresh(u, t) => Fresh(u, t)'
    BY <1>8, <1>9, NoOneIsNoUser DEF Fresh
  <2>3. QED
    BY <1>4, <1>7, <2>1, <2>2, EnteringKept DEF IInv, LoopsOK, EnteringFresh
<1>16. \A m \in Loops : \A t : ClosesPublisherOf(m, t)' => ClosesPublisherOf(m, t)
  <2>1. ASSUME NEW m \in Loops, thread[m].at = "close_user"
        PROVE  user'[thread[m].user].kind = user[thread[m].user].kind
    BY <1>6, <2>1 DEF IInv, LoopsOK, LoopOK, Handles
  <2>2. QED
    BY <1>4, <2>1 DEF ClosesPublisherOf, Publishes
<1>17. \A t \in SessionIds : Live(publisher_[t])' => Live(publisher_[t])
  <2>1. ASSUME NEW t \in SessionIds, Live(publisher_[t])'
        PROVE  Live(publisher_[t])
    <3>1. publisher_'[t] # NoOne
      BY <2>1 DEF Live
    <3>2. publisher_'[t] = publisher_[t] /\ publisher_[t] \in Users
      BY <1>8, <3>1 DEF IInv, TypeOK
    <3>3. QED
      BY <1>6, <2>1, <3>2 DEF Live
  <2>2. QED
    BY <2>1
<1>18. ClosingAlone'
  BY <1>2, <1>16, <1>17 DEF IInv, ClosingAlone
<1>19. ReplacedInside'
  <2>1. ASSUME NEW m \in Loops, thread'[m].outer # <<>>
        PROVE  /\ thread[m].outer # <<>>
               /\ OuterSession(m)' = OuterSession(m)
               /\ OuterSession(m) \in SessionIds
    BY <1>4, <2>1 DEF OuterSession, IInv, LoopsOK, LoopOK, Handles, Created
  <2>2. QED
    BY <1>2, <1>16, <1>17, <2>1 DEF IInv, ReplacedInside
<1>20. \A u : (Closing(u)' <=> Closing(u)) /\ (Entering(u)' <=> Entering(u))
  BY <1>4 DEF Closing, Entering
<1>21. PlayersExact'
  <2>1. ASSUME NEW u \in Users, user[u].kind = "play",
               u \in players_'[user[u].session]
        PROVE  (Live(u) \/ Closing(u))'
    <3>1. user[u].session \in SessionIds
      BY <2>1 DEF IInv, Created, None
    <3>2. u \in players_[user[u].session] /\ user[u].session # s
      BY <1>9, <2>1, <3>1
    <3>3. user'[u] = user[u]
      BY <1>5, <1>6, <3>2
    <3>4. QED
      BY <1>20, <2>1, <3>2, <3>3 DEF IInv, PlayersExact, Live
  <2>2. ASSUME NEW u \in Users, user[u].kind = "play", Live(u)', ~Entering(u)'
        PROVE  u \in players_'[user[u].session]
    <3>1. user[u].session \in SessionIds
      BY <2>2 DEF IInv, Created, None
    <3>2. u \notin living
      BY <1>6, <2>2 DEF Live
    <3>3. Live(u)
      BY <1>6, <2>2, <3>2 DEF Live
    <3>4. u \in players_[user[u].session]
      BY <1>20, <2>2, <3>3 DEF IInv, PlayersExact
    <3>5. user[u].session # s
      BY <1>0, <3>2, <3>3, <3>4
    <3>6. QED
      BY <1>9, <3>1, <3>4, <3>5
  <2>3. QED
    BY <1>6, <2>1, <2>2 DEF PlayersExact
<1>22. RegisteredPublisherLive'
  <2>1. ASSUME NEW t \in SessionIds, publisher_'[t] # NoOne, lock_'[t] = None
        PROVE  (Live(publisher_[t]) \/ Closing(publisher_[t]))'
    <3>1. PICK q : /\ q = publisher_'[t] /\ q = publisher_[t] /\ q # NoOne
                   /\ ~(t = s /\ closed # {}) /\ lock_[t] = None
      BY <1>2, <1>8, <2>1
    <3>2. Live(q) \/ Closing(q)
      BY <3>1 DEF IInv, RegisteredPublisherLive
    <3>3. q \in Users /\ UserOf(q, "publish", t)
      BY <3>1 DEF IInv, TypeOK, Members
    <3>4. CASE t = s
      BY <1>0, <1>10, <1>20, <3>1, <3>2, <3>4
    <3>5. CASE t # s
      <4>1. user'[q] = user[q]
        BY <1>5, <1>6, <3>3, <3>5 DEF UserOf
      <4>2. QED
        BY <1>20, <3>1, <3>2, <4>1 DEF Live
    <3>6. QED
      BY <3>4, <3>5
  <2>2. QED
    BY <2>1 DEF RegisteredPublisherLive
<1>23. LivePublisherRegisteredUnlessRaced'
  <2>1. ASSUME NEW u \in Users, Publishes(u), Live(u)', ~Entering(u)',
               user[u].session \notin raced
        PROVE  publisher_'[user[u].session] = u
    <3>1. u \notin living
      BY <1>6, <2>1 DEF Live
    <3>2. Live(u) /\ user[u].session \in SessionIds
      BY <1>6, <2>1, <3>1 DEF Live, IInv, Created
    <3>3. publisher_[user[u].session] = u
      BY <1>20, <2>1, <3>2 DEF IInv, LivePublisherRegisteredUnlessRaced
    <3>4. user[u].session # s
      BY <1>0, <3>1, <3>2, <3>3
    <3>5. QED
      BY <1>8, <3>2, <3>3, <3>4
  <2>2. QED
    BY <1>2, <1>6, <2>1 DEF LivePublisherRegisteredUnlessRaced, Publishes
<1>24. QED
  BY <1>11, <1>12, <1>13, <1>14, <1>15, <1>18, <1>19, <1>21, <1>22, <1>23
     DEF IInv

-----------------------------------------------------------------------------
(* The initial state and every step.                                        *)
LEMMA InitIInv == Init => IInv
<1> SUFFICES ASSUME Init PROVE IInv
  OBVIOUS
<1>1. TypeOK
  <2>1. NoUser \in UserRecord
    BY SessionAssumption DEF NoUser, UserRecord
  <2>2. QED
    BY <2>1, IdleType, SessionAssumption DEF Init, TypeOK, Threads
<1>2. /\ \A u \in Users : user[u].kind = None /\ user[u].session = 0
      /\ \A s \in SessionIds : publisher_[s] = NoOne /\ players_[s] = {}
      /\ \A t \in Threads : thread[t].at = "idle" /\ thread[t].outer = <<>>
  BY IdleParts DEF Init, NoUser
<1>3. \A l \in Loops : thread[l].at = "idle" /\ thread[l].outer = <<>>
  BY <1>2 DEF Threads
<1>4. Created /\ Members
  BY <1>2 DEF Created, Members
<1>5. LoopsOK /\ TimerOK
  BY <1>2, <1>3 DEF LoopsOK, LoopOK, TimerOK, Threads
<1>6. EnteringFresh /\ ClosingAlone /\ ReplacedInside
  BY <1>3 DEF EnteringFresh, EnteringOK, ClosingAlone, ClosesPublisherOf,
              ReplacedInside
<1>7. PlayersExact /\ LivePublisherRegisteredUnlessRaced
  BY <1>2 DEF PlayersExact, LivePublisherRegisteredUnlessRaced, Publishes, None
<1>8. RegisteredPublisherLive
  BY <1>2 DEF RegisteredPublisherLive
<1>9. QED
  BY <1>1, <1>4, <1>5, <1>6, <1>7, <1>8 DEF IInv

LEMMA SetPublisherStep ==
  ASSUME IInv, NEW l \in Loops, SetPublisher(l)
  PROVE  IInv'
<1>1. Published(l)
  BY DEF SetPublisher, Published
<1>2. open' \in [Conns -> BOOLEAN] /\ tasks' \in [Loops -> Seq(Conns)]
  BY DEF SetPublisher, IInv, TypeOK
<1>3. QED
  BY <1>1, <1>2, PublishedStep

(* The registered publisher is a user of some connection.                   *)
LEMMA RegisteredIsUser ==
  ASSUME IInv, NEW l \in Loops, thread[l].at = "set_publisher",
         Live(publisher_[thread[l].session])
  PROVE  /\ publisher_[thread[l].session] \in Users
         /\ thread[l].session \in SessionIds
<1>1. thread[l].session \in SessionIds
  BY DEF IInv, LoopsOK, LoopOK, Handles, Created
<1>2. QED
  BY <1>1 DEF IInv, TypeOK, Live

LEMMA ReplaceRemoteStep ==
  ASSUME IInv, NEW l \in Loops, ReplaceRemote(l)
  PROVE  IInv'
<1>1. Published(l)
  BY DEF ReplaceRemote, Published
<1>2. PICK p : /\ p = publisher_[thread[l].session] /\ p \in Users
               /\ tasks' = [tasks EXCEPT ![LoopOf[ConnOf(p)]] =
                              Append(@, ConnOf(p))]
  BY RegisteredIsUser DEF ReplaceRemote
<1>3. /\ ConnOf(p) \in Conns
      /\ tasks \in [Loops -> Seq(Conns)] /\ open \in [Conns -> BOOLEAN]
  BY <1>2, UserParts DEF IInv, TypeOK
<1>4. tasks' \in [Loops -> Seq(Conns)]
  <2>1. PICK m : m = LoopOf[ConnOf(p)] /\ m \in Loops
    BY <1>3, SessionAssumption
  <2>2. Append(tasks[m], ConnOf(p)) \in Seq(Conns)
    BY <1>3, <2>1
  <2>3. tasks' = [tasks EXCEPT ![m] = Append(tasks[m], ConnOf(p))]
    BY <1>2, <2>1
  <2>4. QED
    BY <1>3, <2>1, <2>2, <2>3
<1>5. open' \in [Conns -> BOOLEAN]
  BY <1>3 DEF ReplaceRemote
<1>6. QED
  BY <1>1, <1>4, <1>5, PublishedStep

LEMMA ReplaceLocalStep ==
  ASSUME IInv, NEW l \in Loops, ReplaceLocal(l)
  PROVE  IInv'
<1>1. PICK p, c, v : /\ p = publisher_[thread[l].session] /\ p \in Users
                     /\ c = ConnOf(p) /\ c \in Conns /\ v = Context(c)
  BY RegisteredIsUser, UserParts DEF ReplaceLocal
<1>2. open' \in [Conns -> BOOLEAN] /\ tasks' \in [Loops -> Seq(Conns)]
  BY <1>1 DEF ReplaceLocal, IInv, TypeOK
<1>3. CASE open[c] /\ v # p /\ Live(v)
  <2>1. v \in Users /\ ConnOf(v) = c
    BY <1>1, <1>3, ContextIsUser DEF Live, IInv, TypeOK
  <2>2. LoopOf[ConnOf(p)] = l /\ LoopOf[ConnOf(v)] = l
    BY <1>1, <2>1 DEF ReplaceLocal
  <2>3. ClosingInside(l, p, v)
    BY <1>1, <1>3 DEF ReplaceLocal, ClosingInside
  <2>4. QED
    BY <1>1, <1>2, <2>1, <2>2, <2>3, ClosingInsideStep
<1>4. CASE ~(open[c] /\ v # p /\ Live(v))
  <2>1. Published(l)
    BY <1>1, <1>4 DEF ReplaceLocal, Published
  <2>2. QED
    BY <1>2, <2>1, PublishedStep
<1>5. QED
  BY <1>3, <1>4

LEMMA OnCloseStep ==
  ASSUME IInv, NEW c \in Conns, NEW queued \in Seq(Conns), OnClose(c, queued)
  PROVE  IInv'
<1>1. PICK u, l : u = Context(c) /\ l = LoopOf[c] /\ l \in Loops
  BY SessionAssumption
<1>2. open' \in [Conns -> BOOLEAN] /\ tasks' \in [Loops -> Seq(Conns)]
  BY DEF OnClose, IInv, TypeOK
<1>3. CASE open[c] /\ Live(u)
  <2>1. u \in Users /\ ConnOf(u) = c
    BY <1>1, <1>3, ContextIsUser DEF Live, IInv, TypeOK
  <2>2. ClosingStarts(l, u)
    BY <1>1, <1>3 DEF OnClose, ClosingStarts
  <2>3. QED
    BY <1>1, <1>2, <2>1, <2>2, ClosingStartsStep
<1>4. CASE ~(open[c] /\ Live(u))
  <2>1. UNCHANGED <<user, thread>> /\ UNCHANGED <<sessions_, created,
                service_lock, publisher_, players_, lock_, commands, raced>>
    BY <1>1, <1>4 DEF OnClose
  <2>2. TypeOK' /\ TimerOK'
    BY <1>2, <2>1 DEF IInv, TypeOK, TimerOK
  <2>3. QED
    BY <2>1, <2>2, Untouched
<1>5. QED
  BY <1>3, <1>4

LEMMA StartClearStep ==
  ASSUME IInv, NEW name \in Names, sessions_[name] # 0, StartClear(name)
  PROVE  IInv'
<1>1. sessions_[name] \in SessionIds /\ sessions_[name] \in 0 .. MaxSessions
  BY SessionAssumption DEF IInv, TypeOK, SessionIds
<1>2. PICK r : /\ r = [at |-> "clear", user |-> NoOne,
                       session |-> sessions_[name], name |-> name,
                       outer |-> <<>>]
               /\ r \in ThreadRecord
  <2>1. PICK n : n = sessions_[name] /\ n \in 0 .. MaxSessions
    BY <1>1
  <2>2. [at |-> "clear", user |-> NoOne, session |-> n, name |-> name,
         outer |-> <<>>] \in ThreadRecord
    BY <2>1 DEF ThreadRecord
  <2>3. QED
    BY <2>1, <2>2
<1>3. thread' = [thread EXCEPT ![Timer] = r]
  BY <1>2 DEF StartClear
<1>4. (\A l \in Loops : thread'[l] = thread[l]) /\ thread'[Timer] = r
  BY <1>3, SessionAssumption DEF IInv, TypeOK, Threads
<1>5. TypeOK'
  BY <1>2, <1>3 DEF StartClear, IInv, TypeOK
<1>6. TimerOK'
  BY <1>1, <1>2, <1>4 DEF TimerOK
<1>7. QED
  BY <1>4, <1>5, <1>6, Untouched DEF StartClear

LEMMA NextIInv == IInv /\ [Next]_vars => IInv'
<1> SUFFICES ASSUME IInv, [Next]_vars PROVE IInv'
  OBVIOUS
<1>1. ASSUME NEW c \in Conns, NEW kind \in {"play", "publish"},
             NEW name \in Names, Command(c, kind, name)
      PROVE  IInv'
  BY <1>1, CommandStep
<1>2. ASSUME NEW c \in Conns, PeerCloses(c) PROVE IInv'
  <2>1. tasks[LoopOf[c]] \in Seq(Conns)
    BY SessionAssumption DEF IInv, TypeOK
  <2>2. QED
    BY <1>2, <2>1, OnCloseStep DEF PeerCloses
<1>3. ASSUME NEW l \in Loops, RunTask(l) PROVE IInv'
  <2>1. tasks[l] \in Seq(Conns) /\ tasks[l] # <<>>
    BY <1>3 DEF IInv, TypeOK, RunTask
  <2>2. Head(tasks[l]) \in Conns /\ Tail(tasks[l]) \in Seq(Conns)
    BY <2>1
  <2>3. QED
    BY <1>3, <2>2, OnCloseStep DEF RunTask
<1>4. ASSUME NEW l \in Loops, LoopStep(l) PROVE IInv'
  BY <1>3, <1>4, AddPlayerStep, SetPublisherStep, ReplaceRemoteStep,
     ReplaceLocalStep, CloseUserStep DEF LoopStep
<1>5. ASSUME NEW name \in Names, OnTimer(name) \/ CloseSession(name)
      PROVE  IInv'
  BY <1>5, StartClearStep DEF OnTimer, CloseSession, TimedOut
<1>6. CASE Clear
  BY <1>6, ClearStep
<1>7. CASE UNCHANGED vars
  <2>1. TypeOK' /\ TimerOK'
    BY <1>7 DEF IInv, TypeOK, TimerOK, vars
  <2>2. QED
    BY <1>7, <2>1, Untouched DEF vars
<1>8. QED
  BY <1>1, <1>2, <1>4, <1>5, <1>6, <1>7 DEF Next

-----------------------------------------------------------------------------
(* What follows.                                                            *)

(* The types and what the handlers of the loops hold of each other.         *)
THEOREM SessionInvariant == Spec => []IInv
<1>1. IInv /\ [Next]_vars => IInv'
  BY NextIInv
<1>2. QED
  BY InitIInv, <1>1, PTL DEF Spec

(* The players of a session are its live players, up to those on their way   *)
(* in or out.                                                                *)
THEOREM SessionPlayersExact == Spec => []PlayersExact
<1>1. IInv => PlayersExact
  BY DEF IInv
<1>2. QED
  BY SessionInvariant, <1>1, PTL

(* No session keeps a publisher whose connection is gone.                    *)
THEOREM SessionPublisherLive == Spec => []RegisteredPublisherLive
<1>1. IInv => RegisteredPublisherLive
  BY DEF IInv
<1>2. QED
  BY SessionInvariant, <1>1, PTL

(* A publisher keeps its session until it is closed or replaced, unless a    *)
(* publish overtook the close of the one before.                             *)
THEOREM SessionPublisherKept == Spec => []LivePublisherRegisteredUnlessRaced
<1>1. IInv => LivePublisherRegisteredUnlessRaced
  BY DEF IInv
<1>2. QED
  BY SessionInvariant, <1>1, PTL
=============================================================================
