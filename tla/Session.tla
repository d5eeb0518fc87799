------------------------------- MODULE Session -------------------------------
(***************************************************************************)
(* Who publishes and who plays: live::LiveService keeps one live::Session   *)
(* per stream name, a Session keeps its publisher and its players, and the  *)
(* connections, each on one event loop, create and close those users.       *)
(*                                                                          *)
(* Event loops run in parallel.  A handler is cut into steps where it waits *)
(* for a mutex; work on shared state under a mutex is one step.  LiveService *)
(* and Session lock with std::mutex, which a thread cannot enter twice.     *)
(*                                                                          *)
(* OnTimer is registered with TaskMgr, whose OnWork the program never calls; *)
(* TimerRuns says whether something calls it, or CloseSession.              *)
(***************************************************************************)
EXTENDS Naturals, Sequences, FiniteSets

CONSTANTS
  Conns,         (* TCP connections                                         *)
  Loops,         (* event loops                                             *)
  LoopOf,        (* the loop of each connection                             *)
  Names,         (* stream names the configuration allows                   *)
  TimerRuns,     (* OnTimer is called                                       *)
  MaxCommands,   (* bound: play and publish commands per connection         *)
  MaxSessions    (* bound: sessions created                                 *)

Timer == "timer"
Threads == Loops \cup {Timer}
None == "none"
NoOne == <<>>   (* in place of a User *)

ASSUME SessionAssumption ==
  /\ LoopOf \in [Conns -> Loops]
  /\ Timer \notin Loops /\ None \notin Loops
  /\ TimerRuns \in BOOLEAN
  /\ MaxCommands \in Nat /\ MaxSessions \in Nat

(* A User object: the n-th that a connection creates.                        *)
Users == Conns \X (1 .. MaxCommands)
SessionIds == 1 .. MaxSessions

VARIABLES
  sessions_,    (* LiveService: the session of each name                    *)
  created,      (* sessions created so far                                  *)
  service_lock, (* holder of LiveService::lock_                             *)
  publisher_,   (* Session: its publisher                                   *)
  players_,     (* Session: its players                                     *)
  lock_,        (* Session: holder of its lock                              *)
  user,         (* User: kind, session, destroyed_                          *)
  commands,     (* commands a connection has sent                           *)
  open,         (* TcpConnection: not m_closed                              *)
  tasks,        (* EventLoop: connections whose onClose is queued           *)
  thread,       (* what each thread is doing                                *)
  raced         (* history: sessions where a publish met a publisher being closed *)

vars == <<sessions_, created, service_lock, publisher_, players_, lock_, user,
          commands, open, tasks, thread, raced>>

NoUser == [kind |-> None, session |-> 0, destroyed |-> FALSE]

(* A thread in a handler of user u in session s; outer is the SetPublisher   *)
(* call an inline onClose runs in, if any.                                   *)
Handler(at, u, s, outer) ==
  [at |-> at, user |-> u, session |-> s, name |-> None, outer |-> outer]

Idle == Handler("idle", NoOne, 0, <<>>)

(* The user a connection carries in kUserDefineContext is its latest.        *)
Context(c) == IF commands[c] = 0 THEN NoOne ELSE <<c, commands[c]>>

ConnOf(u) == u[1]

Live(u) ==
  /\ u # NoOne
  /\ user[u].kind # None /\ ~user[u].destroyed

Publishes(u) == user[u].kind = "publish"

-----------------------------------------------------------------------------
(* The session of a name, created if it has none; every name in Names is one *)
(* the configuration allows.                                                 *)
CreateSession(name) ==
  IF sessions_[name] = 0 THEN created + 1 ELSE sessions_[name]

CreateUser(kind, s) == [kind |-> kind, session |-> s, destroyed |-> FALSE]

(* OnPlay and OnPublish, as far as the session's lock: CreateSession, then   *)
(* CreatePlayerUser or CreatePublishUser.                                    *)
Command(c, kind, name) ==
  LET l == LoopOf[c]
      s == CreateSession(name)
      u == <<c, commands[c] + 1>>
  IN  /\ thread[l] = Idle /\ open[c]
      /\ commands[c] < MaxCommands
      /\ service_lock = None
      /\ s \in SessionIds
      /\ sessions_' = [sessions_ EXCEPT ![name] = s]
      /\ created' = IF s > created THEN s ELSE created
      /\ commands' = [commands EXCEPT ![c] = @ + 1]
      /\ user' = [user EXCEPT ![u] = CreateUser(kind, s)]
      /\ thread' = [thread EXCEPT ![l] =
           Handler(IF kind = "play" THEN "add_player" ELSE "set_publisher",
                   u, s, <<>>)]
      /\ UNCHANGED <<service_lock, publisher_, players_, lock_, open, tasks,
                     raced>>

AddPlayer(l) ==
  LET s == thread[l].session
  IN  /\ thread[l].at = "add_player"
      /\ lock_[s] = None
      /\ players_' = [players_ EXCEPT ![s] = @ \cup {thread[l].user}]
      /\ thread' = [thread EXCEPT ![l] = Idle]
      /\ UNCHANGED <<sessions_, created, service_lock, publisher_, lock_, user,
                     commands, open, tasks, raced>>

(* A publisher of s is between destroyed_.exchange and the lock in CloseUser. *)
PublisherClosing(s) ==
  \E l \in Loops : /\ thread[l].at = "close_user"
                   /\ thread[l].session = s
                   /\ Publishes(thread[l].user)

(* SetPublisher when there is nobody to close.                               *)
SetPublisher(l) ==
  LET s == thread[l].session
      p == publisher_[s]
  IN  /\ thread[l].at = "set_publisher"
      /\ lock_[s] = None
      /\ ~Live(p)
      /\ publisher_' = [publisher_ EXCEPT ![s] = thread[l].user]
      /\ thread' = [thread EXCEPT ![l] = Idle]
      /\ raced' = IF PublisherClosing(s) THEN raced \cup {s} ELSE raced
      /\ UNCHANGED <<sessions_, created, service_lock, players_, lock_, user,
                     commands, open, tasks>>

(* SetPublisher closing the old publisher, whose connection lives on another *)
(* loop: forceClose queues onClose there.                                    *)
ReplaceRemoteWithoutClose(l) ==
  LET s == thread[l].session
      p == publisher_[s]
  IN  /\ thread[l].at = "set_publisher"
      /\ lock_[s] = None
      /\ Live(p) /\ LoopOf[ConnOf(p)] # l
      /\ user' = [user EXCEPT ![p].destroyed = TRUE]
      /\ publisher_' = [publisher_ EXCEPT ![s] = thread[l].user]
      /\ thread' = [thread EXCEPT ![l] = Idle]
      /\ UNCHANGED <<sessions_, created, service_lock, players_, lock_,
                     commands, open, tasks, raced>>

ReplaceRemote(l) ==
  LET s == thread[l].session
      p == publisher_[s]
      m == LoopOf[ConnOf(p)]
  IN  /\ thread[l].at = "set_publisher"
      /\ lock_[s] = None
      /\ Live(p) /\ m # l
      /\ user' = [user EXCEPT ![p].destroyed = TRUE]
      /\ tasks' = [tasks EXCEPT ![m] = Append(@, ConnOf(p))]
      /\ publisher_' = [publisher_ EXCEPT ![s] = thread[l].user]
      /\ thread' = [thread EXCEPT ![l] = Idle]
      /\ raced' = IF PublisherClosing(s) THEN raced \cup {s} ELSE raced
      /\ UNCHANGED <<sessions_, created, service_lock, players_, lock_,
                     commands, open>>

(* The same on one loop: forceClose runs onClose at once, inside the lock,   *)
(* and OnConnectionDestroy closes whatever user the connection carries now.  *)
ReplaceLocal(l) ==
  LET s == thread[l].session
      p == publisher_[s]
      c == ConnOf(p)
      v == Context(c)
      nested == open[c] /\ v # p /\ Live(v)
  IN  /\ thread[l].at = "set_publisher"
      /\ lock_[s] = None
      /\ Live(p) /\ LoopOf[c] = l
      /\ open' = [open EXCEPT ![c] = FALSE]
      /\ raced' = IF PublisherClosing(s) THEN raced \cup {s} ELSE raced
      /\ IF nested
         THEN /\ user' = [user EXCEPT ![p].destroyed = TRUE,
                                      ![v].destroyed = TRUE]
              /\ lock_' = [lock_ EXCEPT ![s] = l]
              /\ thread' = [thread EXCEPT ![l] =
                   Handler("close_user", v, user[v].session, <<thread[l]>>)]
              /\ UNCHANGED publisher_
         ELSE /\ user' = [user EXCEPT ![p].destroyed = TRUE]
              /\ publisher_' = [publisher_ EXCEPT ![s] = thread[l].user]
              /\ thread' = [thread EXCEPT ![l] = Idle]
              /\ UNCHANGED lock_
      /\ UNCHANGED <<sessions_, created, service_lock, players_, commands,
                     tasks>>

-----------------------------------------------------------------------------
(* onClose on the connection's loop: OnConnectionDestroy and CloseUser up to *)
(* the session's lock.  queued is what remains of the loop's tasks.          *)
OnClose(c, queued) ==
  LET l == LoopOf[c]
      u == Context(c)
  IN  /\ thread[l] = Idle
      /\ open' = [open EXCEPT ![c] = FALSE]
      /\ tasks' = [tasks EXCEPT ![l] = queued]
      /\ IF open[c] /\ Live(u)
         THEN /\ user' = [user EXCEPT ![u].destroyed = TRUE]
              /\ thread' = [thread EXCEPT ![l] =
                   Handler("close_user", u, user[u].session, <<>>)]
         ELSE UNCHANGED <<user, thread>>
      /\ UNCHANGED <<sessions_, created, service_lock, publisher_, players_,
                     lock_, commands, raced>>

(* The peer closes the connection, it idles out or it sends rubbish.         *)
PeerCloses(c) == open[c] /\ OnClose(c, tasks[LoopOf[c]])

RunTask(l) ==
  tasks[l] # <<>> /\ OnClose(Head(tasks[l]), Tail(tasks[l]))

(* The locked half of CloseUser; it resets whatever publisher the session    *)
(* has.  Then an enclosing SetPublisher sets its own and unlocks.            *)
ForgetPublisherOnly(s, u, publisher, players) ==
  <<IF Publishes(u) THEN [publisher EXCEPT ![s] = NoOne] ELSE publisher,
    players>>

ForgetPlayersOnly(s, u, publisher, players) ==
  <<publisher, [players EXCEPT ![s] = @ \ {u}]>>

ForgetAnyUser(s, u, publisher, players) ==
  <<[publisher EXCEPT ![s] = NoOne], [players EXCEPT ![s] = @ \ {u}]>>

Forget(s, u, publisher, players) ==
  IF Publishes(u) THEN <<[publisher EXCEPT ![s] = NoOne], players>>
  ELSE <<publisher, [players EXCEPT ![s] = @ \ {u}]>>

CloseUser(l) ==
  LET t == thread[l]
      s == t.session
      left == Forget(s, t.user, publisher_, players_)
  IN  /\ t.at = "close_user"
      /\ lock_[s] = None
      /\ players_' = left[2]
      /\ thread' = [thread EXCEPT ![l] = Idle]
      /\ IF t.outer = <<>>
         THEN publisher_' = left[1] /\ UNCHANGED lock_
         ELSE LET o == t.outer[1].session
              IN  /\ publisher_' = [left[1] EXCEPT ![o] = t.outer[1].user]
                  /\ lock_' = [lock_ EXCEPT ![o] = None]
      /\ UNCHANGED <<sessions_, created, service_lock, user, commands, open,
                     tasks, raced>>

-----------------------------------------------------------------------------
(* IsTimeout: no packet for 20 seconds, or no players for stream_idle_time.  *)
(* Either may be so of any session at any time.                              *)
TimedOut(name) == sessions_[name] # 0

(* The session of a name is going to be cleared, under the service lock.     *)
StartClear(name) ==
  /\ TimerRuns
  /\ thread[Timer] = Idle /\ service_lock = None
  /\ service_lock' = Timer
  /\ thread' = [thread EXCEPT ![Timer] =
       [at |-> "clear", user |-> NoOne, session |-> sessions_[name],
        name |-> name, outer |-> <<>>]]
  /\ UNCHANGED <<sessions_, created, publisher_, players_, lock_, user,
                 commands, open, tasks, raced>>

(* OnTimer does so with one that is timed out.                               *)
OnTimer(name) == TimedOut(name) /\ StartClear(name)

(* CloseSession with any; the program does not call it.                      *)
CloseSession(name) == sessions_[name] # 0 /\ StartClear(name)

(* Session::Clear.  CloseUserNoLock closes a user's connection only while    *)
(* the session still has a publisher, which closing it resets: closed holds  *)
(* the one user whose connection is closed, if any.                          *)
Clear ==
  LET s       == thread[Timer].session
      p       == publisher_[s]
      members == players_[s] \cup {u \in Users : u = p}
      living  == {u \in members : Live(u)}
  IN  /\ thread[Timer].at = "clear"
      /\ lock_[s] = None
      /\ \E closed \in SUBSET living :
           /\ IF Live(p) THEN closed = {p}
              ELSE IF p # NoOne /\ living # {} THEN Cardinality(closed) = 1
              ELSE closed = {}
           /\ tasks' = [l \in Loops |->
                IF \E u \in closed : LoopOf[ConnOf(u)] = l
                THEN Append(tasks[l], ConnOf(CHOOSE u \in closed : TRUE))
                ELSE tasks[l]]
           /\ publisher_' = IF closed = {} THEN publisher_
                            ELSE [publisher_ EXCEPT ![s] = NoOne]
      /\ user' = [u \in Users |-> IF u \in living
                                  THEN [user[u] EXCEPT !.destroyed = TRUE]
                                  ELSE user[u]]
      /\ players_' = [players_ EXCEPT ![s] = {}]
      /\ sessions_' = [sessions_ EXCEPT ![thread[Timer].name] = 0]
      /\ service_lock' = None
      /\ thread' = [thread EXCEPT ![Timer] = Idle]
      /\ UNCHANGED <<created, lock_, commands, open, raced>>

-----------------------------------------------------------------------------
Init ==
  /\ sessions_ = [n \in Names |-> 0]
  /\ created = 0
  /\ service_lock = None
  /\ publisher_ = [s \in SessionIds |-> NoOne]
  /\ players_ = [s \in SessionIds |-> {}]
  /\ lock_ = [s \in SessionIds |-> None]
  /\ user = [u \in Users |-> NoUser]
  /\ commands = [c \in Conns |-> 0]
  /\ open = [c \in Conns |-> TRUE]
  /\ tasks = [l \in Loops |-> <<>>]
  /\ thread = [t \in Threads |-> Idle]
  /\ raced = {}

LoopStep(l) ==
  \/ AddPlayer(l) \/ SetPublisher(l) \/ ReplaceRemote(l) \/ ReplaceLocal(l)
  \/ CloseUser(l) \/ RunTask(l)

Next ==
  \/ \E c \in Conns, kind \in {"play", "publish"}, name \in Names :
       Command(c, kind, name)
  \/ \E c \in Conns : PeerCloses(c)
  \/ \E l \in Loops : LoopStep(l)
  \/ \E name \in Names : OnTimer(name) \/ CloseSession(name)
  \/ Clear

Spec == Init /\ [][Next]_vars

(* A loop that has work to do and is not blocked goes on, and so does a      *)
(* thread inside Clear.  Nobody has to connect, to send commands or to leave, *)
(* and nobody has to call OnTimer or CloseSession.                           *)
FairSpec ==
  /\ Spec
  /\ \A l \in Loops : WF_vars(LoopStep(l))
  /\ WF_vars(Clear)

-----------------------------------------------------------------------------
(* Properties.                                                              *)

Closing(u) ==
  \E l \in Loops : thread[l].at = "close_user" /\ thread[l].user = u

(* AddPlayer or SetPublisher of u has not returned, be it because an onClose *)
(* runs inside it.                                                           *)
Entering(u) ==
  \E l \in Loops :
    \/ /\ thread[l].at \in {"add_player", "set_publisher"}
       /\ thread[l].user = u
    \/ thread[l].outer # <<>> /\ thread[l].outer[1].user = u

(* players_ is maintained by three handlers on different threads: it holds   *)
(* exactly the live players of the session, up to those whose AddPlayer or   *)
(* CloseUser is still on its way.                                            *)
PlayersExact ==
  \A u \in Users : user[u].kind = "play" =>
    /\ u \in players_[user[u].session] => Live(u) \/ Closing(u)
    /\ Live(u) /\ ~Entering(u) => u \in players_[user[u].session]

(* While no handler holds a session's lock, its publisher is live or         *)
(* CloseUser is about to remove it: nobody stays registered after            *)
(* destroyed_ was set.                                                       *)
RegisteredPublisherLive ==
  \A s \in SessionIds :
    LET p == publisher_[s]
    IN  p # NoOne /\ lock_[s] = None => Live(p) \/ Closing(p)

(* A publisher whose OnPublish has returned and whose connection was not     *)
(* closed is the registered publisher of its session: CloseUser removes the  *)
(* user it is given and no other, except where a publish came between the    *)
(* two halves of CloseUser for the previous publisher, whose second half     *)
(* removes whoever is registered.                                            *)
LivePublisherRegisteredUnlessRaced ==
  \A u \in Users :
    Publishes(u) /\ Live(u) /\ ~Entering(u) /\ user[u].session \notin raced =>
      publisher_[user[u].session] = u

(* A publisher that is marked destroyed, because another one replaced it or  *)
(* its session was cleared, loses its connection and stops feeding.          *)
DestroyedPublisherGetsClosed ==
  \A u \in Users :
    Publishes(u) /\ user[u].destroyed ~> ~open[ConnOf(u)]

(* The user of a closed connection disappears from its session.              *)
ClosedUserLeaves ==
  \A u \in Users, s \in SessionIds :
    user[u].session = s /\ ~open[ConnOf(u)] ~>
      publisher_[s] # u /\ u \notin players_[s]

(* Every handler that started finishes: no thread waits for a lock for ever. *)
HandlersFinish ==
  \A t \in Threads : thread[t].at # "idle" ~> thread[t].at = "idle"
=============================================================================
