--------------------------- MODULE LiveServerProofs --------------------------
(***************************************************************************)
(* Proofs about LiveServer for every number of threads, every set of         *)
(* configuration files, hosts and indexes, and every order of the threads;   *)
(* that what is loaded is what the files say, for files of any length;       *)
(* and what a number written in bytes (Bytes) and an address (InetAddress)   *)
(* become, for every number and address: one that came from a socket goes    *)
(* back to a socket unchanged, what is printed is read back only for IPv4.   *)
(***************************************************************************)
EXTENDS LiveServer, InetAddress, SequenceTheorems, WellFoundedInduction, NaturalsInduction,
        TLAPS

-----------------------------------------------------------------------------
(* Threads.                                                                  *)

ThreadStates == {"none", "entered", "waiting", "woken", "running", "assigned",
                 "posted", "looping", "ended"}

ThreadType ==
  [at : ThreadStates, m_running : BOOLEAN, m_loop : BOOLEAN, promise : BOOLEAN,
   m_looping : BOOLEAN, once : BOOLEAN, early : BOOLEAN]

(* The promise has its value once the loop was handed out, and the pointer   *)
(* is there before it and until the loop has ended.                          *)
ThreadOK(th) ==
  /\ th \in ThreadType
  /\ th.promise <=> th.at \in {"posted", "looping", "ended"}
  /\ th.at \in {"assigned", "posted", "looping"} => th.m_loop

(* What nobody has told to quit goes on.                                     *)
GoesOn(th) == th.at # "ended" /\ (th.at = "looping" => th.m_looping)

LEMMA ThreadBegins ==
  /\ ThreadOK(NoThread) /\ GoesOn(NoThread)
  /\ ThreadOK(Created) /\ GoesOn(Created)
  BY DEF ThreadOK, GoesOn, NoThread, Created, ThreadType, ThreadStates

LEMMA RunOK ==
  ASSUME NEW th, ThreadOK(th)
  PROVE  /\ ThreadOK(Run(th)) /\ (GoesOn(th) => GoesOn(Run(th)))
         /\ Run(th).promise = th.promise
  BY DEF ThreadOK, GoesOn, Run, ThreadType, ThreadStates

LEMMA QuitOK ==
  ASSUME NEW th, ThreadOK(th)
  PROVE  ThreadOK(Quit(th))
  BY DEF ThreadOK, Quit, ThreadType, ThreadStates

LEMMA StepOK ==
  ASSUME NEW t \in Threads, DOMAIN thread = Threads, ThreadOK(thread[t]),
         startEventLoop(t)
  PROVE  /\ DOMAIN thread' = Threads
         /\ \A u \in Threads \ {t} : thread'[u] = thread[u]
         /\ ThreadOK(thread'[t])
         /\ thread[t].promise => thread'[t].promise
         /\ GoesOn(thread[t]) => GoesOn(thread'[t])
<1>1. CASE thread[t].at \in {"entered", "woken"} /\ thread' = [thread EXCEPT ![t] = Wait(@)]
  <2>1. thread'[t] = Wait(thread[t])
    BY <1>1
  <2>2. ThreadOK(Wait(thread[t])) /\ GoesOn(Wait(thread[t]))
    BY <1>1 DEF Wait, ThreadOK, GoesOn, ThreadType, ThreadStates
  <2>3. ~thread[t].promise
    BY <1>1 DEF ThreadOK
  <2>4. QED
    BY <1>1, <2>1, <2>2, <2>3
<1>2. CASE thread[t].at = "running" /\ thread' = [thread EXCEPT ![t] = HandOut(@)]
  <2>1. thread'[t] = [thread[t] EXCEPT !.at = "assigned", !.m_loop = TRUE]
    BY <1>2 DEF HandOut
  <2>2. ThreadOK(thread'[t]) /\ GoesOn(thread'[t])
    BY <1>2, <2>1 DEF ThreadOK, GoesOn, ThreadType, ThreadStates
  <2>3. ~thread[t].promise
    BY <1>2 DEF ThreadOK
  <2>4. QED
    BY <1>2, <2>2, <2>3
<1>3. CASE thread[t].at = "assigned" /\ thread' = [thread EXCEPT ![t] = HandOut(@)]
  <2>1. thread'[t] = [thread[t] EXCEPT !.at = "posted", !.promise = TRUE]
    BY <1>3 DEF HandOut
  <2>2. ThreadOK(thread'[t]) /\ GoesOn(thread'[t]) /\ thread'[t].promise
    BY <1>3, <2>1 DEF ThreadOK, GoesOn, ThreadType, ThreadStates
  <2>3. QED
    BY <1>3, <2>2
<1>4. CASE thread[t].at = "posted" /\ thread' = [thread EXCEPT ![t] = Loop(@)]
  <2>1. thread'[t] = Loop(thread[t])
    BY <1>4
  <2>2. ThreadOK(Loop(thread[t])) /\ GoesOn(Loop(thread[t])) /\ Loop(thread[t]).promise
    BY <1>4 DEF Loop, ThreadOK, GoesOn, ThreadType, ThreadStates
  <2>3. QED
    BY <1>4, <2>1, <2>2
<1>5. CASE /\ thread[t].at = "looping" /\ ~thread[t].m_looping
           /\ thread' = [thread EXCEPT ![t] = Leave(@)]
  <2>1. thread'[t] = Leave(thread[t])
    BY <1>5
  <2>2. ThreadOK(Leave(thread[t])) /\ Leave(thread[t]).promise
    BY <1>5 DEF Leave, ThreadOK, ThreadType, ThreadStates
  <2>3. ~GoesOn(thread[t])
    BY <1>5 DEF GoesOn
  <2>4. QED
    BY <1>5, <2>1, <2>2, <2>3
<1>6. QED
  BY <1>1, <1>2, <1>3, <1>4, <1>5 DEF startEventLoop

-----------------------------------------------------------------------------
(* The inductive invariant of the loops and the servers: where main is tells *)
(* which loops were handed out and which of them have their servers.         *)
Loads == program \in {"main", "RtmpServerTest"}

ProgramOK ==
  /\ program \in {"main", "RtmpServerTest", "EventLoopThreadTest", "DnsServerTest"}
  /\ DOMAIN main = {"at", "i"} /\ main.i \in Nat
  /\ Loads => file \in Files
  /\ main.at = "load" => Loads /\ config = NoConfig
  /\ main.at \in {"dns", "serve", "task"} => Loads
  /\ main.at = "asleep" => Loads \/ program = "DnsServerTest"
  /\ program = "DnsServerTest" => main.at \in {"asleep", "stop", "ended"}

ConfigOK ==
  /\ config.loaded => Loads
  /\ \/ config.thread_num_ \in Threads
     \/ config.thread_num_ \in Int /\ config.thread_num_ <= 0

ThreadsOK ==
  /\ DOMAIN thread = Threads
  /\ \A t \in Threads : ThreadOK(thread[t])
  /\ main.at \notin {"destroy", "join", "ended"} => \A t \in Threads : GoesOn(thread[t])

HandedOut(n) == \A j \in 1 .. n : thread[j].promise

StartedOK ==
  /\ main.at \in {"start", "serve"} => main.i \in 1 .. numThreads
  /\ main.at = "start" => HandedOut(main.i - 1)
  /\ main.at \in {"dns", "serve", "task"} => HandedOut(numThreads)

Served(j) ==
  \A k \in DOMAIN config.services :
    \/ \E s \in servers : s.thread = j /\ s.service = k
    \/ program = "main" /\ ~IsRtmp(config.services[k])

ServersOK ==
  /\ servers # {} => Loads /\ main.at \in {"serve", "task", "asleep"}
  /\ \A s \in servers : s.thread \in Threads /\ s.loop /\ thread[s.thread].promise
  /\ main.at = "serve" => \A j \in 1 .. main.i - 1 : Served(j)
  /\ main.at = "task" \/ (main.at = "asleep" /\ config.loaded) =>
       \A j \in 1 .. numThreads : Served(j)

LoopInv == ProgramOK /\ ConfigOK /\ ThreadsOK /\ StartedOK /\ ServersOK

(* There are as many threads as are asked for.                               *)
LEMMA NumThreads ==
  ASSUME ConfigOK
  PROVE  numThreads \in Nat /\ 1 <= numThreads /\ 1 .. numThreads \subseteq Threads
<1>1. 1 \in Threads
  <2>1. PoolSize \in Threads /\ PoolSize \in Nat \ {0} /\ 1 .. PoolSize \subseteq Threads
    BY LiveServerAssumption
  <2>2. 1 \in 1 .. PoolSize
    BY <2>1
  <2>3. QED
    BY <2>1, <2>2
<1>2. numThreads \in Threads
  <2>1. CASE program = "main"
    <3>1. numThreads = IF config.thread_num_ <= 0 THEN 1 ELSE config.thread_num_
      BY <2>1 DEF numThreads
    <3>2. QED
      BY <1>1, <3>1 DEF ConfigOK
  <2>2. CASE program = "EventLoopThreadTest"
    BY <2>2, LiveServerAssumption DEF numThreads
  <2>3. CASE program \notin {"main", "EventLoopThreadTest"}
    BY <1>1, <2>3 DEF numThreads
  <2>4. QED
    BY <2>1, <2>2, <2>3
<1>3. QED
  BY <1>2, LiveServerAssumption

LEMMA LoopInit == Init => LoopInv
<1> SUFFICES ASSUME Init PROVE LoopInv
  OBVIOUS
<1>1. /\ program \in {"main", "RtmpServerTest", "EventLoopThreadTest", "DnsServerTest"}
      /\ main = [at |-> First[program], i |-> 1]
      /\ file \in IF First[program] = "load" THEN Files ELSE {NoName}
      /\ config = NoConfig /\ servers = {}
  BY LiveServerAssumption DEF Init
<1>2. /\ program \in {"main", "RtmpServerTest"} => main.at = "load" /\ file \in Files
      /\ program = "EventLoopThreadTest" => main.at = "create"
      /\ program = "DnsServerTest" => main.at = "asleep"
  BY <1>1 DEF First
<1>3. ProgramOK
  BY <1>1, <1>2 DEF ProgramOK, Loads
<1>4. ConfigOK
  BY <1>1 DEF ConfigOK, NoConfig
<1>5. ThreadsOK
  <2>1. DOMAIN thread = Threads /\ \A t \in Threads : thread[t] \in {Created, NoThread}
    BY DEF Init
  <2>2. QED
    BY <2>1, ThreadBegins DEF ThreadsOK
<1>6. StartedOK
  BY <1>1, <1>2 DEF StartedOK
<1>7. ServersOK
  BY <1>1, <1>2 DEF ServersOK, NoConfig
<1>8. QED
  BY <1>3, <1>4, <1>5, <1>6, <1>7 DEF LoopInv

(* Steps of main that leave the threads and the servers alone.               *)
LEMMA LoadKeeps ==
  ASSUME LoopInv, Load
  PROVE  LoopInv'
<1>1. /\ Loads /\ config = NoConfig /\ file \in Files /\ main.at = "load" /\ servers = {}
      /\ UNCHANGED <<program, file, servers, thread>>
  BY DEF LoopInv, ProgramOK, ServersOK, Load
<1>2. \/ /\ main' = [at |-> AfterLoad.ok, i |-> 1] /\ config' = NewConfig(file)
      \/ /\ main' = [at |-> AfterLoad.failed, i |-> 1] /\ config' = config
      \/ UNCHANGED <<main, config>>
  <2>1. CASE LoadResult(file) = "ok"
    BY <2>1 DEF Load, LoadConfig, Goto
  <2>2. CASE LoadResult(file) = "failed"
    BY <2>2 DEF Load, LoadConfig, Goto
  <2>3. CASE LoadResult(file) = "throws"
    BY <2>3 DEF Load, LoadConfig
  <2>4. LoadResult(file) \in {"ok", "failed", "throws"}
    BY DEF LoadResult
  <2>5. QED
    BY <2>1, <2>2, <2>3, <2>4
<1>3. /\ program = "main" => AfterLoad.ok = "create" /\ AfterLoad.failed = "ended"
      /\ program = "RtmpServerTest" => AfterLoad.ok = "start" /\ AfterLoad.failed = "destroy"
      /\ program \in {"main", "RtmpServerTest"}
  BY <1>1 DEF AfterLoad, Loads
<1>4. CASE UNCHANGED <<main, config>>
  BY <1>1, <1>4 DEF LoopInv, ProgramOK, ConfigOK, ThreadsOK, StartedOK, ServersOK,
     Loads, HandedOut, numThreads, Served
<1>5. CASE main' = [at |-> AfterLoad.failed, i |-> 1] /\ config' = config
  <2>1. main'.at \in {"ended", "destroy"} /\ DOMAIN main' = {"at", "i"} /\ main'.i = 1
    BY <1>3, <1>5
  <2>2. ProgramOK' /\ ConfigOK' /\ ThreadsOK' /\ StartedOK' /\ ServersOK'
    BY <1>1, <1>3, <1>5, <2>1 DEF LoopInv, ProgramOK, ConfigOK, ThreadsOK, StartedOK,
       ServersOK, Loads
  <2>3. QED
    BY <2>2 DEF LoopInv
<1>6. CASE main' = [at |-> AfterLoad.ok, i |-> 1] /\ config' = NewConfig(file)
  <2>1. /\ DOMAIN main' = {"at", "i"} /\ main'.i = 1
        /\ main'.at \in {"create", "start"}
        /\ main'.at = "start" => program = "RtmpServerTest"
    BY <1>3, <1>6
  <2>2. config'.loaded = TRUE /\ config'.thread_num_ = file.threads
    BY <1>6 DEF NewConfig
  <2>3. ProgramOK'
    BY <1>1, <1>3, <2>1 DEF LoopInv, ProgramOK, Loads
  <2>4. ConfigOK'
    BY <1>1, <2>2, LiveServerAssumption DEF ConfigOK, Loads
  <2>5. ThreadsOK'
    BY <1>1, <2>1 DEF LoopInv, ThreadsOK
  <2>6. StartedOK'
    <3>1. main'.at = "start" => numThreads' = 1
      BY <1>1, <2>1 DEF numThreads
    <3>2. main'.i - 1 = 0
      BY <2>1
    <3>3. \A j : j \notin 1 .. 0
      OBVIOUS
    <3>4. QED
      BY <2>1, <3>1, <3>2, <3>3 DEF StartedOK, HandedOut
  <2>7. ServersOK'
    BY <1>1, <2>1 DEF ServersOK
  <2>8. QED
    BY <2>3, <2>4, <2>5, <2>6, <2>7 DEF LoopInv
<1>7. QED
  BY <1>2, <1>4, <1>5, <1>6

(* Steps that touch none of this.                                            *)
LEMMA ElseKeeps ==
  ASSUME LoopInv, UNCHANGED <<program, file, config, servers, thread>>,
         \/ UNCHANGED main
         \/ program = "DnsServerTest" /\ main.at = "asleep" /\ main' = [at |-> "stop", i |-> 1]
         \/ main.at = "stop" /\ main' = [at |-> "ended", i |-> 1]
         \/ main.at = "task" /\ main' = [at |-> "asleep", i |-> 1]
         \/ main.at = "dns" /\ main' = [at |-> "serve", i |-> 1]
         \/ main.at = "join" /\ main' = [at |-> "ended", i |-> 1]
         \/ main.at = "join" /\ main' = [at |-> "destroy", i |-> main.i + 1]
  PROVE  LoopInv'
<1>1. ProgramOK /\ ConfigOK /\ ThreadsOK /\ StartedOK /\ ServersOK
      /\ numThreads' = numThreads /\ numThreads \in Nat /\ 1 <= numThreads
  BY NumThreads DEF LoopInv, numThreads
<1>2. CASE UNCHANGED main
  BY <1>1, <1>2 DEF LoopInv, ProgramOK, ConfigOK, ThreadsOK, StartedOK, ServersOK,
     Loads, HandedOut, Served
<1>3. CASE program = "DnsServerTest" /\ main.at = "asleep" /\ main' = [at |-> "stop", i |-> 1]
  <2>1. servers = {}
    BY <1>1, <1>3 DEF ServersOK, Loads
  <2>2. QED
    BY <1>1, <1>3, <2>1 DEF LoopInv, ProgramOK, ConfigOK, ThreadsOK, StartedOK, ServersOK,
       Loads
<1>4. CASE main.at = "stop" /\ main' = [at |-> "ended", i |-> 1]
  BY <1>1, <1>4 DEF LoopInv, ProgramOK, ConfigOK, ThreadsOK, StartedOK, ServersOK, Loads
<1>5. CASE main.at = "task" /\ main' = [at |-> "asleep", i |-> 1]
  BY <1>1, <1>5 DEF LoopInv, ProgramOK, ConfigOK, ThreadsOK, StartedOK, ServersOK, Loads, Served
<1>6. CASE main.at = "dns" /\ main' = [at |-> "serve", i |-> 1]
  BY <1>1, <1>6 DEF LoopInv, ProgramOK, ConfigOK, ThreadsOK, StartedOK, ServersOK, Loads, HandedOut
<1>7. CASE main.at = "join" /\ main' = [at |-> "ended", i |-> 1]
  BY <1>1, <1>7 DEF LoopInv, ProgramOK, ConfigOK, ThreadsOK, StartedOK, ServersOK, Loads
<1>8. CASE main.at = "join" /\ main' = [at |-> "destroy", i |-> main.i + 1]
  BY <1>1, <1>8 DEF LoopInv, ProgramOK, ConfigOK, ThreadsOK, StartedOK, ServersOK, Loads
<1>9. QED
  BY <1>2, <1>3, <1>4, <1>5, <1>6, <1>7, <1>8

(* A thread's own step, or run called on it: what was handed out stays so.   *)
LEMMA ThreadKeeps ==
  ASSUME LoopInv, UNCHANGED <<program, main, file, config, servers>>,
         DOMAIN thread' = Threads,
         \A t \in Threads :
           /\ ThreadOK(thread'[t])
           /\ thread[t].promise => thread'[t].promise
           /\ main.at \notin {"destroy", "join", "ended"} /\ GoesOn(thread[t]) =>
                GoesOn(thread'[t])
  PROVE  LoopInv'
<1>1. ProgramOK /\ ConfigOK /\ ThreadsOK /\ StartedOK /\ ServersOK
      /\ numThreads' = numThreads /\ numThreads \in Nat /\ 1 .. numThreads \subseteq Threads
  BY NumThreads DEF LoopInv, numThreads
<1>2. ProgramOK' /\ ConfigOK'
  BY <1>1 DEF ProgramOK, ConfigOK, Loads
<1>3. ThreadsOK'
  BY <1>1 DEF ThreadsOK
<1>4. StartedOK'
  <2>1. main.at = "start" => \A j \in 1 .. main.i - 1 : j \in 1 .. numThreads
    BY <1>1 DEF StartedOK, ProgramOK
  <2>2. QED
    BY <1>1, <2>1 DEF StartedOK, HandedOut
<1>5. ServersOK'
  BY <1>1 DEF ServersOK, Served, Loads
<1>6. QED
  BY <1>2, <1>3, <1>4, <1>5 DEF LoopInv

LEMMA CreatePoolKeeps ==
  ASSUME LoopInv, CreatePool
  PROVE  LoopInv'
<1>1. ProgramOK /\ ConfigOK /\ ServersOK
      /\ numThreads' = numThreads /\ numThreads \in Nat /\ 1 <= numThreads
  BY NumThreads DEF LoopInv, numThreads, CreatePool
<1>2. /\ main.at = "create" /\ main' = [at |-> "start", i |-> 1] /\ servers = {}
      /\ UNCHANGED <<program, file, config, servers>>
      /\ program # "DnsServerTest"
  BY <1>1 DEF CreatePool, Goto, ServersOK, ProgramOK
<1>3. ThreadsOK'
  <2>1. DOMAIN thread' = Threads /\ \A t \in Threads : thread'[t] \in {Created, NoThread}
    BY DEF CreatePool
  <2>2. QED
    BY <2>1, ThreadBegins DEF ThreadsOK
<1>4. StartedOK'
  BY <1>1, <1>2 DEF StartedOK, HandedOut
<1>5. ProgramOK' /\ ConfigOK' /\ ServersOK'
  BY <1>1, <1>2 DEF ProgramOK, ConfigOK, ServersOK, Loads
<1>6. QED
  BY <1>3, <1>4, <1>5 DEF LoopInv

LEMMA RunThreadKeeps ==
  ASSUME LoopInv, RunThread
  PROVE  LoopInv'
<1>1. DOMAIN thread = Threads /\ \A t \in Threads : ThreadOK(thread[t])
  BY DEF LoopInv, ThreadsOK
<1>2. /\ thread' = [thread EXCEPT ![main.i] = Run(@)]
      /\ UNCHANGED <<program, main, file, config, servers>>
  BY DEF RunThread
<1>3. ASSUME NEW t \in Threads
      PROVE  /\ ThreadOK(thread'[t])
             /\ thread[t].promise => thread'[t].promise
             /\ GoesOn(thread[t]) => GoesOn(thread'[t])
  <2>1. CASE t = main.i
    <3>1. thread'[t] = Run(thread[t])
      BY <1>1, <1>2, <2>1
    <3>2. QED
      BY <1>1, <3>1, RunOK
  <2>2. CASE t # main.i
    BY <1>1, <1>2, <2>2
  <2>3. QED
    BY <2>1, <2>2
<1>4. QED
  BY <1>1, <1>2, <1>3, ThreadKeeps

LEMMA StartedKeeps ==
  ASSUME LoopInv, Started
  PROVE  LoopInv'
<1>1. ProgramOK /\ ConfigOK /\ ThreadsOK /\ StartedOK /\ ServersOK
      /\ numThreads' = numThreads /\ numThreads \in Nat /\ 1 <= numThreads
  BY NumThreads DEF LoopInv, numThreads, Started
<1>2. /\ main.at = "start" /\ thread[main.i].promise /\ servers = {}
      /\ UNCHANGED <<program, file, config, servers, thread>>
      /\ main.i \in 1 .. numThreads /\ HandedOut(main.i - 1)
      /\ program # "DnsServerTest"
  BY <1>1 DEF Started, RunReturns, ServersOK, StartedOK, ProgramOK
<1>3. HandedOut(main.i)
  BY <1>1, <1>2 DEF HandedOut
<1>4. CASE main.i < numThreads
  <2>1. main' = [at |-> "start", i |-> main.i + 1]
    BY <1>4 DEF Started, Goto
  <2>2. (main.i + 1) - 1 = main.i /\ main.i + 1 \in 1 .. numThreads
    BY <1>1, <1>2, <1>4
  <2>3. StartedOK'
    BY <1>1, <1>2, <1>3, <2>1, <2>2 DEF StartedOK, HandedOut
  <2>4. ProgramOK' /\ ConfigOK' /\ ThreadsOK' /\ ServersOK'
    BY <1>1, <1>2, <2>1 DEF ProgramOK, ConfigOK, ThreadsOK, ServersOK, Loads
  <2>5. QED
    BY <2>3, <2>4 DEF LoopInv
<1>5. CASE ~(main.i < numThreads)
  <2>1. main' = [at |-> AfterStart, i |-> 1]
    BY <1>5 DEF Started, Goto
  <2>2. /\ program = "main" => AfterStart = "dns"
        /\ program = "RtmpServerTest" => AfterStart = "serve"
        /\ program = "EventLoopThreadTest" => AfterStart = "destroy"
        /\ program \in {"main", "RtmpServerTest", "EventLoopThreadTest"}
    BY <1>1, <1>2 DEF AfterStart, ProgramOK
  <2>3. main.i = numThreads
    BY <1>1, <1>2, <1>5
  <2>4. HandedOut(numThreads)
    BY <1>3, <2>3
  <2>5. DOMAIN main' = {"at", "i"} /\ main'.i = 1 /\ main'.at = AfterStart
    BY <2>1
  <2>6. StartedOK'
    BY <1>1, <1>2, <2>2, <2>4, <2>5 DEF StartedOK, HandedOut
  <2>7. ProgramOK' /\ ConfigOK' /\ ThreadsOK'
    BY <1>1, <1>2, <2>2, <2>5 DEF ProgramOK, ConfigOK, ThreadsOK, Loads
  <2>8. ServersOK'
    BY <1>2, <2>2, <2>5 DEF ServersOK
  <2>9. QED
    BY <2>6, <2>7, <2>8 DEF LoopInv
<1>6. QED
  BY <1>4, <1>5

LEMMA DestroyKeeps ==
  ASSUME LoopInv, Destroy
  PROVE  LoopInv'
<1>1. ProgramOK /\ ConfigOK /\ ThreadsOK /\ StartedOK /\ ServersOK
  BY DEF LoopInv
<1>2. /\ main.at = "destroy" /\ main' = [at |-> "join", i |-> main.i]
      /\ servers = {} /\ main.i \in Nat
      /\ thread' = [thread EXCEPT ![main.i] = IF @.m_loop THEN Quit(@) ELSE @]
      /\ UNCHANGED <<program, file, config, servers>>
  BY <1>1 DEF Destroy, Goto, ServersOK, ProgramOK
<1>3. ThreadsOK'
  <2>1. DOMAIN thread' = Threads
    BY <1>1, <1>2 DEF ThreadsOK
  <2>2. ASSUME NEW t \in Threads PROVE ThreadOK(thread'[t])
    <3>1. ThreadOK(thread[t]) /\ ThreadOK(Quit(thread[t]))
      BY <1>1, QuitOK DEF ThreadsOK
    <3>2. thread'[t] = thread[t] \/ thread'[t] = Quit(thread[t])
      BY <1>1, <1>2 DEF ThreadsOK
    <3>3. QED
      BY <3>1, <3>2
  <2>3. QED
    BY <1>2, <2>1, <2>2 DEF ThreadsOK
<1>4. ProgramOK' /\ ConfigOK' /\ StartedOK' /\ ServersOK'
  BY <1>1, <1>2 DEF ProgramOK, ConfigOK, StartedOK, ServersOK, Loads
<1>5. QED
  BY <1>3, <1>4 DEF LoopInv

LEMMA ServeKeeps ==
  ASSUME LoopInv, Serve
  PROVE  LoopInv'
<1>1. ProgramOK /\ ConfigOK /\ ThreadsOK /\ StartedOK /\ ServersOK
      /\ numThreads' = numThreads /\ numThreads \in Nat /\ 1 <= numThreads
      /\ 1 .. numThreads \subseteq Threads
  BY NumThreads DEF LoopInv, numThreads, Serve
<1>2. /\ main.at = "serve" /\ Loads /\ servers' = servers \cup ServersOf(main.i)
      /\ UNCHANGED <<program, file, config, thread>>
      /\ main.i \in 1 .. numThreads /\ HandedOut(numThreads)
      /\ \A j \in 1 .. main.i - 1 : Served(j)
  BY <1>1 DEF Serve, ServersOK, StartedOK, ProgramOK
<1>3. thread[main.i].promise /\ thread[main.i].m_loop /\ main.i \in Threads
  <2>1. main.i \in Threads /\ thread[main.i].promise
    BY <1>1, <1>2 DEF HandedOut
  <2>2. ThreadOK(thread[main.i]) /\ GoesOn(thread[main.i])
    BY <1>1, <1>2, <2>1 DEF ThreadsOK
  <2>3. QED
    BY <2>1, <2>2 DEF ThreadOK, GoesOn
<1>4. \A s \in servers' : s.thread \in Threads /\ s.loop /\ thread'[s.thread].promise
  <2>1. \A s \in ServersOf(main.i) : s.thread = main.i /\ s.loop = thread[main.i].m_loop
    BY DEF ServersOf
  <2>2. QED
    BY <1>1, <1>2, <1>3, <2>1 DEF ServersOK
<1>5. \A j \in 1 .. main.i : Served(j)'
  <2>1. ASSUME NEW k \in DOMAIN config.services
        PROVE  \/ \E s \in ServersOf(main.i) : s.thread = main.i /\ s.service = k
               \/ program = "main" /\ ~IsRtmp(config.services[k])
    <3> DEFINE s == [service |-> k, thread |-> main.i, loop |-> thread[main.i].m_loop]
    <3>1. CASE program = "main" => IsRtmp(config.services[k])
      <4>1. s \in ServersOf(main.i)
        BY <3>1 DEF ServersOf
      <4>2. s.thread = main.i /\ s.service = k
        OBVIOUS
      <4> HIDE DEF s
      <4>3. QED
        BY <4>1, <4>2
    <3>2. QED
      BY <3>1
  <2>2. ASSUME NEW j, j = main.i PROVE Served(j)'
    BY <1>2, <2>1, <2>2 DEF Served
  <2>3. \A j \in 1 .. main.i - 1 : Served(j)'
    BY <1>2 DEF Served
  <2>4. \A j \in 1 .. main.i : j = main.i \/ j \in 1 .. main.i - 1
    BY <1>1, <1>2
  <2>5. QED
    BY <2>2, <2>3, <2>4
<1>6. CASE main.i < numThreads
  <2>1. main' = [at |-> "serve", i |-> main.i + 1]
    BY <1>6 DEF Serve, Goto
  <2>2. (main.i + 1) - 1 = main.i /\ main.i + 1 \in 1 .. numThreads
    BY <1>1, <1>2, <1>6
  <2>3. DOMAIN main' = {"at", "i"} /\ main'.i = main.i + 1 /\ main'.at = "serve"
    BY <2>1
  <2>4. StartedOK'
    BY <1>1, <1>2, <2>2, <2>3 DEF StartedOK, HandedOut
  <2>5. ServersOK'
    BY <1>2, <1>4, <1>5, <2>2, <2>3 DEF ServersOK, Loads
  <2>6. ProgramOK' /\ ConfigOK' /\ ThreadsOK'
    BY <1>1, <1>2, <2>2, <2>3 DEF ProgramOK, ConfigOK, ThreadsOK, Loads
  <2>7. QED
    BY <2>4, <2>5, <2>6 DEF LoopInv
<1>7. CASE ~(main.i < numThreads)
  <2>1. /\ DOMAIN main' = {"at", "i"} /\ main'.i = 1
        /\ main'.at = IF program = "main" THEN "task" ELSE "asleep"
    BY <1>7 DEF Serve, Goto
  <2>2. main.i = numThreads
    BY <1>1, <1>2, <1>7
  <2>3. StartedOK'
    BY <1>1, <1>2, <2>1 DEF StartedOK, HandedOut
  <2>4. ServersOK'
    BY <1>1, <1>2, <1>4, <1>5, <2>1, <2>2 DEF ServersOK, Loads
  <2>5. ProgramOK' /\ ConfigOK' /\ ThreadsOK'
    BY <1>1, <1>2, <2>1 DEF ProgramOK, ConfigOK, ThreadsOK, Loads
  <2>6. QED
    BY <2>3, <2>4, <2>5 DEF LoopInv
<1>8. QED
  BY <1>6, <1>7

LEMMA LoopStep == LoopInv /\ [Next]_vars => LoopInv'
<1> SUFFICES ASSUME LoopInv, [Next]_vars PROVE LoopInv'
  OBVIOUS
<1> USE DEF dnsVars, taskVars
<1>1. CASE Load
  BY <1>1, LoadKeeps
<1>2. CASE CreatePool
  BY <1>2, CreatePoolKeeps
<1>3. CASE RunThread
  BY <1>3, RunThreadKeeps
<1>4. CASE Started
  BY <1>4, StartedKeeps
<1>5. CASE Destroy
  BY <1>5, DestroyKeeps
<1>6. CASE Joined
  BY <1>6, ElseKeeps DEF Joined, Goto
<1>7. CASE Serve
  BY <1>7, ServeKeeps
<1>8. CASE AddTimer
  BY <1>8, ElseKeeps DEF AddTimer, Goto
<1>9. CASE ServiceDns
  BY <1>9, ElseKeeps DEF ServiceDns, Goto
<1>10. CASE DnsStopped
  BY <1>10, ElseKeeps DEF DnsStopped, Goto
<1>11. CASE DnsStep
  BY <1>11, ElseKeeps DEF DnsStep
<1>12. ASSUME NEW t \in Threads, ThreadStep(t)
       PROVE  LoopInv'
  <2>1. startEventLoop(t) /\ UNCHANGED <<program, main, file, config, servers>>
    BY <1>12 DEF ThreadStep
  <2>2. DOMAIN thread = Threads /\ \A u \in Threads : ThreadOK(thread[u])
    BY DEF LoopInv, ThreadsOK
  <2>3. /\ DOMAIN thread' = Threads
        /\ \A u \in Threads \ {t} : thread'[u] = thread[u]
        /\ ThreadOK(thread'[t])
        /\ thread[t].promise => thread'[t].promise
        /\ GoesOn(thread[t]) => GoesOn(thread'[t])
    BY <2>1, <2>2, StepOK
  <2>4. QED
    BY <2>1, <2>2, <2>3, ThreadKeeps
<1>13. CASE Work
  BY <1>13, ElseKeeps DEF Work
<1>14. CASE Tick
  BY <1>14, ElseKeeps DEF Tick
<1>15. CASE UserDns
  BY <1>15, ElseKeeps DEF UserDns, Goto
<1>16. CASE UNCHANGED vars
  BY <1>16, ElseKeeps DEF vars
<1>17. QED
  BY <1>1, <1>2, <1>3, <1>4, <1>5, <1>6, <1>7, <1>8, <1>9, <1>10, <1>11, <1>12, <1>13,
     <1>14, <1>15, <1>16 DEF Next, MainStep

(* Where main is tells which threads have handed their loops out, and which  *)
(* of these have their servers (EventLoopThreadPool, LiveService::Start).    *)
THEOREM LiveServerInvariant == Spec => []LoopInv
<1>1. Init => LoopInv
  BY LoopInit
<1>2. LoopInv /\ [Next]_vars => LoopInv'
  BY LoopStep
<1>3. QED
  BY <1>1, <1>2, PTL DEF Spec

(* Every server has a loop that is there and runs or is about to, and a      *)
(* program that has started has all of them (LiveService::Start, which reads *)
(* each m_loop without the lock under which its thread writes it).           *)
THEOREM LiveServerServers == Spec => []ServersOnRunningLoops
<1>1. ASSUME LoopInv, NEW s \in servers
      PROVE  s.loop /\ thread[s.thread].at \in {"posted", "looping"}
  <2>1. s.loop /\ s.thread \in Threads /\ thread[s.thread].promise
        /\ main.at \in {"serve", "task", "asleep"}
    BY <1>1 DEF LoopInv, ServersOK
  <2>2. ThreadOK(thread[s.thread]) /\ GoesOn(thread[s.thread])
    BY <1>1, <2>1 DEF LoopInv, ThreadsOK
  <2>3. QED
    BY <2>1, <2>2 DEF ThreadOK, GoesOn
<1>2. ASSUME LoopInv, main.at = "asleep", config.loaded,
             NEW t \in 1 .. numThreads, NEW k \in DOMAIN config.services
      PROVE  (\E s \in servers : s.thread = t /\ s.service = k)
               \/ (program = "main" /\ ~IsRtmp(config.services[k]))
  BY <1>2 DEF LoopInv, ServersOK, Served
<1>3. LoopInv => ServersOnRunningLoops
  BY <1>1, <1>2 DEF ServersOnRunningLoops
<1>4. QED
  BY <1>3, LiveServerInvariant, PTL

-----------------------------------------------------------------------------
(* DnsServer's hosts.                                                        *)

DnsType ==
  [at : {"off", "top", "next", "lookup", "found", "ended"}, running_ : BOOLEAN,
   left : SUBSET Hosts, host : Hosts \cup {NoHost}, tries : Nat,
   list : Seq(1 .. MaxAddresses), raced : BOOLEAN]

(* What the thread has found is a list of addresses, possibly none; a host   *)
(* that had an address has a list with some.                                 *)
HostInv ==
  /\ DOMAIN hosts_info_ \subseteq Hosts
  /\ \A h \in DOMAIN hosts_info_ : hosts_info_[h] \in Seq(1 .. MaxAddresses)
  /\ dns \in DnsType
  /\ \A h \in answered : h \in DOMAIN hosts_info_ /\ hosts_info_[h] # <<>>

LEMMA HostInit == Init => HostInv
<1> SUFFICES ASSUME Init PROVE HostInv
  OBVIOUS
<1>1. hosts_info_ = <<>> /\ DOMAIN hosts_info_ = {} /\ answered = {} /\ dns = NoDns
  BY DEF Init
<1>2. <<>> \in Seq(1 .. MaxAddresses)
  OBVIOUS
<1>3. NoDns \in DnsType
  BY <1>2 DEF NoDns, DnsType
<1>4. QED
  BY <1>1, <1>3 DEF HostInv

(* A list of addresses answers every index with one of them.                 *)
LEMMA AddressAtIndex ==
  ASSUME NEW h \in DOMAIN hosts_info_, hosts_info_[h] \in Seq(1 .. MaxAddresses),
         hosts_info_[h] # <<>>, NEW i \in Indexes
  PROVE  GetHostAddress(h, i) \in 1 .. MaxAddresses
<1> DEFINE list == hosts_info_[h]
           at == (i % SizeModulus) % Len(list)
<1>1. i \in Int /\ SizeModulus \in Nat /\ SizeModulus > 0
  BY LiveServerAssumption
<1>2. Len(list) \in Nat /\ Len(list) > 0
  BY EmptySeq
<1>3. (i % SizeModulus) \in Int
  BY <1>1
<1>4. at \in 0 .. Len(list) - 1
  BY <1>2, <1>3
<1>5. at + 1 \in 1 .. Len(list)
  <2> HIDE DEF at
  <2> QED
    BY <1>2, <1>4
<1>6. list[at + 1] \in 1 .. MaxAddresses
  <2> HIDE DEF at
  <2> QED
    BY <1>5, ElementOfSeq
<1>7. GetHostAddress(h, i) = list[at + 1]
  BY DEF GetHostAddress
<1>8. QED
  BY <1>6, <1>7

(* A step of the thread: only a list with addresses gets into the map.       *)
LEMMA OnWorkKeepsHosts ==
  ASSUME HostInv, OnWork, answered' = answered
  PROVE  HostInv'
<1>1. dns \in DnsType
  BY DEF HostInv
<1>2. <<>> \in Seq(1 .. MaxAddresses)
  OBVIOUS
<1>3. ASSUME dns' \in DnsType, hosts_info_' = hosts_info_
      PROVE  HostInv'
  BY <1>3 DEF HostInv
<1>4. CASE Round
  <2>1. DOMAIN hosts_info_ \in SUBSET Hosts
    BY DEF HostInv
  <2>2. dns' \in DnsType /\ hosts_info_' = hosts_info_
    BY <1>1, <1>4, <2>1 DEF Round, DnsType
  <2>3. QED
    BY <1>3, <2>2
<1>5. CASE NextHost
  <2>1. CASE dns.left = {}
    <3>1. dns' = [dns EXCEPT !.at = "top", !.host = NoHost] /\ hosts_info_' = hosts_info_
      BY <1>5, <2>1 DEF NextHost
    <3>2. dns' \in DnsType
      BY <1>1, <3>1 DEF DnsType
    <3>3. QED
      BY <1>3, <3>1, <3>2
  <2>2. CASE dns.left # {}
    <3>1. PICK h \in dns.left :
            dns' = [dns EXCEPT !.at = "lookup", !.left = @ \ {h}, !.host = h, !.tries = 0]
      BY <1>5, <2>2 DEF NextHost
    <3>2. h \in Hosts /\ dns.left \ {h} \in SUBSET Hosts
      BY <1>1 DEF DnsType
    <3>3. dns' \in DnsType
      BY <1>1, <3>1, <3>2 DEF DnsType
    <3>4. QED
      BY <1>3, <1>5, <3>3 DEF NextHost
  <2>3. QED
    BY <2>1, <2>2
<1>6. CASE NextHostRaced
  <2>1. \A left \in SUBSET DOMAIN hosts_info_ : left \in SUBSET Hosts
    BY DEF HostInv
  <2>2. ASSUME NEW left \in SUBSET DOMAIN hosts_info_,
               dns' = [dns EXCEPT !.left = left, !.raced = FALSE]
        PROVE  dns' \in DnsType
    BY <1>1, <2>1, <2>2 DEF DnsType
  <2>3. dns' \in DnsType /\ hosts_info_' = hosts_info_
    BY <1>1, <1>6, <2>2 DEF NextHostRaced
  <2>4. QED
    BY <1>3, <2>3
<1>7. CASE Lookup
  <2>1. MaxAddresses \in Nat
    BY LiveServerAssumption
  <2>2. PICK n \in 1 .. MaxAddresses :
          dns' = [dns EXCEPT !.at = "found", !.list = [i \in 1 .. n |-> i]]
    BY <1>7 DEF Lookup
  <2>3. n \in Nat /\ \A i \in 1 .. n : i \in 1 .. MaxAddresses
    BY <2>1
  <2>4. [i \in 1 .. n |-> i] \in Seq(1 .. MaxAddresses)
    BY <2>3
  <2>5. dns' \in DnsType /\ hosts_info_' = hosts_info_
    BY <1>1, <1>7, <2>2, <2>4 DEF Lookup, DnsType
  <2>6. QED
    BY <1>3, <2>5
<1>8. CASE LookupFails
  <2>1. dns' \in DnsType /\ hosts_info_' = hosts_info_
    BY <1>1, <1>2, <1>8 DEF LookupFails, DnsType
  <2>2. QED
    BY <1>3, <2>1
<1>9. CASE GiveUp
  <2>1. dns' \in DnsType /\ hosts_info_' = hosts_info_
    BY <1>1, <1>9 DEF GiveUp, DnsType
  <2>2. QED
    BY <1>3, <2>1
<1>10. CASE UpdateHost
  <2>1. CASE dns.list = <<>>
    <3>1. dns' = [dns EXCEPT !.at = "lookup", !.tries = @ + 1] /\ hosts_info_' = hosts_info_
      BY <1>10, <2>1 DEF UpdateHost, Takes
    <3>2. dns.tries + 1 \in Nat
      BY <1>1 DEF DnsType
    <3>3. dns' \in DnsType
      BY <1>1, <3>1, <3>2 DEF DnsType
    <3>4. QED
      BY <1>3, <3>1, <3>3
  <2>2. CASE dns.list # <<>>
    <3>1. /\ hosts_info_' = [hosts_info_ EXCEPT ![dns.host] = dns.list]
          /\ dns' = [dns EXCEPT !.at = "next", !.list = <<>>, !.tries = 0]
      BY <1>10, <2>2 DEF UpdateHost, Takes
    <3>2. dns' \in DnsType
      BY <1>1, <1>2, <3>1 DEF DnsType
    <3>3. dns.list \in Seq(1 .. MaxAddresses)
      BY <1>1 DEF DnsType
    <3>4. DOMAIN hosts_info_' = DOMAIN hosts_info_
      BY <3>1
    <3>5. \A h \in DOMAIN hosts_info_ :
            hosts_info_'[h] = hosts_info_[h] \/ hosts_info_'[h] = dns.list
      BY <3>1
    <3>6. QED
      BY <2>2, <3>2, <3>3, <3>4, <3>5 DEF HostInv
  <2>3. QED
    BY <2>1, <2>2
<1>11. QED
  BY <1>4, <1>5, <1>6, <1>7, <1>8, <1>9, <1>10 DEF OnWork

(* What a program calls: hosts are added with no address and never removed.  *)
LEMMA UserDnsKeepsHosts ==
  ASSUME HostInv, UserDns
  PROVE  HostInv'
<1>1. dns \in DnsType
  BY DEF HostInv
<1>2. ASSUME NEW h \in Hosts, AddHost(h), answered' = answered
      PROVE  HostInv'
  <2>1. <<>> \in Seq(1 .. MaxAddresses)
    OBVIOUS
  <2>2. dns' \in DnsType
    BY <1>1, <1>2 DEF AddHost, DnsType, Iterating
  <2>3. /\ DOMAIN hosts_info_' = DOMAIN hosts_info_ \cup {h}
        /\ hosts_info_'[h] = <<>> /\ h \notin DOMAIN hosts_info_
        /\ \A g \in DOMAIN hosts_info_ : hosts_info_'[g] = hosts_info_[g]
    BY <1>2 DEF AddHost
  <2>4. QED
    BY <1>2, <2>1, <2>2, <2>3 DEF HostInv
<1>3. CASE StartDns /\ UNCHANGED <<answered, hosts_info_>>
  <2>1. dns' \in DnsType
    BY <1>1, <1>3 DEF StartDns, DnsType
  <2>2. QED
    BY <1>3, <2>1 DEF HostInv
<1>4. CASE StopDns /\ UNCHANGED <<answered, hosts_info_>>
  <2>1. dns' \in DnsType
    BY <1>1, <1>4 DEF StopDns, DnsType
  <2>2. QED
    BY <1>4, <2>1 DEF HostInv
<1>5. ASSUME NEW h \in Hosts, NEW i \in Indexes, GetHostAddress(h, i) # Null,
             answered' = answered \cup {h}, UNCHANGED <<hosts_info_, dns>>
      PROVE  HostInv'
  <2>1. h \in DOMAIN hosts_info_ /\ hosts_info_[h] # <<>>
    BY <1>5 DEF GetHostAddress
  <2>2. QED
    BY <1>5, <2>1 DEF HostInv
<1>6. QED
  BY <1>2, <1>3, <1>4, <1>5 DEF UserDns, dnsVars

LEMMA HostStep == HostInv /\ [Next]_vars => HostInv'
<1> SUFFICES ASSUME HostInv, [Next]_vars PROVE HostInv'
  OBVIOUS
<1> USE DEF dnsVars
<1>1. ASSUME UNCHANGED <<hosts_info_, dns, answered>>
      PROVE  HostInv'
  BY <1>1 DEF HostInv
<1>2. CASE Load
  BY <1>1, <1>2 DEF Load
<1>3. CASE CreatePool \/ RunThread \/ Started \/ Destroy \/ Joined
  BY <1>1, <1>3 DEF CreatePool, RunThread, Started, Destroy, Joined
<1>4. CASE Serve \/ AddTimer \/ DnsStopped
  BY <1>1, <1>4 DEF Serve, AddTimer, DnsStopped
<1>5. CASE ServiceDns
  <2>1. dns \in DnsType
    BY DEF HostInv
  <2>2. dns' \in DnsType /\ UNCHANGED <<hosts_info_, answered>>
    BY <1>5, <2>1 DEF ServiceDns, StartDns, DnsType
  <2>3. QED
    BY <2>2 DEF HostInv
<1>6. CASE DnsStep
  BY <1>6, OnWorkKeepsHosts DEF DnsStep
<1>7. ASSUME NEW t \in Threads, ThreadStep(t)
      PROVE  HostInv'
  BY <1>1, <1>7 DEF ThreadStep
<1>8. CASE Work \/ Tick
  BY <1>1, <1>8 DEF Work, Tick
<1>9. CASE UserDns
  BY <1>9, UserDnsKeepsHosts
<1>10. CASE UNCHANGED vars
  BY <1>1, <1>10 DEF vars
<1>11. QED
  BY <1>2, <1>3, <1>4, <1>5, <1>6, <1>7, <1>8, <1>9, <1>10 DEF Next, MainStep

(* A host that had an address keeps one, for every index a caller may give   *)
(* and every order of lookups and calls: only UpdateHost writes a list, and  *)
(* it writes none that is empty (DnsServer::GetHostInfo, UpdateHost).        *)
THEOREM LiveServerHosts == Spec => []HostKeepsAddress
<1>1. Spec => []HostInv
  BY HostInit, HostStep, PTL DEF Spec
<1>2. ASSUME HostInv, NEW h \in answered, NEW i \in Indexes
      PROVE  GetHostAddress(h, i) # Null
  <2>1. /\ h \in DOMAIN hosts_info_ /\ hosts_info_[h] # <<>>
        /\ hosts_info_[h] \in Seq(1 .. MaxAddresses)
    BY <1>2 DEF HostInv
  <2>2. GetHostAddress(h, i) \in 1 .. MaxAddresses
    BY <2>1, AddressAtIndex
  <2>3. QED
    BY <2>2, LiveServerAssumption DEF Null
<1>3. HostInv => HostKeepsAddress
  BY <1>2 DEF HostKeepsAddress
<1>4. QED
  BY <1>1, <1>3, PTL

-----------------------------------------------------------------------------
(* Numbers.                                                                  *)

(* A number written in one, two, three or four bytes is read back modulo the *)
(* width of the field: what was written when it fits, and only the low 24    *)
(* bits of a longer timestamp or length (WriteUint24T drops the first byte). *)
THEOREM NumbersReadBack ==
  ASSUME NEW val \in Nat
  PROVE  /\ ReadUint8T(WriteUint8T(val)) = val % 256
         /\ ReadUint16T(WriteUint16T(val)) = val % Two
         /\ ReadUint24T(WriteUint24T(val)) = val % Three
         /\ ReadUint32T(WriteUint32T(val)) = val % Four
<1> DEFINE byte(k) == (val \div k) % 256
<1>1. ReadUint8T(WriteUint8T(val)) = val % 256
  BY DEF ReadUint8T, WriteUint8T
<1>2. ReadUint16T(WriteUint16T(val)) = val % Two
  <2>1. byte(256) * 256 + (val % 256) = val % Two
    BY DEF Two
  <2> QED
    BY <2>1 DEF ReadUint16T, WriteUint16T
<1>3. ReadUint24T(WriteUint24T(val)) = val % Three
  <2>1. byte(Two) * Two + byte(256) * 256 + (val % 256) = val % Three
    BY DEF Two, Three
  <2> QED
    BY <2>1 DEF ReadUint24T, WriteUint24T
<1>4. ReadUint32T(WriteUint32T(val)) = val % Four
  <2>1. byte(Two) * Two + byte(256) * 256 + (val % 256) = val % Three
    BY DEF Two, Three
  <2>2. byte(Three) * Three + (val % Three) = val % Four
    BY DEF Two, Three, Four
  <2>3. byte(Three) \in Int /\ byte(Two) \in Int /\ byte(256) \in Int /\ val % 256 \in Int
    BY DEF Two, Three
  <2>4. Two \in Int /\ Three \in Int
    BY DEF Two, Three
  <2>5. byte(Three) * Three + byte(Two) * Two + byte(256) * 256 + (val % 256) = val % Four
    <3> HIDE DEF byte
    <3> QED
      BY <2>1, <2>2, <2>3, <2>4 DEF Two, Three, Four
  <2> QED
    BY <2>5 DEF ReadUint32T, WriteUint32T
<1> QED
  BY <1>1, <1>2, <1>3, <1>4

(* The bytes of a received field are the ones its number is sent with: a     *)
(* reader and a writer in a row pass every field on unchanged.               *)
THEOREM BytesWrittenBack ==
  ASSUME NEW a \in Byte, NEW b \in Byte, NEW c \in Byte, NEW d \in Byte
  PROVE  /\ WriteUint8T(ReadUint8T(<<a>>)) = <<a>>
         /\ WriteUint16T(ReadUint16T(<<a, b>>)) = <<a, b>>
         /\ WriteUint24T(ReadUint24T(<<a, b, c>>)) = <<a, b, c>>
         /\ WriteUint32T(ReadUint32T(<<a, b, c, d>>)) = <<a, b, c, d>>
<1> USE DEF Byte, Two, Three, Four
<1>1. WriteUint8T(ReadUint8T(<<a>>)) = <<a>>
  BY DEF ReadUint8T, WriteUint8T
<1>2. WriteUint16T(ReadUint16T(<<a, b>>)) = <<a, b>>
  BY DEF ReadUint16T, WriteUint16T
<1>3. WriteUint24T(ReadUint24T(<<a, b, c>>)) = <<a, b, c>>
  <2> DEFINE n == a * Two + b * 256 + c
  <2>1. n % 256 = c
    OBVIOUS
  <2>2. (n \div 256) % 256 = b
    <3>1. n \div 256 = a * 256 + b
      OBVIOUS
    <3> QED
      BY <3>1
  <2>3. (n \div Two) % 256 = a
    OBVIOUS
  <2> HIDE DEF Two
  <2> QED
    BY <2>1, <2>2, <2>3 DEF ReadUint24T, WriteUint24T
<1>4. WriteUint32T(ReadUint32T(<<a, b, c, d>>)) = <<a, b, c, d>>
  <2> DEFINE n == a * Three + b * Two + c * 256 + d
  <2>1. n % 256 = d
    OBVIOUS
  <2>2. (n \div 256) % 256 = c
    <3>1. n \div 256 = a * Two + b * 256 + c
      OBVIOUS
    <3> QED
      BY <3>1
  <2>3. (n \div Two) % 256 = b
    <3>1. n \div Two = a * 256 + b
      OBVIOUS
    <3> QED
      BY <3>1
  <2>4. (n \div Three) % 256 = a
    OBVIOUS
  <2> HIDE DEF Two, Three
  <2> QED
    BY <2>1, <2>2, <2>3, <2>4 DEF ReadUint32T, WriteUint32T
<1> QED
  BY <1>1, <1>2, <1>3, <1>4

-----------------------------------------------------------------------------
(* Addresses.                                                                *)

(* The address of any four bytes and any port, as accept fills it.           *)
Quad(o1, o2, o3, o4) == <<<<o1, o2, o3, o4>>>>

LEMMA QuadIsIPv4 ==
  ASSUME NEW o1 \in Byte, NEW o2 \in Byte, NEW o3 \in Byte, NEW o4 \in Byte
  PROVE  /\ IsIPv4(Quad(o1, o2, o3, o4))
         /\ parseIpv4(Quad(o1, o2, o3, o4)) = ReadUint32T(<<o1, o2, o3, o4>>)
<1>1. Len(Quad(o1, o2, o3, o4)) = 1 /\ Quad(o1, o2, o3, o4)[1] = <<o1, o2, o3, o4>>
  BY DEF Quad
<1>2. \A i \in 1 .. 4 : <<o1, o2, o3, o4>>[i] \in Byte
  OBVIOUS
<1>3. IsIPv4(Quad(o1, o2, o3, o4))
  BY <1>1, <1>2 DEF IsIPv4
<1> QED
  BY <1>1, <1>3 DEF parseIpv4

(* The number of the text of a port is the port: it fits in 16 bits.         *)
LEMMA PortReadBack ==
  ASSUME NEW p1 \in Byte, NEW p2 \in Byte
  PROVE  LET n == ReadUint16T(<<p1, p2>>)
         IN  WriteUint16T(ToNumber(ToText(n)) % Two) = <<p1, p2>>
<1> DEFINE n == ReadUint16T(<<p1, p2>>)
<1>1. n \in Nat /\ n % Two = n
  BY DEF ReadUint16T, Byte, Two
<1>2. ToNumber(ToText(n)) = n
  <2> HIDE DEF n
  <2> QED
    BY <1>1 DEF ToNumber, ToText
<1>3. WriteUint16T(n) = <<p1, p2>>
  BY BytesWrittenBack
<1> QED
  BY <1>1, <1>2, <1>3

(* accept, getPeerAddress or getLocalAddress and then connect: the address   *)
(* and the port of a peer come back byte for byte, for both families.        *)
THEOREM PeerKeepsAddress ==
  ASSUME NEW p1 \in Byte, NEW p2 \in Byte, NEW old
  PROVE  /\ \A o1, o2, o3, o4 \in Byte :
              LET sock == [family |-> "AF_INET", port |-> <<p1, p2>>,
                           addr |-> <<o1, o2, o3, o4>>]
              IN  connect(AddressOf(sock), old).sock = sock
         /\ \A text \in Text : IsIPv6(text) =>
              LET sock == [family |-> "AF_INET6", port |-> <<p1, p2>>, addr |-> text]
              IN  connect(AddressOf(sock), old).sock = sock
<1> DEFINE n == ReadUint16T(<<p1, p2>>)
<1>1. WriteUint16T(ToNumber(ToText(n)) % Two) = <<p1, p2>>
  BY PortReadBack
<1>2. ASSUME NEW o1 \in Byte, NEW o2 \in Byte, NEW o3 \in Byte, NEW o4 \in Byte
      PROVE  LET sock == [family |-> "AF_INET", port |-> <<p1, p2>>,
                          addr |-> <<o1, o2, o3, o4>>]
             IN  connect(AddressOf(sock), old).sock = sock
  <2> DEFINE sock == [family |-> "AF_INET", port |-> <<p1, p2>>,
                      addr |-> <<o1, o2, o3, o4>>]
             a == AddressOf(sock)
             quad == <<<<o1, o2, o3, o4>>>>
  <2>1. a = [addr |-> quad, port |-> ToText(n), ipv6 |-> FALSE]
    BY DEF AddressOf, FromSockAddr, setPort, setAddr, Blank
  <2>2. IsIPv4(quad) /\ quad[1] = <<o1, o2, o3, o4>>
    BY QuadIsIPv4 DEF Quad
  <2>3. getPort(a) = ToNumber(ToText(n)) % Two
    BY <2>1 DEF getPort
  <2>4. getSockAddr(a, old) = sock
    <3> HIDE DEF a, quad, n
    <3> QED
      BY <1>1, <2>1, <2>2, <2>3 DEF getSockAddr, SockAddrIn
  <2> QED
    BY <2>4 DEF connect
<1>3. ASSUME NEW text \in Text, IsIPv6(text)
      PROVE  LET sock == [family |-> "AF_INET6", port |-> <<p1, p2>>, addr |-> text]
             IN  connect(AddressOf(sock), old).sock = sock
  <2> DEFINE sock == [family |-> "AF_INET6", port |-> <<p1, p2>>, addr |-> text]
             a == AddressOf(sock)
  <2>1. a = [addr |-> text, port |-> ToText(n), ipv6 |-> TRUE]
    BY DEF AddressOf, FromSockAddr, setPort, setAddr, setIsIpv6, Blank
  <2>2. getPort(a) = ToNumber(ToText(n)) % Two
    BY <2>1 DEF getPort
  <2>3. getSockAddr(a, old) = sock
    <3> HIDE DEF a, n
    <3> QED
      BY <1>1, <1>3, <2>1, <2>2 DEF getSockAddr, SockAddrIn6
  <2> QED
    BY <2>3 DEF connect
<1> QED
  BY <1>2, <1>3

LEMMA PairJoined ==
  ASSUME NEW S, NEW x \in S, NEW y \in S
  PROVE  <<x>> \o <<y>> = <<x, y>>
<1>1. <<x>> \in Seq(S) /\ <<y>> \in Seq(S) /\ <<x, y>> \in Seq(S)
  OBVIOUS
<1>2. Len(<<x>>) = 1 /\ Len(<<y>>) = 1 /\ Len(<<x, y>>) = 2
  OBVIOUS
<1>3. <<x>> \o <<y>> \in Seq(S) /\ Len(<<x>> \o <<y>>) = 2
  BY <1>1, <1>2, ConcatProperties
<1>4. (<<x>> \o <<y>>)[1] = x /\ (<<x>> \o <<y>>)[2] = y
  BY <1>1, <1>2, ConcatProperties
<1> DEFINE joined == <<x>> \o <<y>>
           pair == <<x, y>>
<1>5. pair[1] = x /\ pair[2] = y
  OBVIOUS
<1>6. \A i \in 1 .. Len(joined) : joined[i] = pair[i]
  <2> SUFFICES ASSUME NEW i \in 1 .. Len(joined)
               PROVE  joined[i] = pair[i]
    OBVIOUS
  <2>1. i = 1 \/ i = 2
    BY <1>3
  <2> QED
    <3> HIDE DEF joined, pair
    <3> QED
      BY <2>1, <1>4, <1>5 DEF joined
<1>7. joined \in Seq(S) /\ pair \in Seq(S) /\ Len(joined) = Len(pair)
  BY <1>1, <1>2, <1>3
<1> QED
  <2> HIDE DEF joined, pair
  <2>1. joined = pair
    BY <1>6, <1>7, SeqEqual
  <2> QED
    BY <2>1 DEF joined, pair

(* toIpPort and back through setHost: an IPv4 address and its port survive.  *)
(* An IPv6 address does not: it is cut at its own first colon, and a server  *)
(* given what was read binds to "::", which is every interface.              *)
THEOREM PrintedHostReadBack ==
  ASSUME NEW port \in Port, NEW old
  PROVE  /\ \A o1, o2, o3, o4 \in Byte :
              LET a == FromIpPort(Quad(o1, o2, o3, o4), port, FALSE)
              IN  FromHost(toIpPort(a), FALSE) = a
         /\ \A text \in Text : IsIPv6(text) =>
              LET a == FromIpPort(text, port, TRUE)
              IN  bindAddress(FromHost(toIpPort(a), TRUE), old).sock.addr = Any6
<1>1. ASSUME NEW o1 \in Byte, NEW o2 \in Byte, NEW o3 \in Byte, NEW o4 \in Byte
      PROVE  LET a == FromIpPort(Quad(o1, o2, o3, o4), port, FALSE)
             IN  FromHost(toIpPort(a), FALSE) = a
  <2> DEFINE quad == <<o1, o2, o3, o4>>
             host == <<quad, <<port>>>>
  <2>1. toIpPort(FromIpPort(Quad(o1, o2, o3, o4), port, FALSE)) = host
    <3> DEFINE S == Nat \cup {-1}
    <3>0. o1 \in S /\ o2 \in S /\ o3 \in S /\ o4 \in S /\ port \in S
      <4> HIDE DEF quad, host
      <4>1. o1 \in Nat /\ o2 \in Nat /\ o3 \in Nat /\ o4 \in Nat
        BY DEF Byte
      <4>2. port \in Nat
        BY DEF Port, Two
      <4>3. Nat \subseteq S
        OBVIOUS
      <4> HIDE DEF S
      <4> QED
        BY <4>1, <4>2, <4>3
    <3>1. quad \in Piece /\ <<port>> \in Piece
      <4> HIDE DEF S
      <4>1. quad \in Seq(S) /\ <<port>> \in Seq(S)
        BY <3>0
      <4> QED
        BY <4>1 DEF S, Piece
    <3>2. <<quad>> \o <<<<port>>>> = <<quad, <<port>>>>
      <4> HIDE DEF quad
      <4> QED
        BY <3>1, PairJoined
    <3> QED
      BY <3>2 DEF toIpPort, FromIpPort, Quad, ToText
  <2>2. Len(host) = 2 /\ host[1] = quad /\ Tail(host) = <<<<port>>>>
    OBVIOUS
  <2>3. getIp(host) = <<quad>> /\ getPortText(host) = ToText(port)
    BY <2>2 DEF getIp, getPortText, ToText
  <2> QED
    BY <2>1, <2>3 DEF FromHost, FromIpPort, Quad
<1>2. ASSUME NEW text \in Text, IsIPv6(text)
      PROVE  LET a == FromIpPort(text, port, TRUE)
             IN  bindAddress(FromHost(toIpPort(a), TRUE), old).sock.addr = Any6
  <2> DEFINE host == text \o ToText(port)
             b == FromHost(host, TRUE)
  <2>1. toIpPort(FromIpPort(text, port, TRUE)) = host
    BY DEF toIpPort, FromIpPort
  <2>2. Len(text) \in Nat /\ Len(text) >= 3
    <3>1. Len(text) \in 3 .. 9
      BY <1>2 DEF IsIPv6
    <3>2. \A k \in 3 .. 9 : k \in Nat /\ k >= 3
      OBVIOUS
    <3> QED
      <4> HIDE DEF host, b
      <4> QED
        BY <3>1, <3>2
  <2>3. Len(host) > 1
    <3>1. ToText(port) \in Text /\ Len(ToText(port)) = 1
      <4>1. <<port>> \in Piece
        BY DEF Piece, Port
      <4>2. \A piece \in Piece : <<piece>> \in Seq(Piece) /\ Len(<<piece>>) = 1
        OBVIOUS
      <4> QED
        BY <4>1, <4>2 DEF ToText, Text
    <3>2. \A s, t \in Seq(Piece) : Len(s \o t) = Len(s) + Len(t)
      OBVIOUS
    <3> QED
      BY <2>2, <3>1, <3>2 DEF Text
  <2>4. b.addr = <<host[1]>> /\ b.ipv6 = TRUE
    <3> HIDE DEF host
    <3> QED
      BY <2>3 DEF FromHost, getIp
  <2>5. ~IsIPv6(b.addr)
    <3> HIDE DEF host, b
    <3>1. Len(<<host[1]>>) = 1
      OBVIOUS
    <3> QED
      BY <2>4, <3>1 DEF IsIPv6
  <2> QED
    <3>1. getSockAddr(b, old).addr = Any6
      <4> HIDE DEF b
      <4> QED
        BY <2>4, <2>5 DEF getSockAddr, SockAddrIn6
    <3> QED
      BY <2>1, <3>1 DEF bindAddress
<1> QED
  BY <1>1, <1>2
LEMMA QuadNumber ==
  ASSUME NEW o1 \in Byte, NEW o2 \in Byte, NEW o3 \in Byte, NEW o4 \in Byte
  PROVE  parseIpv4(Quad(o1, o2, o3, o4)) = o1 * Three + o2 * Two + o3 * 256 + o4
<1>1. ReadUint32T(<<o1, o2, o3, o4>>) = o1 * Three + o2 * Two + o3 * 256 + o4
  BY DEF ReadUint32T
<1> QED
  BY <1>1, QuadIsIPv4

(* isLanIp compares numbers in host order: the three ranges are the private  *)
(* networks 10/8, 172.16/12 and 192.168/16, and nothing else.                *)
THEOREM LanIsPrivate ==
  ASSUME NEW o1 \in Byte, NEW o2 \in Byte, NEW o3 \in Byte, NEW o4 \in Byte,
         NEW a, a.addr = Quad(o1, o2, o3, o4)
  PROVE  isLanIp(a) <=>
           o1 = 10 \/ (o1 = 172 /\ o2 \in 16 .. 31) \/ (o1 = 192 /\ o2 = 168)
<1> DEFINE ip == o1 * Three + o2 * Two + o3 * 256 + o4
<1>1. parseIpv4(a.addr) = ip
  BY QuadNumber
<1>2. Between(ip, <<10, 0, 0, 0>>, <<10, 255, 255, 255>>) <=> o1 = 10
  BY DEF Between, ReadUint32T, Byte, Two, Three
<1>3. Between(ip, <<172, 16, 0, 0>>, <<172, 31, 255, 255>>) <=> (o1 = 172 /\ o2 \in 16 .. 31)
  BY DEF Between, ReadUint32T, Byte, Two, Three
<1>4. Between(ip, <<192, 168, 0, 0>>, <<192, 168, 255, 255>>) <=> (o1 = 192 /\ o2 = 168)
  BY DEF Between, ReadUint32T, Byte, Two, Three
<1> QED
  <2> HIDE DEF ip
  <2> QED
    BY <1>1, <1>2, <1>3, <1>4 DEF isLanIp

(* isWanIp excludes the private networks and one loopback address: the other *)
(* addresses of 127/8, every name and every IPv6 address count as public,    *)
(* "::1" among them, which isLoopbackIp knows as the loopback.               *)
THEOREM WanIsTheRest ==
  ASSUME NEW a
  PROVE  /\ \A o2, o3, o4 \in Byte :
              a.addr = Quad(127, o2, o3, o4)
                => (isWanIp(a) <=> <<o2, o3, o4>> # <<0, 0, 1>>)
         /\ ~IsIPv4(a.addr) => isWanIp(a)
         /\ a.addr = Loopback6 => isLoopbackIp(a) /\ isWanIp(a)
<1>1. ASSUME NEW o2 \in Byte, NEW o3 \in Byte, NEW o4 \in Byte,
             a.addr = Quad(127, o2, o3, o4)
      PROVE  isWanIp(a) <=> <<o2, o3, o4>> # <<0, 0, 1>>
  <2>1. 127 \in Byte
    BY DEF Byte
  <2>2. ~isLanIp(a)
    BY <1>1, <2>1, LanIsPrivate
  <2>3. parseIpv4(a.addr) = 127 * Three + o2 * Two + o3 * 256 + o4
    BY <1>1, <2>1, QuadNumber
  <2>4. parseIpv4(a.addr) = ReadUint32T(<<127, 0, 0, 1>>) <=> (o2 = 0 /\ o3 = 0 /\ o4 = 1)
    BY <2>3 DEF ReadUint32T, Byte, Two, Three
  <2>5. <<o2, o3, o4>> = <<0, 0, 1>> <=> (o2 = 0 /\ o3 = 0 /\ o4 = 1)
    OBVIOUS
  <2> QED
    BY <2>2, <2>4, <2>5 DEF isWanIp
<1>2. ASSUME ~IsIPv4(a.addr) PROVE isWanIp(a)
  <2>1. parseIpv4(a.addr) = 0
    BY <1>2 DEF parseIpv4
  <2>2. ~Between(0, <<10, 0, 0, 0>>, <<10, 255, 255, 255>>)
    BY DEF Between, ReadUint32T, Two, Three
  <2>3. ~Between(0, <<172, 16, 0, 0>>, <<172, 31, 255, 255>>)
    BY DEF Between, ReadUint32T, Two, Three
  <2>4. ~Between(0, <<192, 168, 0, 0>>, <<192, 168, 255, 255>>)
    BY DEF Between, ReadUint32T, Two, Three
  <2>5. 0 # ReadUint32T(<<127, 0, 0, 1>>)
    BY DEF ReadUint32T, Two, Three
  <2> QED
    BY <2>1, <2>2, <2>3, <2>4, <2>5 DEF isWanIp, isLanIp
<1>3. ASSUME a.addr = Loopback6 PROVE isLoopbackIp(a) /\ isWanIp(a)
  <2>1. Len(a.addr) = 3
    BY <1>3 DEF Loopback6
  <2>2. ~IsIPv4(a.addr)
    BY <2>1 DEF IsIPv4
  <2> QED
    BY <1>2, <1>3, <2>2 DEF isLoopbackIp, Loopback6
<1> QED
  BY <1>1, <1>2, <1>3

(* A host from the configuration: without a port it means port 0, and a port *)
(* is taken modulo 65536 (atoi, then uint16_t).                              *)
THEOREM PortOfHost ==
  ASSUME NEW piece \in Piece, NEW n \in Nat
  PROVE  /\ getPort(FromHost(<<piece>>, FALSE)) = 0
         /\ getPort(FromHost(<<piece, <<n>>>>, FALSE)) = n % Two
<1>1. getPortText(<<piece>>) = ToText(0)
  BY DEF getPortText
<1>2. getPortText(<<piece, <<n>>>>) = ToText(n)
  BY DEF getPortText, ToText
<1>3. \A k \in Nat : ToNumber(ToText(k)) = k
  BY DEF ToNumber, ToText
<1>4. 0 % Two = 0
  BY DEF Two
<1> QED
  BY <1>1, <1>2, <1>3, <1>4 DEF getPort, FromHost

-----------------------------------------------------------------------------
(* The configuration, as its files say.                                      *)

(* A set of numbers that holds 0 and, with each number, the next one holds   *)
(* them all.                                                                 *)
LEMMA Counted ==
  ASSUME NEW T, 0 \in T, \A n \in Nat : n \in T => n + 1 \in T
  PROVE  \A n \in Nat : n \in T
<1> DEFINE R == OpToRel(<, Nat)
           U == Nat \ T
<1>1. IsWellFoundedOn(R, Nat)
  BY NatLessThanWellFounded, Zenon
<1>2. \A x, y \in Nat : x < y => <<x, y>> \in R
  BY DEF OpToRel
<1> HIDE DEF R
<1> SUFFICES ASSUME U # {} PROVE FALSE
  OBVIOUS
<1>3. PICK m \in U : \A y \in U : ~ (<<y, m>> \in R)
  BY <1>1, WFMin, Zenon
<1>4. m # 0 /\ m - 1 \in Nat /\ m - 1 < m
  OBVIOUS
<1>5. m - 1 \in T
  BY <1>2, <1>3, <1>4, Zenon
<1> QED
  BY <1>4, <1>5

(* One step of each of the three loops over a list.                          *)
Turn(loop, parsed, x) ==
  CASE loop = "apps"    -> AddApp(parsed, x)
    [] loop = "entries" -> ReadEntry(parsed, x)
    [] OTHER            -> ParseEntry(parsed, x)

(* g is what FoldLeft finds for the first places of a list s.                *)
Folds(g, loop, base, s, n) ==
  g = [t \in SUBSET (1 .. n) |->
         IF t = {} THEN base ELSE Turn(loop, g[t \ {Max(t)}], s[Max(t)])]

(* The place FoldLeft takes off a set of the first k.                        *)
LEMMA MaxIs ==
  ASSUME NEW k \in Nat, NEW t \in SUBSET (1 .. k), k \in t
  PROVE  Max(t) = k
<1>1. \A y \in t : k >= y
  OBVIOUS
<1>2. \A x \in t : (\A y \in t : x >= y) => x = k
  OBVIOUS
<1> QED BY <1>1, <1>2 DEF Max

(* There is such a g, for every number of members.                           *)
LEMMA FoldExists ==
  ASSUME NEW loop, NEW base, NEW s
  PROVE  \A n \in Nat : \E g : Folds(g, loop, base, s, n)
<1> DEFINE T == {n \in Nat : \E g : Folds(g, loop, base, s, n)}
<1>1. 0 \in T
  <2> DEFINE g == [t \in SUBSET (1 .. 0) |-> base]
  <2>1. \A t \in SUBSET (1 .. 0) : t = {}
    OBVIOUS
  <2>2. Folds(g, loop, base, s, 0)
    BY <2>1 DEF Folds
  <2> QED BY <2>2
<1>2. ASSUME NEW n \in Nat, n \in T
      PROVE  n + 1 \in T
  <2>1. PICK g : Folds(g, loop, base, s, n)
    BY <1>2
  <2> DEFINE h == [t \in SUBSET (1 .. n + 1) |->
                     IF n + 1 \in t THEN Turn(loop, g[t \ {n + 1}], s[n + 1]) ELSE g[t]]
             H(t) == IF t = {} THEN base ELSE Turn(loop, h[t \ {Max(t)}], s[Max(t)])
  <2>2. ASSUME NEW t \in SUBSET (1 .. n + 1), n + 1 \in t
        PROVE  h[t] = H(t)
    <3>1. Max(t) = n + 1 /\ t # {}
      BY <2>2, MaxIs
    <3>2. t \ {n + 1} \in SUBSET (1 .. n + 1) /\ n + 1 \notin t \ {n + 1}
      OBVIOUS
    <3>3. h[t \ {n + 1}] = g[t \ {n + 1}]
      BY <3>2
    <3> QED BY <2>2, <3>1, <3>3, Zenon
  <2>3. ASSUME NEW t \in SUBSET (1 .. n + 1), n + 1 \notin t
        PROVE  h[t] = H(t)
    <3>1. t \in SUBSET (1 .. n) /\ h[t] = g[t]
      BY <2>3
    <3>2. t \ {Max(t)} \in SUBSET (1 .. n + 1) /\ n + 1 \notin t \ {Max(t)}
      BY <2>3
    <3>3. h[t \ {Max(t)}] = g[t \ {Max(t)}]
      BY <3>2, Zenon
    <3>4. g[t] = IF t = {} THEN base ELSE Turn(loop, g[t \ {Max(t)}], s[Max(t)])
      BY <2>1, <3>1, Zenon DEF Folds
    <3> QED BY <3>1, <3>3, <3>4, Zenon
  <2>4. \A t \in SUBSET (1 .. n + 1) : h[t] = H(t)
    BY <2>2, <2>3, Zenon
  <2>5. Folds(h, loop, base, s, n + 1)
    BY <2>4, Zenon DEF Folds
  <2> QED BY <2>5
<1> HIDE DEF T
<1>3. \A n \in Nat : n \in T
  BY <1>1, <1>2, Counted
<1> QED BY <1>3 DEF T

(* What a loop has parsed after each member of its list.                     *)
Parsing(f, loop, base, s) ==
  f[0] = base /\ \A i \in DOMAIN s : f[i] = Turn(loop, f[i - 1], s[i])

(* It is the loop: member after member, from the first.                      *)
LEMMA FoldParses ==
  ASSUME NEW loop, NEW base, NEW s, NEW n \in Nat, DOMAIN s = 1 .. n, NEW g,
         Folds(g, loop, base, s, n)
  PROVE  \E f : Parsing(f, loop, base, s) /\ f[n] = g[DOMAIN s]
<1> DEFINE f == [i \in 0 .. n |-> g[1 .. i]]
<1>1. \A t \in SUBSET (1 .. n) :
        g[t] = IF t = {} THEN base ELSE Turn(loop, g[t \ {Max(t)}], s[Max(t)])
  BY Zenon DEF Folds
<1>2. f[0] = base
  <2>1. 1 .. 0 = {} /\ {} \in SUBSET (1 .. n) /\ 0 \in 0 .. n
    OBVIOUS
  <2> QED BY <1>1, <2>1, Zenon
<1>3. ASSUME NEW i \in 1 .. n
      PROVE  f[i] = Turn(loop, f[i - 1], s[i])
  <2>1. i \in Nat /\ i \in 1 .. i /\ i - 1 \in 0 .. n /\ i \in 0 .. n
    OBVIOUS
  <2>4. 1 .. i \in SUBSET (1 .. n) /\ 1 .. i \in SUBSET (1 .. i) /\ 1 .. i # {}
    BY <2>1
  <2>5. (1 .. i) \ {i} = 1 .. i - 1
    BY <2>1
  <2>2. Max(1 .. i) = i
    BY <2>1, <2>4, MaxIs
  <2>3. g[1 .. i] = Turn(loop, g[1 .. i - 1], s[i])
    BY <1>1, <2>2, <2>4, <2>5, Zenon
  <2> QED BY <2>1, <2>3, Zenon
<1>4. f[n] = g[DOMAIN s]
  OBVIOUS
<1> QED BY <1>2, <1>3, <1>4, Zenon DEF Parsing

(* The loop of ParseDomainInfo over the applications.                         *)
LEMMA AppsParse ==
  ASSUME NEW s, NEW n \in Nat, DOMAIN s = 1 .. n
  PROVE  \E f : Parsing(f, "apps", <<>>, s) /\ ParseApps(s) = f[n]
<1> DEFINE V(g, t) == IF t = {} THEN <<>> ELSE AddApp(g[t \ {Max(t)}], s[Max(t)])
           P(g) == g = [t \in SUBSET DOMAIN s |-> V(g, t)]
           it == CHOOSE g : P(g)
<1>1. ParseApps(s) = it[DOMAIN s]
  BY Zenon DEF ParseApps, FoldLeft, MapThenFoldSet
<1>2. \A g : P(g) <=> Folds(g, "apps", <<>>, s, n)
  BY DEF Folds, Turn
<1>3. \E g : P(g)
  BY <1>2, FoldExists
<1>4. P(it)
  BY <1>3, Zenon
<1>5. Folds(it, "apps", <<>>, s, n)
  BY <1>2, <1>4, Zenon
<1> HIDE DEF it
<1> QED BY <1>1, <1>5, FoldParses
(* The loop of ParseDomainPath.                                              *)
LEMMA EntriesParse ==
  ASSUME NEW base, NEW s, NEW n \in Nat, DOMAIN s = 1 .. n
  PROVE  \E f : Parsing(f, "entries", base, s) /\ ParseDomainPath(base, s) = f[n]
<1> DEFINE V(g, t) == IF t = {} THEN base ELSE ReadEntry(g[t \ {Max(t)}], s[Max(t)])
           P(g) == g = [t \in SUBSET DOMAIN s |-> V(g, t)]
           it == CHOOSE g : P(g)
<1>1. ParseDomainPath(base, s) = it[DOMAIN s]
  BY Zenon DEF ParseDomainPath, FoldLeft, MapThenFoldSet
<1>2. \A g : P(g) <=> Folds(g, "entries", base, s, n)
  BY DEF Folds, Turn
<1>3. \E g : P(g)
  BY <1>2, FoldExists
<1>4. P(it)
  BY <1>3, Zenon
<1>5. Folds(it, "entries", base, s, n)
  BY <1>2, <1>4, Zenon
<1> HIDE DEF it
<1> QED BY <1>1, <1>5, FoldParses

(* The loop of ParseDirectory.                                               *)
LEMMA DirectoryParses ==
  ASSUME NEW s, NEW n \in Nat, DOMAIN s = 1 .. n
  PROVE  \E f : Parsing(f, "directory", <<>>, s) /\ ParseDirectory(s) = f[n]
<1> DEFINE V(g, t) == IF t = {} THEN <<>> ELSE ParseEntry(g[t \ {Max(t)}], s[Max(t)])
           P(g) == g = [t \in SUBSET DOMAIN s |-> V(g, t)]
           it == CHOOSE g : P(g)
<1>1. ParseDirectory(s) = it[DOMAIN s]
  BY Zenon DEF ParseDirectory, FoldLeft, MapThenFoldSet
<1>2. \A g : P(g) <=> Folds(g, "directory", <<>>, s, n)
  BY DEF Folds, Turn
<1>3. \E g : P(g)
  BY <1>2, FoldExists
<1>4. P(it)
  BY <1>3, Zenon
<1>5. Folds(it, "directory", <<>>, s, n)
  BY <1>2, <1>4, Zenon
<1> HIDE DEF it
<1> QED BY <1>1, <1>5, FoldParses

(* Of the first k entries of a list of applications, the first of each name  *)
(* is in the map.                                                            *)
AppsSay(infos, apps, k) ==
  \A a : \/ /\ \A i \in 1 .. k : GivenName(apps[i].name) # a
            /\ a \notin DOMAIN infos
         \/ /\ a \in DOMAIN infos
            /\ \E i \in 1 .. k : /\ GivenName(apps[i].name) = a
                                 /\ \A j \in 1 .. k : GivenName(apps[j].name) = a => i <= j
                                 /\ infos[a] = ParseAppInfo(apps[i])

(* The next application is added, unless its name is there.                  *)
LEMMA AddAppSays ==
  ASSUME NEW apps, NEW k \in Nat, NEW infos, AppsSay(infos, apps, k)
  PROVE  AppsSay(AddApp(infos, apps[k + 1]), apps, k + 1)
<1> DEFINE app == apps[k + 1]
           info == ParseAppInfo(app)
           name == GivenName(app.name)
           new == AddApp(infos, app)
<1>1. info.app_name = name
  BY DEF ParseAppInfo
<1>2. /\ DOMAIN new = DOMAIN infos \cup {name}
      /\ \A a \in DOMAIN infos : new[a] = infos[a]
      /\ name \notin DOMAIN infos => new[name] = info
  BY <1>1 DEF AddApp, Emplace
<1>3. 1 .. k + 1 = 1 .. k \cup {k + 1} /\ \A i \in 1 .. k : i <= k + 1 /\ k + 1 <= k + 1
  OBVIOUS
<1> HIDE DEF new, info
<1>4. ASSUME NEW a, a \in DOMAIN infos
      PROVE  /\ a \in DOMAIN new
             /\ \E i \in 1 .. k + 1 :
                  /\ GivenName(apps[i].name) = a
                  /\ \A j \in 1 .. k + 1 : GivenName(apps[j].name) = a => i <= j
                  /\ new[a] = ParseAppInfo(apps[i])
  <2>1. PICK i \in 1 .. k : /\ GivenName(apps[i].name) = a
                            /\ \A j \in 1 .. k : GivenName(apps[j].name) = a => i <= j
                            /\ infos[a] = ParseAppInfo(apps[i])
    BY <1>4 DEF AppsSay
  <2>2. i \in 1 .. k + 1 /\ \A j \in 1 .. k + 1 : GivenName(apps[j].name) = a => i <= j
    BY <1>3, <2>1
  <2> QED BY <1>2, <1>4, <2>1, <2>2, Zenon
<1>5. ASSUME NEW a, a \notin DOMAIN infos, a = name
      PROVE  /\ a \in DOMAIN new
             /\ \E i \in 1 .. k + 1 :
                  /\ GivenName(apps[i].name) = a
                  /\ \A j \in 1 .. k + 1 : GivenName(apps[j].name) = a => i <= j
                  /\ new[a] = ParseAppInfo(apps[i])
  <2>1. \A i \in 1 .. k : GivenName(apps[i].name) # a
    BY <1>5 DEF AppsSay
  <2>2. \A j \in 1 .. k + 1 : GivenName(apps[j].name) = a => k + 1 <= j
    BY <1>3, <2>1
  <2> QED BY <1>2, <1>3, <1>5, <2>2 DEF info
<1>6. ASSUME NEW a, a \notin DOMAIN infos, a # name
      PROVE  a \notin DOMAIN new /\ \A i \in 1 .. k + 1 : GivenName(apps[i].name) # a
  BY <1>2, <1>3, <1>6 DEF AppsSay
<1>7. AppsSay(new, apps, k + 1)
  BY <1>4, <1>5, <1>6, Zenon DEF AppsSay
<1> QED BY <1>7 DEF new

(* All of a list of applications.                                            *)
LEMMA AppsSaid ==
  ASSUME NEW apps, NEW n \in Nat, DOMAIN apps = 1 .. n
  PROVE  AppsSay(ParseApps(apps), apps, n)
<1>1. PICK f : Parsing(f, "apps", <<>>, apps) /\ ParseApps(apps) = f[n]
  BY AppsParse
<1> DEFINE T == {k \in Nat : k <= n => AppsSay(f[k], apps, k)}
<1>2. 0 \in T
  <2>1. f[0] = <<>> /\ DOMAIN <<>> = {} /\ \A i \in 1 .. 0 : FALSE
    BY <1>1 DEF Parsing
  <2>2. AppsSay(f[0], apps, 0)
    BY <2>1 DEF AppsSay
  <2> QED BY <2>2
<1>3. ASSUME NEW k \in Nat, k \in T
      PROVE  k + 1 \in T
  <2>1. SUFFICES ASSUME k + 1 <= n PROVE AppsSay(f[k + 1], apps, k + 1)
    OBVIOUS
  <2>2. k <= n /\ k + 1 \in DOMAIN apps /\ (k + 1) - 1 = k
    BY <2>1
  <2>3. f[k + 1] = AddApp(f[k], apps[k + 1])
    BY <1>1, <2>2 DEF Parsing, Turn
  <2>4. AppsSay(f[k], apps, k)
    BY <1>3, <2>2
  <2> QED BY <2>3, <2>4, AddAppSays
<1> HIDE DEF T
<1>4. n \in T
  BY <1>2, <1>3, Counted
<1> QED BY <1>1, <1>4 DEF T

(* What ParseApps keeps for a name is the first application of that name.    *)
LEMMA FirstAppKept ==
  ASSUME NEW apps, List(apps), NEW a
  PROVE  FirstApp(apps, a) = IF a \in DOMAIN ParseApps(apps) THEN {ParseApps(apps)[a]} ELSE {}
<1> DEFINE n == Len(apps)
           infos == ParseApps(apps)
           first == {i \in DOMAIN apps : /\ GivenName(apps[i].name) = a
                                         /\ \A j \in DOMAIN apps : GivenName(apps[j].name) = a => i <= j}
<1>1. n \in Nat /\ DOMAIN apps = 1 .. n
  BY DEF List
<1>2. AppsSay(infos, apps, n)
  BY <1>1, AppsSaid
<1>3. FirstApp(apps, a) = {ParseAppInfo(apps[i]) : i \in first}
  BY Zenon DEF FirstApp
<1> HIDE DEF infos, n
<1>4. CASE a \notin DOMAIN infos
  <2>1. first = {}
    BY <1>1, <1>2, <1>4 DEF AppsSay
  <2> QED BY <1>3, <1>4, <2>1 DEF infos
<1>5. CASE a \in DOMAIN infos
  <2>1. PICK i \in 1 .. n : /\ GivenName(apps[i].name) = a
                            /\ \A j \in 1 .. n : GivenName(apps[j].name) = a => i <= j
                            /\ infos[a] = ParseAppInfo(apps[i])
    BY <1>2, <1>5 DEF AppsSay
  <2>2. first = {i}
    BY <1>1, <2>1
  <2> QED BY <1>3, <1>5, <2>1, <2>2 DEF infos
<1> QED BY <1>4, <1>5

(* Of the places in D, the last that describes a domain is in the map.       *)
DomainsSay(domains, directory, D) ==
  \A d : \/ /\ \A p \in D : ~Describes(directory, p, d)
            /\ d \notin DOMAIN domains
         \/ /\ d \in DOMAIN domains
            /\ \E p \in LastPlace(directory, D, d) :
                 domains[d] = ParseApps(FileAt(directory, p).apps)

(* Places that describe nothing change nothing.                              *)
LEMMA NothingSaid ==
  ASSUME NEW directory, NEW D, NEW domains, DomainsSay(domains, directory, D),
         NEW E, \A p \in E : \A d : ~Describes(directory, p, d)
  PROVE  DomainsSay(domains, directory, D \cup E)
<1>1. \A d : LastPlace(directory, D \cup E, d) = LastPlace(directory, D, d)
  BY DEF LastPlace
<1>2. \A d : (\A p \in D : ~Describes(directory, p, d)) =>
             \A p \in D \cup E : ~Describes(directory, p, d)
  OBVIOUS
<1> QED BY <1>1, <1>2, Zenon DEF DomainsSay

(* A place is two numbers.                                                   *)
Numbered(p) == p[1] \in Nat /\ p[2] \in Nat

(* A place that holds a file to read.                                        *)
Chosen(directory, p) ==
  \/ directory[p[1]].is = "file"
  \/ directory[p[1]].is = "directory" /\ ~PassedOver(directory[p[1]].entries[p[2]])

(* A file at a place behind the others is read.                              *)
LEMMA FileSaid ==
  ASSUME NEW directory, NEW D, NEW domains, DomainsSay(domains, directory, D),
         NEW p, Numbered(p), Chosen(directory, p),
         \A q \in D : Numbered(q) /\ Before(q, p)
  PROVE  DomainsSay(ParseDomainFile(domains, FileAt(directory, p)), directory, D \cup {p})
<1> DEFINE described == FileAt(directory, p)
           name == GivenName(described.name)
           new == ParseDomainFile(domains, described)
<1>1. \A d : Describes(directory, p, d) <=> Readable(described) /\ name = d
  BY DEF Describes, Chosen
<1>2. CASE ~Readable(described)
  <2>1. \A q \in {p} : \A d : ~Describes(directory, q, d)
    BY <1>1, <1>2
  <2>2. new = domains
    BY <1>2 DEF ParseDomainFile
  <2> QED BY <2>1, <2>2, NothingSaid
<1>3. CASE Readable(described)
  <2>1. /\ DOMAIN new = DOMAIN domains \cup {name}
        /\ \A d \in DOMAIN domains : d # name => new[d] = domains[d]
        /\ new[name] = ParseApps(described.apps)
    BY <1>3 DEF ParseDomainFile, Replace
  <2>2. ~Before(p, p) /\ \A q \in D : ~Before(p, q)
    BY DEF Before, Numbered
  <2>3. p \in LastPlace(directory, D \cup {p}, name)
    BY <1>1, <1>3, <2>2 DEF LastPlace
  <2>4. ASSUME NEW d, d # name
        PROVE  LastPlace(directory, D \cup {p}, d) = LastPlace(directory, D, d)
    BY <1>1, <2>4 DEF LastPlace
  <2> HIDE DEF new, name
  <2>5. ASSUME NEW d, d # name, d \notin DOMAIN domains
        PROVE  d \notin DOMAIN new /\ \A q \in D \cup {p} : ~Describes(directory, q, d)
    BY <1>1, <2>1, <2>5 DEF DomainsSay
  <2>6. ASSUME NEW d, d # name, d \in DOMAIN domains
        PROVE  d \in DOMAIN new /\ \E q \in LastPlace(directory, D \cup {p}, d) :
                                     new[d] = ParseApps(FileAt(directory, q).apps)
    <3>1. PICK q \in LastPlace(directory, D, d) :
                domains[d] = ParseApps(FileAt(directory, q).apps)
      BY <2>6, Zenon DEF DomainsSay
    <3> QED BY <2>1, <2>4, <2>6, <3>1, Zenon
  <2>7. ASSUME NEW d, d = name
        PROVE  d \in DOMAIN new /\ \E q \in LastPlace(directory, D \cup {p}, d) :
                                     new[d] = ParseApps(FileAt(directory, q).apps)
    BY <2>1, <2>3, <2>7
  <2>8. DomainsSay(new, directory, D \cup {p})
    BY <2>5, <2>6, <2>7, Zenon DEF DomainsSay
  <2> QED BY <2>8 DEF new
<1> QED BY <1>2, <1>3

(* The places before entry j + 1 of member i.                                *)
Rows(directory, i, j) ==
  {p \in Places(directory) : p[1] < i \/ (p[1] = i /\ p[2] <= j)}

(* What places are made of.                                                  *)
LEMMA PlaceIs ==
  ASSUME NEW directory
  PROVE  /\ \A p \in Places(directory) :
              /\ p = <<p[1], p[2]>> /\ p[1] \in DOMAIN directory
              /\ p[2] \in DOMAIN directory[p[1]].entries
         /\ \A i \in DOMAIN directory : \A j \in DOMAIN directory[i].entries :
              <<i, j>> \in Places(directory)
<1>1. ASSUME NEW p \in Places(directory)
      PROVE  /\ p = <<p[1], p[2]>> /\ p[1] \in DOMAIN directory
             /\ p[2] \in DOMAIN directory[p[1]].entries
  <2>1. PICK i \in DOMAIN directory : p \in {i} \X DOMAIN directory[i].entries
    BY DEF Places
  <2> QED BY <2>1
<1>2. ASSUME NEW i \in DOMAIN directory, NEW j \in DOMAIN directory[i].entries
      PROVE  <<i, j>> \in Places(directory)
  <2>1. <<i, j>> \in {i} \X DOMAIN directory[i].entries
    OBVIOUS
  <2> QED BY <2>1 DEF Places
<1> QED BY <1>1, <1>2

(* A list has its places, from 1.                                            *)
LEMMA ListIs ==
  ASSUME NEW s, List(s)
  PROVE  Len(s) \in Nat /\ DOMAIN s = 1 .. Len(s)
  BY DEF List

(* They are numbers.                                                         *)
LEMMA PlacesCounted ==
  ASSUME NEW directory, Listed(directory), NEW p \in Places(directory)
  PROVE  /\ Numbered(p) /\ p[1] \in 1 .. Len(directory)
         /\ p[2] \in 1 .. Len(directory[p[1]].entries)
<1>1. p[1] \in DOMAIN directory /\ p[2] \in DOMAIN directory[p[1]].entries
  BY PlaceIs
<1>2. List(directory) /\ List(directory[p[1]].entries)
  BY <1>1 DEF Listed
<1>3. DOMAIN directory = 1 .. Len(directory) /\ Len(directory) \in Nat
  BY <1>2, ListIs
<1>4. DOMAIN directory[p[1]].entries = 1 .. Len(directory[p[1]].entries)
      /\ Len(directory[p[1]].entries) \in Nat
  BY <1>2, ListIs
<1> QED BY <1>1, <1>3, <1>4 DEF Numbered

(* The next place of a row.                                                  *)
LEMMA RowGrows ==
  ASSUME NEW directory, Listed(directory), NEW i \in DOMAIN directory, NEW j \in Nat,
         j + 1 \in DOMAIN directory[i].entries
  PROVE  /\ Rows(directory, i, j + 1) = Rows(directory, i, j) \cup {<<i, j + 1>>}
         /\ Numbered(<<i, j + 1>>)
         /\ \A q \in Rows(directory, i, j) : Numbered(q) /\ Before(q, <<i, j + 1>>)
<1> DEFINE p == <<i, j + 1>>
<1>1. p \in Places(directory) /\ p[1] = i /\ p[2] = j + 1 /\ i \in Nat
  <2>1. p \in Places(directory) /\ p[1] = i
    BY PlaceIs
  <2> QED BY <2>1, PlacesCounted DEF Numbered
<1>2. \A q \in Places(directory) : Numbered(q) /\ q = <<q[1], q[2]>>
  BY PlaceIs, PlacesCounted, Zenon
<1>3. ASSUME NEW q \in Places(directory)
      PROVE  q \in Rows(directory, i, j + 1) <=> q \in Rows(directory, i, j) \/ q = p
  <2>1. q[1] \in Nat /\ q[2] \in Nat /\ q = <<q[1], q[2]>>
    BY <1>2 DEF Numbered
  <2>2. q[1] = i /\ q[2] <= j + 1 <=> (q[1] = i /\ q[2] <= j) \/ q = p
    BY <1>1, <2>1
  <2> QED BY <1>1, <2>2 DEF Rows
<1>4. ASSUME NEW q \in Rows(directory, i, j)
      PROVE  Numbered(q) /\ Before(q, p)
  BY <1>1, <1>2 DEF Rows, Before, Numbered
<1>5. Rows(directory, i, j) \subseteq Places(directory)
      /\ Rows(directory, i, j + 1) \subseteq Places(directory)
  BY DEF Rows
<1> QED BY <1>1, <1>2, <1>3, <1>4, <1>5

(* A row is at its end, and the next one begins.                             *)
LEMMA RowEnds ==
  ASSUME NEW directory, Listed(directory), NEW i \in DOMAIN directory
  PROVE  Rows(directory, i + 1, 0) = Rows(directory, i, Len(directory[i].entries))
<1>1. i \in Nat
  BY ListIs DEF Listed
<1>2. ASSUME NEW q \in Places(directory)
      PROVE  q[1] < i + 1 \/ (q[1] = i + 1 /\ q[2] <= 0)
               <=> q[1] < i \/ (q[1] = i /\ q[2] <= Len(directory[i].entries))
  <2>1. q[1] \in Nat /\ q[2] \in Nat /\ q[2] \in 1 .. Len(directory[q[1]].entries)
    BY PlacesCounted DEF Numbered
  <2>2. q[1] = i => q[2] <= Len(directory[i].entries)
    BY <2>1
  <2>3. ~(q[2] <= 0)
    BY <2>1
  <2> QED BY <1>1, <2>1, <2>2, <2>3
<1> QED BY <1>2 DEF Rows

(* A member of "directory" is read with all that it holds.                   *)
LEMMA EntrySaid ==
  ASSUME NEW directory, Listed(directory), NEW i \in DOMAIN directory, NEW domains,
         DomainsSay(domains, directory, Rows(directory, i, 0))
  PROVE  DomainsSay(ParseEntry(domains, directory[i]), directory, Rows(directory, i + 1, 0))
<1> DEFINE entry == directory[i]
           n == Len(entry.entries)
           new == ParseEntry(domains, entry)
<1>1. n \in Nat /\ DOMAIN entry.entries = 1 .. n
  BY ListIs DEF Listed
<1>2. CASE entry.is = "directory"
  <2>1. PICK f : Parsing(f, "entries", domains, entry.entries)
                 /\ ParseDomainPath(domains, entry.entries) = f[n]
    BY <1>1, EntriesParse
  <2> DEFINE T == {k \in Nat : k <= n => DomainsSay(f[k], directory, Rows(directory, i, k))}
  <2>2. 0 \in T
    BY <2>1 DEF Parsing
  <2>3. ASSUME NEW k \in Nat, k \in T
        PROVE  k + 1 \in T
    <3>1. SUFFICES ASSUME k + 1 <= n
                   PROVE  DomainsSay(f[k + 1], directory, Rows(directory, i, k + 1))
      OBVIOUS
    <3> DEFINE p == <<i, k + 1>>
    <3>2. k <= n /\ k + 1 \in DOMAIN entry.entries /\ (k + 1) - 1 = k
      BY <1>1, <3>1
    <3>3. f[k + 1] = ReadEntry(f[k], entry.entries[k + 1])
      BY <2>1, <3>2 DEF Parsing, Turn
    <3>4. DomainsSay(f[k], directory, Rows(directory, i, k))
      BY <2>3, <3>2
    <3>5. /\ Rows(directory, i, k + 1) = Rows(directory, i, k) \cup {p}
          /\ Numbered(p) /\ \A q \in Rows(directory, i, k) : Numbered(q) /\ Before(q, p)
      BY <3>2, RowGrows
    <3>6. p[1] = i /\ p[2] = k + 1 /\ FileAt(directory, p) = entry.entries[k + 1].file
      BY DEF FileAt
    <3>7. CASE PassedOver(entry.entries[k + 1])
      <4>1. \A d : ~Describes(directory, p, d)
        BY <1>2, <3>6, <3>7 DEF Describes
      <4>2. f[k + 1] = f[k]
        BY <3>3, <3>7 DEF ReadEntry
      <4>3. \A q \in {p} : \A d : ~Describes(directory, q, d)
        BY <4>1
      <4> HIDE DEF p
      <4> DEFINE D == Rows(directory, i, k)
                 E == {p}
      <4>4. DomainsSay(f[k], directory, D) /\ \A q \in E : \A d : ~Describes(directory, q, d)
        BY <3>4, <4>3
      <4> HIDE DEF D, E
      <4>5. DomainsSay(f[k], directory, D \cup E)
        BY <4>4, NothingSaid, Zenon
      <4> QED BY <3>5, <4>2, <4>5, Zenon DEF D, E
    <3>8. CASE ~PassedOver(entry.entries[k + 1])
      <4>1. Chosen(directory, p)
        BY <1>2, <3>6, <3>8 DEF Chosen
      <4>2. f[k + 1] = ParseDomainFile(f[k], FileAt(directory, p))
        BY <3>3, <3>6, <3>8 DEF ReadEntry
      <4> HIDE DEF p
      <4> QED BY <3>4, <3>5, <4>1, <4>2, FileSaid
    <3> QED BY <3>7, <3>8
  <2> HIDE DEF T
  <2>4. n \in T
    BY <1>1, <2>2, <2>3, Counted
  <2>5. DomainsSay(f[n], directory, Rows(directory, i, n))
    BY <1>1, <2>4 DEF T
  <2>6. new = f[n]
    BY <1>2, <2>1 DEF ParseEntry
  <2> QED BY <2>5, <2>6, RowEnds
<1>3. CASE entry.is = "file"
  <2> DEFINE p == <<i, 1>>
  <2>1. DOMAIN entry.entries = {1}
    BY <1>3 DEF Listed
  <2>2. n = 1 /\ 0 + 1 \in DOMAIN entry.entries /\ 0 + 1 = 1 /\ 0 \in Nat
    <3>1. 1 \in 1 .. n
      BY <1>1, <2>1, Zenon
    <3>2. n \in 1 .. n
      BY <1>1, <3>1
    <3>3. n = 1
      BY <1>1, <2>1, <3>2, Zenon
    <3> QED BY <2>1, <3>3
  <2>3. /\ Rows(directory, i, 1) = Rows(directory, i, 0) \cup {p}
        /\ Numbered(p) /\ \A q \in Rows(directory, i, 0) : Numbered(q) /\ Before(q, p)
    <3>1. /\ Rows(directory, i, 0 + 1) = Rows(directory, i, 0) \cup {<<i, 0 + 1>>}
          /\ Numbered(<<i, 0 + 1>>)
          /\ \A q \in Rows(directory, i, 0) : Numbered(q) /\ Before(q, <<i, 0 + 1>>)
      BY <2>2, RowGrows
    <3> QED BY <3>1, <2>2
  <2>4. Chosen(directory, p) /\ FileAt(directory, p) = entry.entries[1].file
    BY <1>3 DEF Chosen, FileAt
  <2>5. new = ParseDomainFile(domains, FileAt(directory, p))
    BY <1>3, <2>4 DEF ParseEntry
  <2> HIDE DEF new, p
  <2>6. DomainsSay(new, directory, Rows(directory, i, 1))
    BY <2>3, <2>4, <2>5, FileSaid
  <2>7. Rows(directory, i + 1, 0) = Rows(directory, i, 1)
    BY <2>2, RowEnds
  <2> QED BY <2>6, <2>7 DEF new
<1>4. CASE entry.is \notin {"directory", "file"}
  <2> DEFINE E == {p \in Places(directory) : p[1] = i}
  <2>1. \A p \in E : \A d : ~Describes(directory, p, d)
    BY <1>4 DEF Describes
  <2>2. Rows(directory, i + 1, 0) \subseteq Places(directory)
        /\ Rows(directory, i, 0) \subseteq Places(directory)
    BY DEF Rows
  <2>3. ASSUME NEW p \in Places(directory)
        PROVE  p \in Rows(directory, i + 1, 0) <=> p \in Rows(directory, i, 0) \/ p \in E
    <3>1. i \in Nat
      BY ListIs DEF Listed
    <3>2. p[1] \in Nat /\ p[2] \in Nat /\ p[2] \in 1 .. Len(directory[p[1]].entries)
      BY PlacesCounted DEF Numbered
    <3>3. ~(p[2] <= 0)
      BY <3>2
    <3> QED BY <3>1, <3>2, <3>3 DEF Rows
  <2>4. Rows(directory, i + 1, 0) = Rows(directory, i, 0) \cup E
    BY <2>2, <2>3
  <2>5. new = domains
    BY <1>4 DEF ParseEntry
  <2> HIDE DEF E
  <2> QED BY <2>1, <2>4, <2>5, NothingSaid
<1> QED BY <1>2, <1>3, <1>4

(* All of the members are read.                                              *)
LEMMA DirectorySaid ==
  ASSUME NEW directory, Listed(directory)
  PROVE  DomainsSay(ParseDirectory(directory), directory, Places(directory))
<1> DEFINE n == Len(directory)
<1>1. n \in Nat /\ DOMAIN directory = 1 .. n
  BY ListIs DEF Listed
<1>2. PICK f : Parsing(f, "directory", <<>>, directory) /\ ParseDirectory(directory) = f[n]
  BY <1>1, DirectoryParses
<1> DEFINE T == {k \in Nat : k <= n => DomainsSay(f[k], directory, Rows(directory, k + 1, 0))}
<1>3. 0 \in T
  <2>1. Rows(directory, 0 + 1, 0) = {}
    <3>1. ASSUME NEW p \in Places(directory)
          PROVE  ~(p[1] < 0 + 1) /\ ~(p[2] <= 0)
      BY <1>1, PlacesCounted DEF Numbered
    <3> QED BY <3>1 DEF Rows
  <2>2. f[0] = <<>> /\ DOMAIN <<>> = {}
    BY <1>2 DEF Parsing
  <2>3. DomainsSay(f[0], directory, {})
    BY <2>2 DEF DomainsSay
  <2> QED BY <2>1, <2>3
<1>4. ASSUME NEW k \in Nat, k \in T
      PROVE  k + 1 \in T
  <2>1. SUFFICES ASSUME k + 1 <= n
                 PROVE  DomainsSay(f[k + 1], directory, Rows(directory, (k + 1) + 1, 0))
    OBVIOUS
  <2>2. k <= n /\ k + 1 \in DOMAIN directory /\ (k + 1) - 1 = k
    BY <1>1, <2>1
  <2>3. f[k + 1] = ParseEntry(f[k], directory[k + 1])
    BY <1>2, <2>2 DEF Parsing, Turn
  <2>4. DomainsSay(f[k], directory, Rows(directory, k + 1, 0))
    BY <1>4, <2>2
  <2> QED BY <2>2, <2>3, <2>4, EntrySaid
<1> HIDE DEF T
<1>5. n \in T
  BY <1>1, <1>3, <1>4, Counted
<1>6. DomainsSay(f[n], directory, Rows(directory, n + 1, 0))
  BY <1>1, <1>5 DEF T
<1>7. Rows(directory, n + 1, 0) = Places(directory)
  <2>1. ASSUME NEW p \in Places(directory)
        PROVE  p[1] < n + 1
    BY <1>1, PlacesCounted
  <2> QED BY <2>1 DEF Rows
<1> QED BY <1>2, <1>6, <1>7

(* The configuration that is loaded has, for every domain and application,   *)
(* what the files say: of several files for a domain the last one, of        *)
(* several entries for an application the first one, and nothing else        *)
(* (Config::ParseDirectory and GetAppInfo, for files of any length).         *)
THEOREM ConfigReadAsWritten ==
  ASSUME NEW f, Listed(f.directory), NEW domain, NEW app
  PROVE  GetAppInfo(NewConfig(f), domain, app) = AsWritten(f, domain, app)
<1> DEFINE directory == f.directory
           domains == ParseDirectory(directory)
           D == Places(directory)
           last == LastPlace(directory, D, domain)
<1>1. DomainsSay(domains, directory, D)
  BY DirectorySaid
<1>2. NewConfig(f).domains = domains
  BY DEF NewConfig
<1>3. AsWritten(f, domain, app) = UNION {FirstApp(FileAt(directory, p).apps, app) : p \in last}
  BY DEF AsWritten
<1> HIDE DEF domains
<1>4. CASE domain \notin DOMAIN domains
  <2>1. last = {}
    BY <1>1, <1>4 DEF DomainsSay, LastPlace
  <2>2. GetAppInfo(NewConfig(f), domain, app) = {}
    BY <1>2, <1>4 DEF GetAppInfo
  <2> QED BY <1>3, <2>1, <2>2
<1>5. CASE domain \in DOMAIN domains
  <2>1. PICK p \in last : domains[domain] = ParseApps(FileAt(directory, p).apps)
    BY <1>1, <1>5, Zenon DEF DomainsSay
  <2>2. \A q \in D : q[1] \in Nat /\ q[2] \in Nat /\ q = <<q[1], q[2]>>
    BY PlacesCounted, PlaceIs, Zenon DEF Numbered
  <2>3. last = {p}
    <3>1. ASSUME NEW q \in last
          PROVE  q = p
      <4>1. p \in D /\ q \in D /\ ~Before(p, q) /\ ~Before(q, p)
        BY <2>1, <3>1 DEF LastPlace
      <4>2. p[1] = q[1] /\ p[2] = q[2]
        BY <2>2, <4>1 DEF Before
      <4> QED BY <2>2, <4>1, <4>2, Zenon
    <3> QED BY <2>1, <3>1
  <2>4. List(FileAt(directory, p).apps)
    <3>1. p \in D /\ Readable(FileAt(directory, p))
      BY <2>1 DEF LastPlace, Describes
    <3>2. p[1] \in DOMAIN directory /\ p[2] \in DOMAIN directory[p[1]].entries
      BY <3>1, PlaceIs
    <3> QED BY <3>1, <3>2 DEF Listed, FileAt
  <2>5. FirstApp(FileAt(directory, p).apps, app)
          = IF app \in DOMAIN domains[domain] THEN {domains[domain][app]} ELSE {}
    BY <2>1, <2>4, FirstAppKept
  <2>6. AsWritten(f, domain, app) = FirstApp(FileAt(directory, p).apps, app)
    BY <1>3, <2>3
  <2> QED BY <1>2, <1>5, <2>5, <2>6 DEF GetAppInfo
<1> QED BY <1>4, <1>5

(* The configuration that a running program has is that of its file: where   *)
(* main is tells whether the file was loaded.                                *)
NotLoaded == {"load", "destroy", "join", "ended"}

FileInv ==
  /\ config.loaded => Loads /\ config = NewConfig(file)
  /\ Loads => main.at \in NotLoaded \/ config.loaded

(* It begins with none.                                                      *)
LEMMA FileInit == Init => FileInv
<1> SUFFICES ASSUME Init PROVE FileInv
  OBVIOUS
<1>1. config.loaded = FALSE /\ main.at = First[program]
  BY DEF Init, NoConfig
<1>2. Loads => First[program] = "load"
  BY DEF Loads, First
<1> QED BY <1>1, <1>2 DEF FileInv, NotLoaded

(* Load takes all of the file or nothing.                                    *)
LEMMA LoadKeepsFile ==
  ASSUME LoopInv, Load
  PROVE  FileInv'
<1>1. /\ program' = program /\ file' = file /\ config' = LoadConfig(config, file)
      /\ main.at = "load"
  BY DEF Load
<1>2. config = NoConfig /\ Loads /\ DOMAIN main = {"at", "i"}
  BY <1>1 DEF LoopInv, ProgramOK
<1>3. CASE LoadResult(file) = "ok"
  <2>1. config' = NewConfig(file) /\ config'.loaded
    BY <1>1, <1>3 DEF LoadConfig, NewConfig
  <2> QED BY <1>1, <1>2, <2>1, Zenon DEF FileInv, Loads
<1>4. CASE LoadResult(file) = "failed"
  <2>1. config' = config /\ config.loaded = FALSE
    BY <1>1, <1>2, <1>4 DEF LoadConfig, NoConfig
  <2>2. Goto(AfterLoad.failed, 1)
    BY <1>4 DEF Load
  <2>3. main' = [at |-> AfterLoad.failed, i |-> 1]
    BY <2>2, Zenon DEF Goto
  <2>4. AfterLoad.failed \in {"ended", "destroy"}
    BY <1>2 DEF AfterLoad, Loads
  <2>5. main'.at \in NotLoaded
    BY <2>3, <2>4 DEF NotLoaded
  <2> QED BY <2>1, <2>5 DEF FileInv
<1>5. CASE LoadResult(file) = "throws"
  <2>1. config' = config /\ config.loaded = FALSE
    BY <1>1, <1>2, <1>5 DEF LoadConfig, NoConfig
  <2>2. main' = main
    BY <1>5 DEF Load
  <2> QED BY <1>1, <2>1, <2>2 DEF FileInv, NotLoaded
<1>6. LoadResult(file) \in {"ok", "failed", "throws"}
  BY DEF LoadResult
<1> QED BY <1>3, <1>4, <1>5, <1>6

(* Every other step leaves the file and the configuration alone.             *)
LEMMA ElseKeepsFile ==
  ASSUME FileInv, UNCHANGED <<program, file, config>>,
         main' = main \/ main.at \notin NotLoaded \/ main'.at \in NotLoaded
  PROVE  FileInv'
  BY DEF FileInv, Loads, NotLoaded

LEMMA FileStep == LoopInv /\ FileInv /\ [Next]_vars => FileInv'
<1> SUFFICES ASSUME LoopInv, FileInv, [Next]_vars PROVE FileInv'
  OBVIOUS
<1> USE ElseKeepsFile DEF Goto, NotLoaded
<1>1. CASE Load
  BY <1>1, LoadKeepsFile
<1>2. CASE CreatePool
  BY <1>2 DEF CreatePool
<1>3. CASE RunThread
  BY <1>3 DEF RunThread
<1>4. CASE Started
  BY <1>4 DEF Started
<1>5. CASE Destroy
  BY <1>5 DEF Destroy
<1>6. CASE Joined
  BY <1>6 DEF Joined
<1>7. CASE Serve
  BY <1>7 DEF Serve
<1>8. CASE AddTimer
  BY <1>8 DEF AddTimer
<1>9. CASE ServiceDns
  BY <1>9 DEF ServiceDns
<1>10. CASE DnsStopped
  BY <1>10 DEF DnsStopped
<1>11. CASE DnsStep
  BY <1>11 DEF DnsStep
<1>12. ASSUME NEW t \in Threads, ThreadStep(t)
       PROVE  FileInv'
  BY <1>12 DEF ThreadStep
<1>13. CASE Work
  BY <1>13 DEF Work
<1>14. CASE Tick
  BY <1>14 DEF Tick
<1>15. CASE UserDns
  <2>1. UNCHANGED <<program, file, config>> /\ main.at = "asleep"
    BY <1>15 DEF UserDns
  <2> QED BY <2>1
<1>16. CASE UNCHANGED vars
  BY <1>16 DEF vars
<1> QED
  BY <1>1, <1>2, <1>3, <1>4, <1>5, <1>6, <1>7, <1>8, <1>9, <1>10, <1>11, <1>12, <1>13,
     <1>14, <1>15, <1>16 DEF Next, MainStep

(* A program that runs has, for every name of a domain and an application,   *)
(* what its files say, however many there are; and none of main and          *)
(* RtmpServerTest runs with a file that did not load (ConfigMgr::LoadConfig, *)
(* main).                                                                    *)
THEOREM LiveServerConfig == Spec => []ConfigAsWritten
<1>1. Init => FileInv
  BY FileInit
<1>2. LoopInv /\ FileInv /\ [Next]_vars => FileInv'
  BY FileStep
<1>3. LoopInv /\ FileInv => ConfigAsWritten
  <2> SUFFICES ASSUME LoopInv, FileInv PROVE ConfigAsWritten
    OBVIOUS
  <2>1. CASE config.loaded
    <3>1. config = NewConfig(file) /\ file \in Files
      BY <2>1 DEF FileInv, LoopInv, ProgramOK
    <3>2. Listed(file.directory)
      BY <3>1, LiveServerAssumption
    <3>3. \A domain \in Names, app \in Names :
            GetAppInfo(config, domain, app) = AsWritten(file, domain, app)
      BY <3>1, <3>2, ConfigReadAsWritten, Zenon
    <3> QED BY <2>1, <3>3, Zenon DEF ConfigAsWritten
  <2>2. CASE ~config.loaded
    <3>1. main.at = "asleep" => program = "DnsServerTest"
      BY <2>2 DEF FileInv, NotLoaded, LoopInv, ProgramOK
    <3> QED BY <2>2, <3>1, Zenon DEF ConfigAsWritten
  <2> QED BY <2>1, <2>2
<1> QED
  BY <1>1, <1>2, <1>3, LiveServerInvariant, PTL DEF Spec

=============================================================================
