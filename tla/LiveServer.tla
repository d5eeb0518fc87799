----------------------------- MODULE LiveServer -----------------------------
(***************************************************************************)
(* How the repository's programs begin and end: main, which loads the       *)
(* configuration and starts LiveService with its loops, servers, DnsServer  *)
(* and timer task; RtmpServerTest, with one loop and the same               *)
(* configuration; EventLoopThreadTest, which makes a pool and destroys it   *)
(* at once; and a program that uses DnsServer as DnsServerTest does.        *)
(***************************************************************************)
EXTENDS Config, EventLoopThread, DnsServer, TaskMgr

CONSTANTS
  Programs,    (* of those that are started                                 *)
  Files,       (* configurations, each with the domain files it names       *)
  Names,       (* of domains and applications that are asked for            *)
  PoolSize     (* threads of the test's pool                                *)

VARIABLES
  program,
  main,        (* the main thread: where it is and which loop it deals with *)
  file,        (* what the configuration file holds                         *)
  config,      (* ConfigMgr's                                               *)
  servers,     (* servers that were made, each with the loop it was given   *)
  answered     (* history: hosts that GetHostAddress had an address of      *)

vars == <<program, main, file, config, servers, answered, thread, hosts_info_, dns, died,
          tasks_, now>>

dnsVars == <<hosts_info_, dns>>
taskVars == <<tasks_, now>>

Goto(at, i) == main' = [at |-> at, i |-> i]

(* Threads bounds what a configuration may ask for; the rest is arithmetic.  *)
ASSUME LiveServerAssumption ==
  /\ Threads \subseteq Nat \ {0} /\ PoolSize \in Threads
  /\ \A t \in Threads : 1 .. t \subseteq Threads
  /\ \A f \in Files : f.threads \in Threads \/ (f.threads \in Int /\ f.threads <= 0)
  /\ \A f \in Files : Listed(f.directory)
  /\ Programs \subseteq {"main", "RtmpServerTest", "EventLoopThreadTest", "DnsServerTest"}
  /\ Indexes \subseteq Int /\ SizeModulus \in Nat \ {0} /\ MaxAddresses \in Nat

-----------------------------------------------------------------------------
(* The configuration.                                                        *)
AfterLoad ==
  CASE program = "main"           -> [ok |-> "create", failed |-> "ended"]
    [] program = "RtmpServerTest" -> [ok |-> "start", failed |-> "destroy"]

Load ==
  /\ main.at = "load"
  /\ config' = LoadConfig(config, file)
  /\ CASE LoadResult(file) = "ok"     -> Goto(AfterLoad.ok, 1) /\ UNCHANGED died
       [] LoadResult(file) = "failed" -> Goto(AfterLoad.failed, 1) /\ UNCHANGED died
       [] LoadResult(file) = "throws" -> died' = TRUE /\ UNCHANGED main
  /\ UNCHANGED <<program, file, servers, answered, thread, dnsVars, taskVars>>

-----------------------------------------------------------------------------
(* Loops.                                                                    *)
numThreads ==
  CASE program = "main" ->
         IF config.thread_num_ <= 0 THEN 1 ELSE config.thread_num_
    [] program = "EventLoopThreadTest" -> PoolSize
    [] OTHER -> 1

CreatePool ==
  /\ main.at = "create"
  /\ thread' = [t \in Threads |-> IF t <= numThreads THEN Created ELSE NoThread]
  /\ Goto("start", 1)
  /\ UNCHANGED <<program, file, config, servers, answered, dnsVars, died, taskVars>>

RunThread ==
  /\ main.at \in {"start", "destroy"} /\ ~thread[main.i].once
  /\ thread' = [thread EXCEPT ![main.i] = Run(@)]
  /\ UNCHANGED <<program, main, file, config, servers, answered, dnsVars, died, taskVars>>

AfterStart ==
  CASE program = "main"                -> "dns"
    [] program = "RtmpServerTest"      -> "serve"
    [] program = "EventLoopThreadTest" -> "destroy"

Started ==
  /\ main.at = "start" /\ thread[main.i].once /\ RunReturns(thread[main.i])
  /\ IF main.i < numThreads THEN Goto("start", main.i + 1) ELSE Goto(AfterStart, 1)
  /\ UNCHANGED <<program, file, config, servers, answered, thread, dnsVars, died, taskVars>>

(* ~EventLoopThread.                                                         *)
Destroy ==
  /\ main.at = "destroy" /\ thread[main.i].once /\ RunReturns(thread[main.i])
  /\ thread' = [thread EXCEPT ![main.i] = IF @.m_loop THEN Quit(@) ELSE @]
  /\ Goto("join", main.i)
  /\ UNCHANGED <<program, file, config, servers, answered, dnsVars, died, taskVars>>

Joined ==
  /\ main.at = "join" /\ JoinReturns(thread[main.i])
  /\ IF main.i < numThreads THEN Goto("destroy", main.i + 1) ELSE Goto("ended", 1)
  /\ UNCHANGED <<program, file, config, servers, answered, thread, dnsVars, died, taskVars>>

-----------------------------------------------------------------------------
(* Servers: one for each loop and service. LiveService makes none for a      *)
(* service that is not RTMP; the test makes one for each.                    *)
IsRtmp(protocol) == protocol \in {"RTMP", "rtmp"}

ServersOf(i) ==
  {[service |-> k, thread |-> i, loop |-> thread[i].m_loop] :
     k \in {k \in DOMAIN config.services :
              program = "main" => IsRtmp(config.services[k])}}

Serve ==
  /\ main.at = "serve"
  /\ servers' = servers \cup ServersOf(main.i)
  /\ IF main.i < numThreads THEN Goto("serve", main.i + 1)
     ELSE Goto(IF program = "main" THEN "task" ELSE "asleep", 1)
  /\ UNCHANGED <<program, file, config, answered, thread, dnsVars, died, taskVars>>

(* LiveService::Start ends by adding its timer task.                         *)
AddTimer ==
  /\ main.at = "task" /\ AddTask("OnTimer") /\ Goto("asleep", 1)
  /\ UNCHANGED <<program, file, config, servers, answered, thread, dnsVars, died, now>>

(* Nothing in the program calls OnWork: somebody else may.                   *)
Work ==
  /\ main.at = "asleep" /\ DOMAIN tasks_ # {}
  /\ \E later \in now .. MaxTime : TaskMgrOnWork(later) /\ now' = later
  /\ UNCHANGED <<program, main, file, config, servers, answered, thread, dnsVars, died>>

Tick ==
  /\ main.at = "asleep" /\ DOMAIN tasks_ # {} /\ now < MaxTime /\ now' = now + 1
  /\ UNCHANGED <<program, main, file, config, servers, answered, thread, dnsVars, died,
                 tasks_>>

-----------------------------------------------------------------------------
(* DnsServer's functions, called by main.                                    *)
ServiceDns ==
  /\ main.at = "dns" /\ StartDns /\ Goto("serve", 1)
  /\ UNCHANGED <<program, file, config, servers, answered, thread, hosts_info_, died,
                 taskVars>>

UserDns ==
  /\ main.at = "asleep" /\ program = "DnsServerTest"
  /\ \/ \E h \in Hosts : AddHost(h) /\ UNCHANGED <<main, answered>>
     \/ StartDns /\ UNCHANGED <<main, answered, hosts_info_>>
     \/ StopDns /\ Goto("stop", 1) /\ UNCHANGED <<answered, hosts_info_>>
     \/ /\ \E h \in Hosts, i \in Indexes :
             GetHostAddress(h, i) # Null /\ answered' = answered \cup {h}
        /\ UNCHANGED <<main, dnsVars>>
  /\ UNCHANGED <<program, file, config, servers, thread, died, taskVars>>

DnsStopped ==
  /\ main.at = "stop" /\ StopReturns /\ Goto("ended", 1)
  /\ UNCHANGED <<program, file, config, servers, answered, thread, dnsVars, died, taskVars>>

-----------------------------------------------------------------------------
First ==
  [main |-> "load", RtmpServerTest |-> "load", EventLoopThreadTest |-> "create",
   DnsServerTest |-> "asleep"]

(* RtmpServerTest's loop is global: its thread starts before main.           *)
Init ==
  /\ program \in Programs
  /\ main = [at |-> First[program], i |-> 1]
  /\ file \in IF First[program] = "load" THEN Files ELSE {NoName}
  /\ config = NoConfig
  /\ servers = {} /\ answered = {}
  /\ thread = [t \in Threads |->
                 IF program = "RtmpServerTest" /\ t = 1 THEN Created ELSE NoThread]
  /\ hosts_info_ = <<>> /\ dns = NoDns /\ died = FALSE
  /\ tasks_ = <<>> /\ now = 0

MainStep ==
  ~died /\ (\/ Load \/ CreatePool \/ RunThread \/ Started \/ Destroy \/ Joined
            \/ Serve \/ AddTimer \/ ServiceDns \/ DnsStopped)

ThreadStep(t) ==
  /\ ~died /\ startEventLoop(t)
  /\ UNCHANGED <<program, main, file, config, servers, answered, dnsVars, died, taskVars>>

DnsStep ==
  /\ ~died /\ OnWork
  /\ UNCHANGED <<program, main, file, config, servers, answered, thread, taskVars>>

Next ==
  \/ MainStep \/ DnsStep
  \/ \E t \in Threads : ThreadStep(t)
  \/ ~died /\ (Work \/ Tick \/ UserDns)

(* Threads run, getaddrinfo returns, and an epoll_wait ends after a second.  *)
Spec ==
  /\ Init /\ [][Next]_vars
  /\ WF_vars(MainStep) /\ WF_vars(DnsStep)
  /\ \A t \in Threads : WF_vars(ThreadStep(t))

-----------------------------------------------------------------------------
(* Properties.                                                              *)

(* Every server got a loop that is there and runs or is about to, and once  *)
(* a program has started, each of its loops has a server for each service   *)
(* (getLoops reads m_loop with no lock, after run has waited for the        *)
(* promise).                                                                *)
ServersOnRunningLoops ==
  /\ \A s \in servers : s.loop /\ thread[s.thread].at \in {"posted", "looping"}
  /\ main.at = "asleep" /\ config.loaded =>
       \A t \in 1 .. numThreads, k \in DOMAIN config.services :
         (\E s \in servers : s.thread = t /\ s.service = k)
           \/ (program = "main" /\ ~IsRtmp(config.services[k]))

(* Starting a pool, destroying it and stopping DnsServer come to an end:    *)
(* no thread waits for another for ever - unless quit came after the        *)
(* promise and before loop(), which then runs with nobody to end it.        *)
CallsReturnUnlessEarly ==
  main.at \notin {"asleep", "ended"} ~>
    \/ main.at \in {"asleep", "ended"} \/ died
    \/ \E t \in Threads : thread[t].early

(* A program that runs has the applications its files describe: of several  *)
(* files for a domain the last, of several entries for an application the   *)
(* first; and none when the file did not load.                              *)
ConfigAsWritten ==
  IF config.loaded
  THEN \A domain \in Names, app \in Names :
         GetAppInfo(config, domain, app) = AsWritten(file, domain, app)
  ELSE main.at = "asleep" => program = "DnsServerTest"

(* A host that had an address keeps one, for every index, whatever later    *)
(* lookups find (a failed lookup leaves the list alone).                    *)
HostKeepsAddress ==
  \A h \in answered, i \in Indexes : GetHostAddress(h, i) # Null
=============================================================================
