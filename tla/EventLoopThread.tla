--------------------------- MODULE EventLoopThread ---------------------------
(* EventLoopThread: a thread that owns an EventLoop, and how its creator     *)
(* hands the loop out and ends it. The thread keeps m_eventLoopThreadMutex   *)
(* from the moment it is told to run until its loop has ended.               *)
EXTENDS Integers

CONSTANT Threads

VARIABLE thread

NoThread ==
  [at        |-> "none",
   m_running |-> FALSE,
   m_loop    |-> FALSE,   (* m_loop points to the loop                       *)
   promise   |-> FALSE,   (* m_eventLoopThreadPromiseLoop has its value      *)
   m_looping |-> FALSE,   (* of the EventLoop                                *)
   once      |-> FALSE,   (* run has been called                             *)
   early     |-> FALSE]   (* history: quit came before loop() began          *)

(* The constructor starts the thread, which takes the lock and waits until   *)
(* it is told to run.                                                        *)
Created == [NoThread EXCEPT !.at = "entered"]

(* Whoever told it before it waited is not heard.                            *)
WaitWithoutPredicate(th) ==
  [th EXCEPT !.at = IF th.at = "woken" THEN "running" ELSE "waiting"]

Wait(th) == [th EXCEPT !.at = IF th.m_running THEN "running" ELSE "waiting"]

(* Only then is the loop handed out, and run.                                *)
HandOutPromiseFirst(th) ==
  CASE th.at = "running"  -> [th EXCEPT !.at = "assigned", !.promise = TRUE]
    [] th.at = "assigned" -> [th EXCEPT !.at = "posted", !.m_loop = TRUE]

HandOut(th) ==
  CASE th.at = "running"  -> [th EXCEPT !.at = "assigned", !.m_loop = TRUE]
    [] th.at = "assigned" -> [th EXCEPT !.at = "posted", !.promise = TRUE]

(* EventLoop::loop sets m_looping, whatever it was, and ends when it finds   *)
(* it cleared after a turn.                                                  *)
Loop(th) == [th EXCEPT !.at = "looping", !.m_looping = TRUE]

Leave(th) == [th EXCEPT !.at = "ended", !.m_loop = FALSE]

startEventLoop(t) ==
  /\ \/ thread[t].at \in {"entered", "woken"} /\ thread' = [thread EXCEPT ![t] = Wait(@)]
     \/ /\ thread[t].at \in {"running", "assigned"}
        /\ thread' = [thread EXCEPT ![t] = HandOut(@)]
     \/ thread[t].at = "posted" /\ thread' = [thread EXCEPT ![t] = Loop(@)]
     \/ /\ thread[t].at = "looping" /\ ~thread[t].m_looping
        /\ thread' = [thread EXCEPT ![t] = Leave(@)]

(* run: the first call tells the thread to run and waits for the promise.    *)
Run(th) ==
  [th EXCEPT !.once = TRUE, !.m_running = TRUE,
             !.at = IF th.at = "waiting" THEN "woken" ELSE @]

RunReturns(th) == th.promise

(* quit of a loop that has not begun is forgotten when it begins.            *)
Quit(th) ==
  [th EXCEPT !.m_looping = FALSE,
             !.early = @ \/ th.at \in {"assigned", "posted"}]

JoinReturns(th) == th.at = "ended"
=============================================================================
