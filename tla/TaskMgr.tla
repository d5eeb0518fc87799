------------------------------- MODULE TaskMgr -------------------------------
(* TaskMgr: tasks that run once their time is past, and again if they        *)
(* restart themselves. Everything happens under its one lock.                *)
EXTENDS Integers

CONSTANTS
  Interval(_),   (* of a task                                                *)
  Restarts(_),   (* its callback calls restart                               *)
  MaxTime        (* bound of the clock                                       *)

VARIABLES
  tasks_,        (* of each task that was added, when it is to run           *)
  now

AddTask(task) ==
  /\ task \notin DOMAIN tasks_
  /\ tasks_' = [t \in DOMAIN tasks_ \cup {task} |->
                  IF t = task THEN now + Interval(task) ELSE tasks_[t]]

(* OnWork compares with the time it began at; callbacks may take until       *)
(* later, and restart counts from there.                                     *)
TaskMgrOnWork(later) ==
  LET Due(t) == tasks_[t] < now
      when == [t \in DOMAIN tasks_ |->
                 IF Due(t) /\ Restarts(t) THEN later + Interval(t) ELSE tasks_[t]]
  IN  tasks_' = [t \in {t \in DOMAIN tasks_ : ~(when[t] < now)} |-> when[t]]
=============================================================================
