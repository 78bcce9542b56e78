------------------------------ MODULE IttiTimers ------------------------------
(***************************************************************************)
(* The timers of the ITTI middleware (itti/itti.cpp of SPGW-C, the same     *)
(* file in SPGW-U): the thread timer_manager_task waits for the first timer *)
(* of an ordered set; tasks call timer_setup and timer_remove.              *)
(*                                                                         *)
(* The interleaving is that of the two mutexes. m_timers protects the set;  *)
(* the manager gives it up before it takes m_timeout and waits. A caller    *)
(* holds m_timers until it has notified c_timeout, so there is at most one  *)
(* caller between its two steps. current_timer is read by the manager       *)
(* without any lock: every read is a step of its own.                       *)
(*                                                                         *)
(* Left out: two calls of timer_setup that get the same identifier, since   *)
(* increment_timer_id (itti.cpp:137) is an unlocked ++ and runs before      *)
(* m_timers is taken. Here identifiers are distinct.                        *)
(***************************************************************************)
EXTENDS Integers, FiniteSets, StdMap

CONSTANTS
  Intervals,        \* the durations the tasks ask for
  MaxTime,          \* bound: the clock stops here
  MaxTimers,        \* bound: timers set up
  MaxRemoves,       \* bound: removals
  DistinctTimes     \* TRUE: no two timers expire in the same nanosecond

ASSUME ConstantsAssumption ==
  /\ MaxTime \in Nat /\ MaxTimers \in Nat /\ MaxRemoves \in Nat
  /\ Intervals \subseteq Nat
  /\ DistinctTimes \in BOOLEAN

VARIABLES
  now,              \* system_clock
  timer_id,         \* the last identifier given
  timers,           \* std::set<itti_timer> ordered by time_out
  current_timer,    \* the timer the manager took out of the set, or null_timer
  manager,          \* where the manager thread is
  deadline,         \* when c_timeout.wait_for ends
  to_task,          \* the TIME_OUT being built has a task as its destination
  caller,           \* a caller holds m_timers and has c_timeout to notify
  due,              \* history: the time-out of every timer
  removed,          \* history: timers whose removal returned RETURNok
  removals,         \* history: calls of timer_remove
  posted            \* history: how often a TIME_OUT was posted, per timer

mvars == <<timers, current_timer, manager, deadline, to_task>>
vars  == <<mvars, now, timer_id, caller, due, removed, removals, posted>>

Never == MaxTime + 1

itti_timer(id, time) == [id |-> id, time_out |-> time]
null_timer == itti_timer(0, Never)

Init ==
  /\ now = 0
  /\ timer_id = 0
  /\ timers = {}
  /\ current_timer = null_timer
  /\ manager = "take"
  /\ deadline = Never
  /\ to_task = FALSE
  /\ caller = "idle"
  /\ due = EmptyMap
  /\ removed = {}
  /\ removals = 0
  /\ posted = EmptyMap

Tick ==
  /\ now < MaxTime
  /\ now' = now + 1
  /\ UNCHANGED <<mvars, timer_id, caller, due, removed, removals, posted>>

\* Mutant: any earlier element keeps the new one out.
InsertIfFirst(t) ==
  IF \E u \in timers : u.time_out <= t.time_out THEN timers ELSE timers \cup {t}

\* timers.insert: an element that compares equal keeps the new one out.
Insert(t) ==
  IF \E u \in timers : u.time_out = t.time_out THEN timers ELSE timers \cup {t}

\* c_timeout.notify_one: it is lost unless the manager waits.
Notified == IF manager = "waiting" THEN "woken" ELSE manager

------------------------------------------------------------------------------
(* The callers *)

\* timer_setup, up to the lock of m_timeout.
TimerSetup(interval) ==
  LET t == itti_timer(timer_id + 1, now + interval)
  IN /\ caller = "idle"
     /\ timer_id < MaxTimers
     /\ t.time_out <= MaxTime
     /\ DistinctTimes => \A x \in DOMAIN due : due[x] # t.time_out
     /\ timer_id' = t.id
     /\ timers' = Insert(t)
     /\ due' = MapInsert(due, t.id, t.time_out)
     /\ posted' = MapInsert(posted, t.id, 0)
     /\ caller' = "notify"
     /\ UNCHANGED <<now, current_timer, manager, deadline, to_task, removed, removals>>

\* timer_remove of the timer the manager has in its hands, up to m_timeout.
RemoveCurrent(id) ==
  /\ caller = "idle"
  /\ removals < MaxRemoves
  /\ current_timer.id = id
  /\ current_timer' = null_timer
  /\ removed' = removed \cup {id}
  /\ removals' = removals + 1
  /\ caller' = "notify"
  /\ UNCHANGED <<now, timer_id, timers, manager, deadline, to_task, due, posted>>

\* timer_remove of a timer of the set: nobody is notified.
RemovePending(id) ==
  /\ caller = "idle"
  /\ removals < MaxRemoves
  /\ current_timer.id # id
  /\ \E t \in timers : t.id = id
  /\ timers' = {t \in timers : t.id # id}
  /\ removed' = removed \cup {id}
  /\ removals' = removals + 1
  /\ UNCHANGED <<now, timer_id, current_timer, manager, deadline, to_task,
                 caller, due, posted>>

\* Mutant: the timer in the hands of the manager is forgotten.
RemoveNotInSet(id) ==
  /\ caller = "idle"
  /\ removals < MaxRemoves
  /\ \A t \in timers : t.id # id
  /\ removals' = removals + 1
  /\ UNCHANGED <<mvars, now, timer_id, caller, due, removed, posted>>

\* timer_remove finds nothing and returns RETURNerror.
RemoveNotFound(id) ==
  /\ caller = "idle"
  /\ removals < MaxRemoves
  /\ current_timer.id # id
  /\ \A t \in timers : t.id # id
  /\ removals' = removals + 1
  /\ UNCHANGED <<mvars, now, timer_id, caller, due, removed, posted>>

\* The end of timer_setup and of RemoveCurrent.
Notify ==
  /\ caller = "notify"
  /\ manager' = Notified
  /\ caller' = "idle"
  /\ UNCHANGED <<now, timer_id, timers, current_timer, deadline, to_task, due,
                 removed, removals, posted>>

------------------------------------------------------------------------------
(* timer_manager_task *)

First(t) == \A u \in timers : t.time_out <= u.time_out

\* Under m_timers: the first timer becomes the current one.
Take ==
  /\ manager = "take"
  /\ caller = "idle"
  /\ \E t \in timers :
       /\ First(t)
       /\ current_timer' = t
       /\ timers' = timers \ {t}
  /\ manager' = "check"
  /\ UNCHANGED <<now, timer_id, deadline, to_task, caller, due, removed, removals,
                 posted>>

\* Mutant: the last unit of time is not waited for.
InFutureRounded(t) == t.time_out > now + 1

InFuture(t) == t.time_out > now

\* Is the current timer in the future?
Check ==
  /\ manager = "check"
  /\ manager' = IF InFuture(current_timer) THEN "wait" ELSE "post"
  /\ UNCHANGED <<now, timer_id, timers, current_timer, deadline, to_task, caller,
                 due, removed, removals, posted>>

\* Under m_timeout: the time to wait is computed and the wait begins.
Wait ==
  /\ manager = "wait"
  /\ deadline' = current_timer.time_out
  /\ manager' = "waiting"
  /\ UNCHANGED <<now, timer_id, timers, current_timer, to_task, caller, due, removed,
                 removals, posted>>

\* The condition variable may wake the thread without a notification.
SpuriousWakeUp ==
  /\ manager = "waiting"
  /\ manager' = "woken"
  /\ UNCHANGED <<now, timer_id, timers, current_timer, deadline, to_task, caller, due,
                 removed, removals, posted>>

\* wait_for returns; once the deadline is over it may say so to a thread that
\* was woken, too.
WaitEnds ==
  /\ \/ manager \in {"waiting", "woken"} /\ now >= deadline /\ manager' = "post"
     \/ manager = "woken" /\ manager' = "reinsert"
  /\ UNCHANGED <<now, timer_id, timers, current_timer, deadline, to_task, caller, due,
                 removed, removals, posted>>

\* Mutants: null_timer is put back as well; nothing is put back.
PutBackAlways == Insert(current_timer)
PutBackNever == timers

PutBack == IF current_timer.id # 0 THEN Insert(current_timer) ELSE timers

\* Under m_timers: another timer may be the first now.
Reinsert ==
  /\ manager = "reinsert"
  /\ caller = "idle"
  /\ timers' = PutBack
  /\ current_timer' = null_timer
  /\ manager' = "take"
  /\ UNCHANGED <<now, timer_id, deadline, to_task, caller, due, removed, removals,
                 posted>>

\* The TIME_OUT message is built: first task_id is read from current_timer ...
ReadTask ==
  /\ manager = "post"
  /\ to_task' = (current_timer.id # 0)
  /\ manager' = "send"
  /\ UNCHANGED <<now, timer_id, timers, current_timer, deadline, caller, due, removed,
                 removals, posted>>

\* ... then the id; TASK_NONE gets no messages. current_timer stays as it is.
Send ==
  /\ manager = "send"
  /\ posted' = IF to_task /\ current_timer.id # 0
               THEN MapAssign(posted, current_timer.id, posted[current_timer.id] + 1)
               ELSE posted
  /\ manager' = "take"
  /\ UNCHANGED <<now, timer_id, timers, current_timer, deadline, to_task, caller,
                 due, removed, removals>>

------------------------------------------------------------------------------
Manager == Take \/ Check \/ Wait \/ WaitEnds \/ Reinsert \/ ReadTask \/ Send

TimerRemove(id) == RemoveCurrent(id) \/ RemovePending(id) \/ RemoveNotFound(id)

Caller ==
  \/ \E interval \in Intervals : TimerSetup(interval)
  \/ \E id \in 1 .. timer_id : TimerRemove(id)
  \/ Notify

Next == Tick \/ Manager \/ SpuriousWakeUp \/ Caller

Spec == Init /\ [][Next]_vars

\* Time passes, the manager thread runs, a call that was begun is finished.
FairSpec == Spec /\ WF_vars(Tick) /\ WF_vars(Manager) /\ WF_vars(Notify)

------------------------------------------------------------------------------
(* Properties *)

\* In the hands of the manager and not posted yet.
InHand(id) == current_timer.id = id /\ manager # "take"

TypeOK ==
  /\ now \in 0 .. MaxTime
  /\ timer_id \in 0 .. MaxTimers
  /\ timers \subseteq [id : 1 .. timer_id, time_out : 0 .. MaxTime]
  /\ current_timer \in [id : 0 .. timer_id, time_out : 0 .. Never]
  /\ manager \in {"take", "check", "wait", "waiting", "woken", "reinsert", "post", "send"}
  /\ deadline \in 0 .. Never
  /\ to_task \in BOOLEAN
  /\ caller \in {"idle", "notify"}
  /\ DOMAIN due = 1 .. timer_id /\ DOMAIN posted = 1 .. timer_id
  /\ removed \subseteq 1 .. timer_id

\* No timer disappears: one that was neither posted nor removed is in the set
\* or in the hands of the manager, and in one of them only.
TimersKept ==
  \A id \in 1 .. timer_id :
    posted[id] = 0 /\ id \notin removed =>
      (InHand(id) \/ \E t \in timers : t.id = id) /\
      ~(InHand(id) /\ \E t \in timers : t.id = id)

\* timer_remove says that it found nothing only of a timer whose TIME_OUT was
\* posted or that was removed before.
RemoveTellsTruth ==
  [][\A id \in 1 .. timer_id :
       RemoveNotFound(id) => posted[id] > 0 \/ id \in removed]_vars

TS == INSTANCE TimerService WITH
        Ids   <- 1 .. MaxTimers,
        Times <- 0 .. MaxTime,
        state <- [id \in 1 .. timer_id |->
                    IF posted[id] > 1 THEN "posted again"
                    ELSE IF posted[id] = 1 THEN "posted"
                    ELSE IF id \in removed THEN "removed" ELSE "pending"]

\* The timers keep the promise of TimerService: nothing is posted early, and
\* nothing twice (TimerService has no such state).
TimerServiceSafe == TS!Spec
\* Every timer is posted or removed in the end.
TimerServiceLive == TS!FairSpec
\* At least as long as nobody calls timer_remove.
LiveUnremoved == [](removals = 0) => TS!Fairness

==============================================================================
