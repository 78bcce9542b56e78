--------------------------- MODULE IttiTimersProofs ---------------------------
(***************************************************************************)
(* Proofs about IttiTimers for every value of its constants.                *)
(***************************************************************************)
EXTENDS IttiTimers, TLAPS

\* The histories have an entry for every timer that was set up.
HistoryTyped ==
  /\ due \in [1 .. timer_id -> 0 .. MaxTime]
  /\ posted \in [1 .. timer_id -> {0, 1}]

\* A timer of the set is neither posted nor removed, keeps its time-out, and
\* is not the current one.
PendingOK ==
  \A t \in timers :
    /\ t.time_out = due[t.id]
    /\ posted[t.id] = 0
    /\ t.id \notin removed
    /\ t.id # current_timer.id

\* The manager has a timer or none. One that it has was not removed, and was
\* posted only when the manager is about to take the next.
CurrentOK ==
  \/ current_timer = null_timer
  \/ /\ current_timer.id \in 1 .. timer_id
     /\ current_timer.time_out = due[current_timer.id]
     /\ current_timer.id \notin removed
     /\ posted[current_timer.id] = IF manager = "take" THEN 1 ELSE 0

\* The wait ends when the current timer is due, and it is due when its message
\* is built; that message has a task as its destination.
WaitOK ==
  current_timer.id # 0 =>
    /\ manager \in {"waiting", "woken"} => deadline = current_timer.time_out
    /\ manager \in {"post", "send"} => current_timer.time_out <= now
    /\ manager = "send" => to_task

\* What holds whether or not two timers may expire at the same time.
Base == TypeOK /\ HistoryTyped /\ PendingOK /\ CurrentOK /\ WaitOK

\* With distinct times the set keeps every timer.
TimesApart ==
  DistinctTimes => \A x, y \in 1 .. timer_id : due[x] = due[y] => x = y

\* A timer that was neither posted nor removed is somewhere.
Kept ==
  \A id \in 1 .. timer_id :
    posted[id] = 0 /\ id \notin removed =>
      current_timer.id = id \/ \E t \in timers : t.id = id

IInv == Base /\ TimesApart /\ Kept

LEMMA BaseInit == Init => IInv
<1> USE ConstantsAssumption DEF Init, EmptyMap
<1>1. Init => TypeOK /\ HistoryTyped
  <2> SUFFICES ASSUME Init PROVE TypeOK /\ HistoryTyped
    OBVIOUS
  <2>1. 1 .. timer_id = {} /\ DOMAIN due = {} /\ DOMAIN posted = {}
    OBVIOUS
  <2>2. current_timer \in [id : 0 .. timer_id, time_out : 0 .. Never] /\ deadline \in 0 .. Never
    BY DEF null_timer, itti_timer, Never
  <2>3. /\ now \in 0 .. MaxTime /\ timer_id \in 0 .. MaxTimers
        /\ timers \subseteq [id : 1 .. timer_id, time_out : 0 .. MaxTime]
        /\ removed \subseteq 1 .. timer_id
    OBVIOUS
  <2> HIDE DEF EmptyMap
  <2>5. TypeOK
    BY <2>1, <2>2, <2>3, Zenon DEF TypeOK
  <2>4. HistoryTyped
    BY <2>1 DEF HistoryTyped, EmptyMap
  <2> QED
    BY <2>4, <2>5
<1>2. Init => PendingOK /\ CurrentOK /\ WaitOK /\ TimesApart /\ Kept
  BY DEF PendingOK, CurrentOK, WaitOK, TimesApart, Kept, null_timer, itti_timer
<1> QED
  BY <1>1, <1>2 DEF IInv, Base

\* A new timer is put into the set, or the set has its time-out already.
LEMMA SetupStep ==
  ASSUME Base, NEW interval \in Intervals, TimerSetup(interval)
  PROVE  Base'
<1> DEFINE t == itti_timer(timer_id + 1, now + interval)
<1>0. /\ interval \in Nat /\ now \in 0 .. MaxTime /\ timer_id \in Nat
      /\ timer_id' = timer_id + 1 /\ timer_id + 1 \in 1 .. MaxTimers
      /\ t.id = timer_id + 1 /\ t.time_out = now + interval
      /\ t \in [id : 1 .. timer_id', time_out : 0 .. MaxTime]
      /\ timers' \subseteq timers \cup {t}
  BY ConstantsAssumption DEF TimerSetup, Base, TypeOK, itti_timer, Insert
<1>1. /\ due' \in [1 .. timer_id' -> 0 .. MaxTime]
      /\ posted' \in [1 .. timer_id' -> {0, 1}]
      /\ due'[t.id] = t.time_out /\ posted'[t.id] = 0
      /\ \A x \in 1 .. timer_id : due'[x] = due[x] /\ posted'[x] = posted[x]
  BY SMTT(60), <1>0 DEF TimerSetup, Base, HistoryTyped, MapInsert
<1>2. UNCHANGED <<now, current_timer, manager, deadline, to_task, removed>>
  BY DEF TimerSetup
<1> HIDE DEF t
<1>3. TypeOK' /\ HistoryTyped'
  <2>1. HistoryTyped'
    BY <1>1 DEF HistoryTyped
  <2>2. timers' \subseteq [id : 1 .. timer_id', time_out : 0 .. MaxTime]
    <3>1. \A x \in timers : x \in [id : 1 .. timer_id', time_out : 0 .. MaxTime]
      BY SMTT(60), <1>0 DEF Base, TypeOK
    <3> QED
      BY <1>0, <3>1
  <2>3. current_timer' \in [id : 0 .. timer_id', time_out : 0 .. Never]
    BY SMTT(60), <1>0, <1>2 DEF Base, TypeOK
  <2>4. removed' \subseteq 1 .. timer_id' /\ timer_id' \in 0 .. MaxTimers
    BY <1>0, <1>2 DEF Base, TypeOK
  <2>5. caller' \in {"idle", "notify"}
    BY DEF TimerSetup
  <2> QED
    BY <1>2, <2>1, <2>2, <2>3, <2>4, <2>5 DEF Base, TypeOK, HistoryTyped
<1>4. PendingOK'
  BY SMTT(60), <1>0, <1>1, <1>2 DEF Base, TypeOK, PendingOK
<1>5. CurrentOK' /\ WaitOK'
  BY SMTT(60), <1>0, <1>1, <1>2 DEF Base, TypeOK, CurrentOK, WaitOK
<1> QED
  BY <1>3, <1>4, <1>5 DEF Base

\* A removal takes the timer from the manager or out of the set.
LEMMA RemoveStep ==
  ASSUME Base, NEW id \in 1 .. timer_id, TimerRemove(id)
  PROVE  Base'
<1>1. CASE RemoveCurrent(id)
  <2>1. /\ UNCHANGED <<now, timer_id, timers, manager, deadline, to_task, due, posted>>
        /\ current_timer' = null_timer /\ removed' = removed \cup {id}
        /\ current_timer.id = id /\ caller' \in {"idle", "notify"}
    BY <1>1 DEF RemoveCurrent
  <2>2. null_timer \in [id : 0 .. timer_id, time_out : 0 .. Never] /\ null_timer.id = 0
    BY ConstantsAssumption DEF null_timer, itti_timer, Never, Base, TypeOK
  <2>3. TypeOK' /\ HistoryTyped'
    BY <2>1, <2>2 DEF Base, TypeOK, HistoryTyped
  <2>4. PendingOK'
    BY <2>1, <2>2 DEF Base, TypeOK, PendingOK
  <2>5. CurrentOK' /\ WaitOK'
    BY <2>1, <2>2 DEF CurrentOK, WaitOK, null_timer
  <2> QED
    BY <2>3, <2>4, <2>5 DEF Base
<1>2. CASE RemovePending(id)
  <2>1. /\ UNCHANGED <<now, timer_id, current_timer, manager, deadline, to_task, caller,
                       due, posted>>
        /\ timers' = {t \in timers : t.id # id} /\ removed' = removed \cup {id}
        /\ current_timer.id # id
    BY <1>2 DEF RemovePending
  <2>2. TypeOK' /\ HistoryTyped' /\ PendingOK'
    BY <2>1 DEF Base, TypeOK, HistoryTyped, PendingOK
  <2>3. CurrentOK' /\ WaitOK'
    BY <2>1 DEF Base, CurrentOK, WaitOK, null_timer
  <2> QED
    BY <2>2, <2>3 DEF Base
<1>3. CASE RemoveNotFound(id)
  BY ZenonT(60), <1>3 DEF RemoveNotFound, mvars, Base, TypeOK, HistoryTyped, PendingOK, CurrentOK,
              WaitOK, null_timer
<1> QED
  BY <1>1, <1>2, <1>3 DEF TimerRemove

\* The manager takes the first timer.
LEMMA TakeStep ==
  ASSUME Base, Take
  PROVE  Base'
<1> PICK t \in timers : current_timer' = t /\ timers' = timers \ {t}
  BY DEF Take
<1>1. /\ manager = "take" /\ manager' = "check"
      /\ UNCHANGED <<now, timer_id, deadline, to_task, caller, due, removed, posted>>
  BY DEF Take
<1>2. t \in [id : 1 .. timer_id, time_out : 0 .. MaxTime]
  BY DEF Base, TypeOK
<1>3. t \in [id : 0 .. timer_id, time_out : 0 .. Never]
  BY <1>2, ConstantsAssumption DEF Never
<1>4. TypeOK' /\ HistoryTyped'
  BY <1>1, <1>3 DEF Base, TypeOK, HistoryTyped
<1>5. \A u \in timers' : u.id # t.id
  <2> SUFFICES ASSUME NEW u \in timers, u # t PROVE u.id # t.id
    OBVIOUS
  <2>1. u \in [id : 1 .. timer_id, time_out : 0 .. MaxTime]
    BY DEF Base, TypeOK
  <2>2. u.time_out = due[u.id] /\ t.time_out = due[t.id]
    BY DEF Base, PendingOK
  <2> QED
    BY <1>2, <2>1, <2>2
<1>6. PendingOK'
  BY <1>1, <1>5 DEF Base, PendingOK
<1>7. CurrentOK' /\ WaitOK'
  BY <1>1, <1>2 DEF Base, PendingOK, CurrentOK, WaitOK
<1> QED
  BY <1>4, <1>6, <1>7 DEF Base

\* The manager puts the current timer back, unless it was removed.
LEMMA ReinsertStep ==
  ASSUME Base, Reinsert
  PROVE  Base'
<1>1. /\ manager = "reinsert" /\ manager' = "take"
      /\ UNCHANGED <<now, timer_id, deadline, to_task, caller, due, removed, posted>>
      /\ current_timer' = null_timer /\ timers' = PutBack
  BY DEF Reinsert
<1>2. null_timer \in [id : 0 .. timer_id, time_out : 0 .. Never] /\ null_timer.id = 0
  BY ConstantsAssumption DEF null_timer, itti_timer, Never, Base, TypeOK
<1>3. current_timer.id # 0 =>
        /\ current_timer \in [id : 1 .. timer_id, time_out : 0 .. MaxTime]
        /\ current_timer.time_out = due[current_timer.id]
        /\ posted[current_timer.id] = 0 /\ current_timer.id \notin removed
  <2> SUFFICES ASSUME current_timer.id # 0
               PROVE  /\ current_timer \in [id : 1 .. timer_id, time_out : 0 .. MaxTime]
                      /\ current_timer.time_out = due[current_timer.id]
                      /\ posted[current_timer.id] = 0 /\ current_timer.id \notin removed
    OBVIOUS
  <2>1. /\ current_timer.id \in 1 .. timer_id
        /\ current_timer.time_out = due[current_timer.id]
        /\ posted[current_timer.id] = 0 /\ current_timer.id \notin removed
    BY <1>1, <1>2 DEF Base, CurrentOK
  <2>2. current_timer.time_out \in 0 .. MaxTime
    BY <2>1 DEF Base, HistoryTyped
  <2>3. current_timer = [id |-> current_timer.id, time_out |-> current_timer.time_out]
    BY DEF Base, TypeOK
  <2> QED
    BY <2>1, <2>2, <2>3
<1>4. /\ timers' \subseteq timers \cup {current_timer}
      /\ current_timer.id = 0 => timers' = timers
  BY <1>1 DEF PutBack, Insert
<1>5. TypeOK' /\ HistoryTyped'
  BY <1>1, <1>2, <1>3, <1>4 DEF Base, TypeOK, HistoryTyped
<1>6. PendingOK'
  BY <1>1, <1>2, <1>3, <1>4 DEF Base, TypeOK, PendingOK
<1>7. CurrentOK' /\ WaitOK'
  BY <1>1, <1>2 DEF CurrentOK, WaitOK
<1> QED
  BY <1>5, <1>6, <1>7 DEF Base

\* The TIME_OUT is posted unless the timer was removed while it was built.
LEMMA SendStep ==
  ASSUME Base, Send
  PROVE  Base'
<1>1. /\ manager = "send" /\ manager' = "take"
      /\ UNCHANGED <<now, timer_id, timers, current_timer, deadline, to_task, caller,
                     due, removed>>
  BY DEF Send
<1>2. CASE current_timer.id = 0
  <2>1. posted' = posted
    BY <1>2 DEF Send
  <2>2. current_timer = null_timer
    BY <1>2 DEF Base, CurrentOK
  <2>3. TypeOK' /\ HistoryTyped' /\ PendingOK'
    BY <1>1, <2>1 DEF Base, TypeOK, HistoryTyped, PendingOK
  <2>4. CurrentOK' /\ WaitOK'
    BY <1>1, <1>2, <2>1, <2>2 DEF CurrentOK, WaitOK, null_timer
  <2> QED
    BY <2>3, <2>4 DEF Base
<1>3. CASE current_timer.id # 0
  <2>1. /\ current_timer.id \in 1 .. timer_id
        /\ posted[current_timer.id] = 0
    BY <1>1, <1>3 DEF Base, CurrentOK, null_timer, itti_timer
  <2>2. /\ posted' \in [1 .. timer_id -> {0, 1}]
        /\ posted'[current_timer.id] = 1
        /\ \A x \in 1 .. timer_id : x # current_timer.id => posted'[x] = posted[x]
    BY <1>1, <1>3, <2>1 DEF Send, Base, WaitOK, HistoryTyped, MapAssign
  <2>3. TypeOK' /\ HistoryTyped'
    BY <1>1, <2>2 DEF Base, TypeOK, HistoryTyped
  <2>4. PendingOK'
    BY <1>1, <2>2 DEF Base, TypeOK, PendingOK
  <2>5. CurrentOK' /\ WaitOK'
    BY <1>1, <1>3, <2>1, <2>2 DEF Base, CurrentOK, WaitOK
  <2> QED
    BY <2>3, <2>4, <2>5 DEF Base
<1> QED
  BY <1>2, <1>3

\* The other steps of the manager move it on; the clock moves by one.
LEMMA BaseStep == Base /\ [Next]_vars => Base'
<1> SUFFICES ASSUME Base, [Next]_vars PROVE Base'
  OBVIOUS
<1>t. /\ TypeOK /\ HistoryTyped /\ PendingOK /\ CurrentOK /\ WaitOK
      /\ MaxTime \in Nat
  BY ConstantsAssumption DEF Base
<1>n. current_timer.id # 0 =>
        /\ current_timer.id \in 1 .. timer_id /\ current_timer.time_out \in 0 .. MaxTime
  BY <1>t DEF HistoryTyped, CurrentOK, null_timer, itti_timer
<1>1. CASE Tick
  BY SMTT(60), <1>t, <1>n, <1>1 DEF Tick, mvars, Base, TypeOK, HistoryTyped, PendingOK, CurrentOK, WaitOK, null_timer
<1>2. CASE Check
  <2>1. /\ UNCHANGED <<now, timer_id, timers, current_timer, deadline, to_task, caller,
                       due, removed, posted>>
        /\ manager = "check" /\ manager' \in {"wait", "post"}
        /\ manager' = "post" => ~(current_timer.time_out > now)
    BY <1>2 DEF Check, InFuture
  <2>2. TypeOK' /\ HistoryTyped' /\ PendingOK'
    BY <1>t, <2>1 DEF TypeOK, HistoryTyped, PendingOK
  <2>3. CurrentOK'
    BY <1>t, <2>1 DEF CurrentOK, null_timer
  <2>4. WaitOK'
    BY <1>t, <1>n, <2>1 DEF WaitOK, TypeOK
  <2> QED
    BY <2>2, <2>3, <2>4 DEF Base
<1>3. CASE Wait
  BY <1>t, <1>3 DEF Wait, Base, TypeOK, HistoryTyped, PendingOK, CurrentOK, WaitOK, null_timer
<1>4. CASE SpuriousWakeUp
  BY <1>t, <1>4 DEF SpuriousWakeUp, Base, TypeOK, HistoryTyped, PendingOK, CurrentOK, WaitOK, null_timer
<1>5. CASE WaitEnds
  <2>1. /\ UNCHANGED <<now, timer_id, timers, current_timer, deadline, to_task, caller,
                       due, removed, posted>>
        /\ manager \in {"waiting", "woken"} /\ manager' \in {"reinsert", "post"}
        /\ manager' = "post" => now >= deadline
    BY <1>5 DEF WaitEnds
  <2>2. TypeOK' /\ HistoryTyped' /\ PendingOK'
    BY <1>t, <2>1 DEF TypeOK, HistoryTyped, PendingOK
  <2>3. CurrentOK'
    BY <1>t, <2>1 DEF CurrentOK, null_timer
  <2>4. WaitOK'
    BY <1>t, <1>n, <2>1 DEF WaitOK, TypeOK
  <2> QED
    BY <2>2, <2>3, <2>4 DEF Base
<1>6. CASE ReadTask
  BY <1>t, <1>6 DEF ReadTask, Base, TypeOK, HistoryTyped, PendingOK, CurrentOK, WaitOK, null_timer
<1>7. CASE Notify
  BY ZenonT(60), <1>t, <1>7 DEF Notify, Notified, Base, TypeOK, HistoryTyped, PendingOK, CurrentOK, WaitOK, null_timer
<1>8. CASE UNCHANGED vars
  BY <1>t, <1>8 DEF vars, mvars, Base, TypeOK, HistoryTyped, PendingOK, CurrentOK, WaitOK, null_timer
<1>9. CASE Manager
  BY <1>2, <1>3, <1>5, <1>6, <1>9, TakeStep, ReinsertStep, SendStep DEF Manager
<1>10. CASE Caller
  BY <1>7, <1>10, SetupStep, RemoveStep DEF Caller
<1> QED
  BY <1>1, <1>4, <1>8, <1>9, <1>10 DEF Next

LEMMA BaseInvariant == Spec => []Base
<1>1. Init => Base
  BY BaseInit DEF IInv
<1> QED
  BY <1>1, BaseStep, PTL DEF Spec

\* Whatever tasks set up and remove, and wherever the manager stands when they
\* do, the tables of the timers stay well typed.
THEOREM TypeCorrect == Spec => []TypeOK
<1>1. Base => TypeOK
  BY DEF Base
<1> QED
  BY <1>1, BaseInvariant, PTL

\* Two timers that are set up never expire at the same time, if the clock is
\* fine enough for that.
LEMMA TimesStep ==
  ASSUME Base, TimesApart, [Next]_vars
  PROVE  TimesApart'
<1>1. CASE \E interval \in Intervals : TimerSetup(interval)
  <2> PICK interval \in Intervals : TimerSetup(interval)
    BY <1>1
  <2>1. /\ timer_id \in Nat /\ timer_id' = timer_id + 1
        /\ due' = MapInsert(due, timer_id + 1, now + interval)
        /\ DistinctTimes => \A x \in DOMAIN due : due[x] # now + interval
    BY DEF TimerSetup, itti_timer, Base, TypeOK
  <2>2. /\ DOMAIN due = 1 .. timer_id
        /\ due'[timer_id + 1] = now + interval
        /\ \A x \in 1 .. timer_id : due'[x] = due[x]
    BY <2>1 DEF MapInsert, Base, HistoryTyped
  <2> QED
    BY <2>1, <2>2 DEF TimesApart
<1>2. CASE UNCHANGED <<timer_id, due>>
  BY <1>2 DEF TimesApart
<1> QED
  BY <1>1, <1>2 DEF Next, vars, mvars, Tick, Manager, Take, Check, Wait, WaitEnds, Reinsert,
     ReadTask, Send, SpuriousWakeUp, Caller, TimerRemove, RemoveCurrent, RemovePending,
     RemoveNotFound, Notify

\* insert is refused only because of an equal time-out, and there is none.
LEMMA KeptStep ==
  ASSUME DistinctTimes, IInv, [Next]_vars
  PROVE  Kept'
<1> USE DEF Kept
<1>t. /\ TypeOK /\ HistoryTyped /\ PendingOK /\ CurrentOK /\ WaitOK /\ Kept
      /\ timer_id \in Nat
  BY DEF IInv, Base, TypeOK
<1>1. ASSUME NEW interval \in Intervals, TimerSetup(interval)
      PROVE  Kept'
  <2> DEFINE t == itti_timer(timer_id + 1, now + interval)
  <2>1. /\ timer_id' = timer_id + 1
        /\ t.id = timer_id + 1
        /\ \A x \in 1 .. timer_id : posted'[x] = posted[x] /\ due[x] # t.time_out
        /\ UNCHANGED <<current_timer, removed>>
    BY <1>t, <1>1 DEF TimerSetup, MapInsert, HistoryTyped, itti_timer
  <2>2. \A u \in timers : u.time_out # t.time_out
    BY <1>t, <2>1 DEF PendingOK, TypeOK
  <2>3. timers' = timers \cup {t}
    BY <1>1, <2>2 DEF TimerSetup, Insert
  <2> HIDE DEF t
  <2> QED
    BY <1>t, <2>1, <2>3
<1>2. ASSUME NEW x \in 1 .. timer_id, TimerRemove(x)
      PROVE  Kept'
  BY <1>t, <1>2 DEF TimerRemove, RemoveCurrent, RemovePending, RemoveNotFound, mvars
<1>3. CASE Take
  BY <1>t, <1>3 DEF Take, CurrentOK, null_timer, itti_timer
<1>4. CASE Reinsert
  <2>1. current_timer.id # 0 => timers' = timers \cup {current_timer}
    <3>1. ASSUME current_timer.id # 0, NEW u \in timers
          PROVE  u.time_out # current_timer.time_out
      <4>1. /\ current_timer.id \in 1 .. timer_id
            /\ current_timer.time_out = due[current_timer.id]
        BY <1>t, <3>1 DEF CurrentOK, null_timer, itti_timer
      <4>2. u.id \in 1 .. timer_id /\ u.time_out = due[u.id] /\ u.id # current_timer.id
        BY <1>t, <3>1 DEF PendingOK, TypeOK
      <4> QED
        BY <4>1, <4>2 DEF IInv, TimesApart
    <3> QED
      BY <1>4, <3>1 DEF Reinsert, PutBack, Insert
  <2>2. current_timer.id = 0 => timers' = timers
    BY <1>4 DEF Reinsert, PutBack
  <2> QED
    BY <1>t, <1>4, <2>1, <2>2 DEF Reinsert
<1>5. CASE Send
  <2>1. \A x \in 1 .. timer_id : posted'[x] = 0 => posted[x] = 0
    BY <1>t, <1>5 DEF Send, MapAssign, HistoryTyped
  <2> QED
    BY <1>t, <1>5, <2>1 DEF Send
<1>6. CASE UNCHANGED <<timer_id, timers, current_timer, removed, posted>>
  BY <1>t, <1>6
<1> QED
  BY <1>1, <1>2, <1>3, <1>4, <1>5, <1>6 DEF Next, vars, mvars, Tick, Manager, Check, Wait, WaitEnds,
     ReadTask, SpuriousWakeUp, Caller, Notify

\* If the clock is fine enough to tell all time-outs apart, the inductive
\* invariant says where every timer is.
THEOREM Invariance ==
  ASSUME DistinctTimes
  PROVE  Spec => []IInv
<1>1. IInv /\ [Next]_vars => IInv'
  BY BaseStep, TimesStep, KeptStep DEF IInv
<1> QED
  BY <1>1, BaseInit, PTL DEF Spec

\* A timer that was neither posted nor removed is in the set or in the hands of
\* the manager, not in both: the set that is ordered by time-outs loses none
\* of them as long as no two are equal.
THEOREM NoTimerLost ==
  ASSUME DistinctTimes
  PROVE  Spec => []TimersKept
<1>1. IInv => TimersKept
  <2> SUFFICES ASSUME IInv, NEW id \in 1 .. timer_id, posted[id] = 0, id \notin removed
               PROVE  /\ InHand(id) \/ \E t \in timers : t.id = id
                      /\ ~(InHand(id) /\ \E t \in timers : t.id = id)
    BY DEF TimersKept
  <2>1. current_timer.id = id \/ \E t \in timers : t.id = id
    BY DEF IInv, Kept
  <2>2. current_timer.id = id => manager # "take"
    BY DEF IInv, Base, CurrentOK, null_timer, itti_timer
  <2>3. \A t \in timers : t.id # current_timer.id
    BY DEF IInv, Base, PendingOK
  <2> QED
    BY <2>1, <2>2, <2>3 DEF InHand
<1> QED
  BY <1>1, Invariance, PTL

\* timer_remove returns RETURNerror only for a timer whose TIME_OUT was posted
\* or that was removed before, in whatever phase the manager is.
THEOREM NotFoundIsTrue ==
  ASSUME DistinctTimes
  PROVE  Spec => RemoveTellsTruth
<1>1. IInv /\ [Next]_vars =>
        [\A id \in 1 .. timer_id : RemoveNotFound(id) => posted[id] > 0 \/ id \in removed]_vars
  <2> SUFFICES ASSUME IInv, NEW id \in 1 .. timer_id, RemoveNotFound(id)
               PROVE  posted[id] > 0 \/ id \in removed
    OBVIOUS
  <2>1. current_timer.id # id /\ \A t \in timers : t.id # id
    BY DEF RemoveNotFound
  <2>2. posted[id] \in {0, 1}
    BY DEF IInv, Base, HistoryTyped
  <2> QED
    BY <2>1, <2>2 DEF IInv, Kept
<1> QED
  BY <1>1, Invariance, PTL DEF Spec, RemoveTellsTruth

\* How a timer stands, as TimerService sees it.
Standing(id) ==
  IF posted[id] > 1 THEN "posted again"
  ELSE IF posted[id] = 1 THEN "posted"
  ELSE IF id \in removed THEN "removed" ELSE "pending"

stateBar == [id \in 1 .. timer_id |-> Standing(id)]

\* Every step of the timers is a step of TimerService or changes nothing there.
LEMMA StepImplements ==
  ASSUME Base, [Next]_vars
  PROVE  TS!Next \/ UNCHANGED <<now, due, stateBar>>
<1>t. /\ TypeOK /\ HistoryTyped /\ PendingOK /\ CurrentOK /\ WaitOK
      /\ timer_id \in 0 .. MaxTimers /\ now \in 0 .. MaxTime
      /\ MaxTime \in Nat /\ MaxTimers \in Nat /\ Intervals \subseteq Nat
      /\ DOMAIN due = 1 .. timer_id
  BY ConstantsAssumption DEF Base, TypeOK
<1>s. \A x \in 1 .. timer_id :
        /\ posted[x] = 0 /\ x \in removed => Standing(x) = "removed"
        /\ posted[x] = 0 /\ x \notin removed => Standing(x) = "pending"
        /\ posted[x] = 1 => Standing(x) = "posted"
        /\ posted[x] \in {0, 1} /\ stateBar[x] = Standing(x)
  BY <1>t DEF HistoryTyped, Standing, stateBar
<1>p. \A x \in 1 .. timer_id' :
        /\ posted'[x] = 0 /\ x \in removed' => Standing(x)' = "removed"
        /\ posted'[x] = 0 /\ x \notin removed' => Standing(x)' = "pending"
        /\ posted'[x] = 1 => Standing(x)' = "posted"
        /\ posted'[x] \in {0, 1}
  <2>1. HistoryTyped'
    BY BaseStep DEF Base
  <2> QED
    BY <2>1 DEF HistoryTyped, Standing
<1>b. ASSUME NEW id \in 1 .. timer_id, NEW s,
             UNCHANGED <<now, due, timer_id>>,
             \A x \in 1 .. timer_id : x # id => Standing(x)' = Standing(x),
             Standing(id)' = s
      PROVE  TS!Becomes(id, s) /\ UNCHANGED <<now, due>>
  BY Zenon, <1>b DEF TS!Becomes, stateBar, Standing
<1>1. CASE Tick
  <2>1. /\ now' = now + 1 /\ now' \in 0 .. MaxTime /\ now' > now
        /\ UNCHANGED <<due, timer_id, posted, removed>>
    BY <1>t, <1>1 DEF Tick, mvars
  <2>2. TS!Tick
    BY <2>1 DEF TS!Tick
  <2> QED
    BY <2>2 DEF TS!Next
<1>2. ASSUME NEW interval \in Intervals, TimerSetup(interval)
      PROVE  TS!Next
  <2> PICK id, time : id = timer_id + 1 /\ time = now + interval
    OBVIOUS
  <2>1. /\ id \in 1 .. MaxTimers /\ time \in 0 .. MaxTime /\ id \notin DOMAIN due
        /\ timer_id' = id /\ 1 .. timer_id' = (1 .. timer_id) \cup {id}
        /\ due' = MapInsert(due, id, time) /\ posted' = MapInsert(posted, id, 0)
        /\ UNCHANGED <<now, removed>>
        /\ id \notin removed
    BY <1>t, <1>2 DEF TimerSetup, itti_timer, TypeOK
  <2>2. /\ Standing(id)' = "pending"
        /\ \A x \in 1 .. timer_id : Standing(x)' = Standing(x)
    <3>1. posted'[id] = 0 /\ \A x \in 1 .. timer_id : posted'[x] = posted[x]
      BY <1>t, <2>1 DEF MapInsert, HistoryTyped
    <3> QED
      BY <1>s, <1>p, <2>1, <3>1
  <2>3. due' = [x \in DOMAIN due \cup {id} |-> IF x = id THEN time ELSE due[x]]
    BY <2>1 DEF MapInsert
  <2>4. stateBar' = [x \in DOMAIN stateBar \cup {id} |-> IF x = id THEN "pending" ELSE stateBar[x]]
    <3>1. DOMAIN stateBar = 1 .. timer_id
          /\ \A x \in 1 .. timer_id : stateBar[x] = Standing(x)
      BY DEF stateBar
    <3>2. stateBar' = [x \in (1 .. timer_id) \cup {id} |-> Standing(x)']
      BY <2>1 DEF stateBar, Standing
    <3> QED
      BY <2>2, <3>1, <3>2
  <2>5. TS!SetUp(id, time)
    BY Zenon, <2>1, <2>3, <2>4 DEF TS!SetUp, stateBar, Standing
  <2> QED
    BY <2>1, <2>5 DEF TS!Next
<1>3. ASSUME NEW id \in 1 .. timer_id, RemoveCurrent(id) \/ RemovePending(id)
      PROVE  TS!Next \/ UNCHANGED <<now, due, stateBar>>
  <2>1. /\ UNCHANGED <<now, due, timer_id, posted>>
        /\ removed' = removed \cup {id}
        /\ id \notin removed
    BY <1>t, <1>3 DEF RemoveCurrent, RemovePending, PendingOK, CurrentOK, null_timer, itti_timer
  <2>2. CASE posted[id] = 0
    <3>1. TS!Becomes(id, "removed") /\ UNCHANGED <<now, due>>
      <4>1. \A x \in 1 .. timer_id : x # id => Standing(x)' = Standing(x)
        BY <1>s, <1>p, <2>1
      <4>2. Standing(id)' = "removed"
        BY <1>p, <2>1, <2>2
      <4> QED
        BY <1>b, <2>1, <4>1, <4>2
    <3>2. TS!Remove(id)
      BY Zenon, <1>t, <2>1, <2>2, <3>1 DEF TS!Remove, TS!Becomes, stateBar, Standing
    <3> QED
      BY <1>t, <3>2 DEF TS!Next
  <2>3. CASE posted[id] # 0
    <3>1. \A x \in 1 .. timer_id : Standing(x)' = Standing(x)
      BY <1>s, <1>p, <2>1, <2>3
    <3> QED
      BY <2>1, <3>1 DEF stateBar
  <2> QED
    BY <2>2, <2>3
<1>4. CASE Send /\ posted' # posted
  <2> PICK id : id = current_timer.id
    OBVIOUS
  <2>1. /\ id \in 1 .. timer_id /\ posted[id] = 0 /\ id \notin removed
        /\ due[id] <= now
        /\ posted' = MapAssign(posted, id, 1)
        /\ UNCHANGED <<now, due, timer_id, removed>>
    BY <1>t, <1>4 DEF Send, CurrentOK, WaitOK, null_timer, itti_timer
  <2>2. /\ Standing(id)' = "posted"
        /\ \A x \in 1 .. timer_id : x # id => Standing(x)' = Standing(x)
    <3>1. posted'[id] = 1 /\ \A x \in 1 .. timer_id : x # id => posted'[x] = posted[x]
      BY <1>t, <2>1 DEF MapAssign, HistoryTyped
    <3> QED
      BY <1>s, <1>p, <2>1, <3>1
  <2>3. TS!Becomes(id, "posted") /\ UNCHANGED <<now, due>>
    BY <1>b, <2>1, <2>2
  <2>4. stateBar[id] # "posted" /\ now >= due[id]
    BY <1>s, <1>t, <2>1 DEF HistoryTyped
  <2>5. TS!Post(id)
    BY Zenon, <1>t, <2>1, <2>3, <2>4 DEF TS!Post, TS!Becomes, stateBar, Standing
  <2> QED
    BY <1>t, <2>1, <2>5 DEF TS!Next
<1>5. CASE UNCHANGED <<now, due, timer_id, posted, removed>>
  BY <1>5 DEF stateBar, Standing
<1>6. CASE Send /\ posted' = posted
  BY <1>5, <1>6 DEF Send
<1> QED
  BY <1>1, <1>2, <1>3, <1>4, <1>5, <1>6 DEF Next, vars, mvars, Manager, Take, Check, Wait, WaitEnds,
     Reinsert, ReadTask, SpuriousWakeUp, Caller, TimerRemove, RemoveNotFound, Notify

\* The timers keep the promise of TimerService, whether or not their time-outs
\* are distinct: a TIME_OUT is posted at most once, and never before the timer
\* is due; a removal takes effect at most once.
THEOREM Implements == Spec => TimerServiceSafe
<1>1. Init => TS!Init
  <2> SUFFICES ASSUME Init PROVE TS!Init
    OBVIOUS
  <2>1. now \in 0 .. MaxTime /\ 1 .. timer_id = {} /\ due = [t \in {} |-> 0]
    BY ConstantsAssumption DEF Init, EmptyMap
  <2>2. stateBar = [t \in {} |-> "pending"]
    BY <2>1 DEF stateBar
  <2> QED
    BY Zenon, <2>1, <2>2 DEF TS!Init, stateBar, Standing
<1>2. Base /\ [Next]_vars => [TS!Next]_<<now, due, stateBar>>
  BY StepImplements
<1>3. stateBar = [id \in 1 .. timer_id |->
                    IF posted[id] > 1 THEN "posted again"
                    ELSE IF posted[id] = 1 THEN "posted"
                    ELSE IF id \in removed THEN "removed" ELSE "pending"]
  BY DEF stateBar, Standing
<1> QED
  BY <1>1, <1>2, <1>3, BaseInvariant, PTL DEF Spec, TimerServiceSafe, TS!Spec, TS!vars, stateBar, Standing
==============================================================================
