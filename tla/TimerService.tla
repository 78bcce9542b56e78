----------------------------- MODULE TimerService -----------------------------
(***************************************************************************)
(* What the tasks expect of the ITTI timers: a timer that was set up is     *)
(* posted once as a TIME_OUT message, not before it is due, unless it is    *)
(* removed first. A removal may cross the TIME_OUT of a timer that is due.  *)
(***************************************************************************)
EXTENDS Integers

CONSTANTS Ids,      \* the identifiers of timers
          Times     \* the points of time

VARIABLES now,      \* the clock
          due,      \* when each timer that was set up expires
          state     \* "pending", "removed" or "posted"

vars == <<now, due, state>>

Init == now \in Times /\ due = [t \in {} |-> 0] /\ state = [t \in {} |-> "pending"]

Tick == now' \in Times /\ now' > now /\ UNCHANGED <<due, state>>

Becomes(t, s) == state' = [x \in DOMAIN state |-> IF x = t THEN s ELSE state[x]]

SetUp(t, time) ==
  /\ t \notin DOMAIN due
  /\ due'   = [x \in DOMAIN due \cup {t} |-> IF x = t THEN time ELSE due[x]]
  /\ state' = [x \in DOMAIN state \cup {t} |-> IF x = t THEN "pending" ELSE state[x]]
  /\ UNCHANGED now

Remove(t) ==
  /\ t \in DOMAIN due /\ state[t] = "pending"
  /\ Becomes(t, "removed")
  /\ UNCHANGED <<now, due>>

Post(t) ==
  /\ t \in DOMAIN due /\ state[t] # "posted" /\ now >= due[t]
  /\ Becomes(t, "posted")
  /\ UNCHANGED <<now, due>>

Next == \/ Tick
        \/ \E t \in Ids : Remove(t) \/ Post(t) \/ \E time \in Times : SetUp(t, time)

Spec == Init /\ [][Next]_vars

\* A timer that is due is posted or removed in the end.
Ended(t) == Post(t) \/ Remove(t)
Fairness == \A t \in Ids : WF_vars(Ended(t))
FairSpec == Spec /\ Fairness

==============================================================================
