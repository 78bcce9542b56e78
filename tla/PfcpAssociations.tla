--------------------------- MODULE PfcpAssociations ---------------------------
(***************************************************************************)
(* pfcp_associations of PGW-C (oai_spgwc/pgw_pfcp_association.cpp) and the   *)
(* part of pgwc_sxab that drives it: an association is set up by a request  *)
(* of the user plane node, and heartbeat requests find out whether the node *)
(* still answers.                                                           *)
(*                                                                         *)
(* Three threads write an association without a lock: the SX task (TIME_OUT *)
(* messages, send_heartbeat_request), the reader of the socket requests are *)
(* sent from (heartbeat responses), and the reader of port 8805             *)
(* (association setup requests). A step is what one of them does between    *)
(* two accesses to the fields timer_heartbeat and trxn_id_heartbeat.        *)
(*                                                                         *)
(* Time is abstracted: a timer that runs may expire at any time. The two    *)
(* timers of each PFCP procedure are left to PfcpStack.                     *)
(***************************************************************************)
EXTENDS Integers, FiniteSets, StdMap

CONSTANTS
  UpNodes,        \* the user plane nodes
  Stamps,         \* their recovery time stamps
  MAX_RETRIES,    \* PFCP_ASSOCIATION_HEARTBEAT_MAX_RETRIES
  MaxSetups,      \* bound: setup requests received from a node
  MaxAnswers      \* bound: heartbeat responses received

ASSUME BoundsAssumption ==
  MAX_RETRIES \in Nat /\ MaxSetups \in Nat /\ MaxAnswers \in Nat

VARIABLES
  associations,   \* map: node -> pfcp_association
  pending,        \* heartbeat requests whose procedure awaits a response, by trxn
  trxn_uid,       \* the last transaction id generated
  hb_timer_id,    \* ITTI: the last timer id given
  hb_timers,      \* ITTI: timers that run, or whose TIME_OUT is in the mailbox
  task,           \* where the SX task is, and for which node
  reader,         \* where the reader of the responses is, and for which node
  setups,         \* history: setup requests received, per node
  answers,        \* history: responses received
  failed          \* history: nodes whose heartbeat procedure failed

ivars == <<trxn_uid, hb_timer_id, hb_timers>>
hvars == <<setups, answers, failed>>
assoc_vars == <<associations, pending, ivars, task, reader, hvars>>

Trigger == "TRIGGER_HEARTBEAT_REQUEST"
Timeout == "TIMEOUT_HEARTBEAT_REQUEST"

Timer(arg1, n) == [arg1 |-> arg1, node |-> n, expired |-> FALSE]
At(pc, n)      == [pc |-> pc, node |-> n]
Idle           == [pc |-> "idle"]

Association(stamp, timer, retries, trxn) ==
  [recovery_time_stamp |-> stamp, timer_heartbeat |-> timer,
   num_retries |-> retries, trxn_id |-> trxn]

Known == DOMAIN associations
Field(n, field, value) ==
  associations' = [associations EXCEPT ![n][field] = value]

AssocInit ==
  /\ associations = EmptyMap
  /\ pending = {}
  /\ trxn_uid = 0 /\ hb_timer_id = 0
  /\ hb_timers = EmptyMap
  /\ task = Idle /\ reader = Idle
  /\ setups = [n \in UpNodes |-> 0]
  /\ answers = 0
  /\ failed = {}

------------------------------------------------------------------------------
(* ITTI *)

TimerSetup(arg1, n) == MapInsert(hb_timers, hb_timer_id + 1, Timer(arg1, n))

\* timer_remove: a TIME_OUT in the mailbox stays there.
TimerRemove(t) ==
  IF t \in DOMAIN hb_timers /\ ~hb_timers[t].expired THEN MapErase(hb_timers, t) ELSE hb_timers

\* The timer thread posts TIME_OUT to the SX task.
Expire(t) ==
  /\ ~hb_timers[t].expired
  /\ hb_timers' = [hb_timers EXCEPT ![t].expired = TRUE]
  /\ UNCHANGED <<associations, pending, trxn_uid, hb_timer_id, task, reader, hvars>>

------------------------------------------------------------------------------
(* The SX task *)

\* Mutant: one retry too many.
RetriesLeftOneMore(n) == associations[n].num_retries <= MAX_RETRIES

RetriesLeft(n) == associations[n].num_retries < MAX_RETRIES

\* A TIME_OUT is taken from the mailbox.
TakeTimeOut(t, arg1) ==
  /\ task = Idle
  /\ hb_timers[t].expired /\ hb_timers[t].arg1 = arg1
  /\ hb_timers' = MapErase(hb_timers, t)
  /\ UNCHANGED <<pending, trxn_uid, hb_timer_id, reader, setups, answers>>

\* initiate_heartbeat_request
InitiateHeartbeatRequest(t) ==
  LET n == hb_timers[t].node
  IN /\ TakeTimeOut(t, Trigger)
     /\ Field(n, "num_retries", 0)
     /\ task' = At("timer", n)
     /\ UNCHANGED failed

\* timeout_heartbeat_request with retries left
RetryHeartbeatRequest(t) ==
  LET n == hb_timers[t].node
  IN /\ TakeTimeOut(t, Timeout)
     /\ RetriesLeft(n)
     /\ Field(n, "num_retries", associations[n].num_retries + 1)
     /\ task' = At("timer", n)
     /\ UNCHANGED failed

\* timeout_heartbeat_request without: a warning, the association stays.
FailHeartbeatRequest(t) ==
  LET n == hb_timers[t].node
  IN /\ TakeTimeOut(t, Timeout)
     /\ ~RetriesLeft(n)
     /\ failed' = failed \cup {n}
     /\ UNCHANGED <<associations, task>>

\* Mutant: the time-out gets an id but does not run.
SendSetupTimerUnarmed ==
  /\ task.pc = "timer"
  /\ hb_timer_id' = hb_timer_id + 1
  /\ Field(task.node, "timer_heartbeat", hb_timer_id + 1)
  /\ task' = At("trxn", task.node)
  /\ UNCHANGED <<hb_timers, pending, trxn_uid, reader, hvars>>

\* send_heartbeat_request: the time-out of the answer is set up first, ...
SendSetupTimer ==
  /\ task.pc = "timer"
  /\ hb_timers' = TimerSetup(Timeout, task.node)
  /\ hb_timer_id' = hb_timer_id + 1
  /\ Field(task.node, "timer_heartbeat", hb_timer_id + 1)
  /\ task' = At("trxn", task.node)
  /\ UNCHANGED <<pending, trxn_uid, reader, hvars>>

\* ... then the association gets a new transaction id ...
SendNewTrxn ==
  /\ task.pc = "trxn"
  /\ trxn_uid' = trxn_uid + 1
  /\ Field(task.node, "trxn_id", trxn_uid + 1)
  /\ task' = At("send", task.node)
  /\ UNCHANGED <<pending, hb_timer_id, hb_timers, reader, hvars>>

\* ... and send_request creates the procedure and sends the request.
SendHeartbeatRequest ==
  /\ task.pc = "send"
  /\ pending' = pending \cup {associations[task.node].trxn_id}
  /\ task' = Idle
  /\ UNCHANGED <<associations, ivars, reader, hvars>>

------------------------------------------------------------------------------
(* The reader of the socket the requests are sent from *)

\* A response to request x. Its procedure stays, so that it is accepted once;
\* it counts for the association whose last request it answers.
ReceiveHeartbeatResponse(x) ==
  /\ reader = Idle
  /\ answers < MaxAnswers
  /\ answers' = answers + 1
  /\ pending' = pending \ {x}
  /\ \/ \E n \in Known : associations[n].trxn_id = x /\ reader' = At("remove", n)
     \/ (\A n \in Known : associations[n].trxn_id # x) /\ UNCHANGED reader
  /\ UNCHANGED <<associations, ivars, task, setups, failed>>

\* Mutant: the next heartbeat is not triggered.
ResponseOnlyRemovesTimer ==
  /\ reader.pc = "remove"
  /\ hb_timers' = TimerRemove(associations[reader.node].timer_heartbeat)
  /\ reader' = Idle
  /\ UNCHANGED <<associations, pending, trxn_uid, hb_timer_id, task, hvars>>

\* handle_receive_heartbeat_response: timer_remove ...
ResponseRemovesTimer ==
  /\ reader.pc = "remove"
  /\ hb_timers' = TimerRemove(associations[reader.node].timer_heartbeat)
  /\ reader' = At("trigger", reader.node)
  /\ UNCHANGED <<associations, pending, trxn_uid, hb_timer_id, task, hvars>>

\* ... and trigger_heartbeat_request_procedure.
ResponseTriggersNext ==
  /\ reader.pc = "trigger"
  /\ hb_timers' = TimerSetup(Trigger, reader.node)
  /\ hb_timer_id' = hb_timer_id + 1
  /\ Field(reader.node, "timer_heartbeat", hb_timer_id + 1)
  /\ reader' = Idle
  /\ UNCHANGED <<pending, trxn_uid, task, hvars>>

------------------------------------------------------------------------------
(* The reader of port 8805: handle_receive_association_setup_request *)

SetupReceived(n) ==
  /\ setups[n] < MaxSetups
  /\ setups' = [setups EXCEPT ![n] = @ + 1]
  /\ UNCHANGED <<pending, trxn_uid, task, reader, answers, failed>>

\* add_association of a node that is not known
AddAssociation(n, stamp) ==
  /\ n \notin Known
  /\ SetupReceived(n)
  /\ hb_timers' = TimerSetup(Trigger, n)
  /\ hb_timer_id' = hb_timer_id + 1
  /\ associations' = MapInsert(associations, n, Association(stamp, hb_timer_id + 1, 0, 0))

\* add_association of a known node: its heartbeat timer is removed, and none is
\* set up. restore_sx_sessions does nothing: nothing calls notify_add_session,
\* so no association has sessions.
UpdateAssociation(n, stamp) ==
  /\ n \in Known
  /\ SetupReceived(n)
  /\ hb_timers' = TimerRemove(associations[n].timer_heartbeat)
  /\ Field(n, "recovery_time_stamp", stamp)
  /\ UNCHANGED hb_timer_id

------------------------------------------------------------------------------
TimerThread == \E t \in DOMAIN hb_timers : Expire(t)

Task ==
  \/ \E t \in DOMAIN hb_timers :
       InitiateHeartbeatRequest(t) \/ RetryHeartbeatRequest(t) \/ FailHeartbeatRequest(t)
  \/ SendSetupTimer \/ SendNewTrxn \/ SendHeartbeatRequest

ResponseHandler == ResponseRemovesTimer \/ ResponseTriggersNext

Network ==
  \/ \E x \in pending : ReceiveHeartbeatResponse(x)
  \/ \E n \in UpNodes, stamp \in Stamps : AddAssociation(n, stamp) \/ UpdateAssociation(n, stamp)

AssocNext == TimerThread \/ Task \/ ResponseHandler \/ Network

AssocSpec == AssocInit /\ [][AssocNext]_assoc_vars

\* Timers expire and the threads go on. Nobody has to answer.
AssocFairSpec ==
  /\ AssocSpec
  /\ WF_assoc_vars(TimerThread) /\ WF_assoc_vars(Task) /\ WF_assoc_vars(ResponseHandler)

------------------------------------------------------------------------------
(* Properties *)

AssocTypeOK ==
  /\ Known \subseteq UpNodes
  /\ \A n \in Known :
       associations[n] \in [recovery_time_stamp : Stamps, num_retries : 0 .. MAX_RETRIES,
                            timer_heartbeat : 1 .. hb_timer_id, trxn_id : 0 .. trxn_uid]
  /\ pending \subseteq 1 .. trxn_uid
  /\ \A t \in DOMAIN hb_timers :
       t \in 1 .. hb_timer_id /\
       hb_timers[t] \in [arg1 : {Trigger, Timeout}, node : Known, expired : BOOLEAN]
  /\ task \in {Idle} \cup [pc : {"timer", "trxn", "send"}, node : Known]
  /\ reader \in {Idle} \cup [pc : {"remove", "trigger"}, node : Known]

\* Something is going to start, repeat or end the heartbeat procedure of n.
Beats(n) ==
  \/ \E t \in DOMAIN hb_timers : hb_timers[t].node = n
  \/ task # Idle /\ task.node = n
  \/ reader # Idle /\ reader.node = n

\* The supervision of a node never just stops: it goes on until it is declared
\* failed or the node sets the association up again, whatever responses cross
\* the time-outs.
HeartbeatRuns ==
  \A n \in Known : Beats(n) \/ n \in failed \/ setups[n] > 1

\* A node that stops answering is declared failed, unless it sets the
\* association up again.
FailureNoticed ==
  \A n \in UpNodes : n \in Known ~> n \in failed \/ setups[n] > 1

\* The heartbeat procedure fails when the last request stays without a response
\* ("PFCP HEARTBEAT PROCEDURE FAILED after %d retries").
FailsUnanswered ==
  [][\A n \in failed' \ failed :
       associations[n].trxn_id \in pending]_assoc_vars

==============================================================================
