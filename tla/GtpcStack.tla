------------------------------- MODULE GtpcStack ------------------------------
(***************************************************************************)
(* gtpv2c_stack (oai-spgwc/src/gtpv2c): the GTPv2-C transaction layer under *)
(* the S11 and S5/S8 interfaces of SGW-C and PGW-C. Requests of this node   *)
(* are repeated until they are answered, requests of the peer are handed to *)
(* the application once, and every procedure has a clean-up timer.          *)
(*                                                                         *)
(* Three actors share the tables: the UDP reader thread (Receive...), the   *)
(* ITTI task of the interface (Task..., it takes the messages of its        *)
(* mailbox in order) and the application task (App..., it only posts to     *)
(* that mailbox). The ITTI timer thread (Fire) posts TIME_OUT messages.     *)
(* A handler is one step. The network may lose, repeat and reorder.         *)
(***************************************************************************)
EXTENDS Integers, Sequences, FiniteSets, StdMap

CONSTANTS
  SEQ_MODULUS,       \* sequence numbers are 0 .. SEQ_MODULUS-1 (2^24 on the wire)
  InitSeqs,          \* the values seq_num may start with (the clock's nanoseconds)
  PeerSeqs,          \* the sequence numbers of the peer's own requests
  LocalTypes,        \* the requests this node sends
  PeerTypes,         \* the requests the peer sends
  ReplyTypes,        \* the other messages handed to handle_receive_message_cb
  T3, N3, MARGIN,    \* time units: T3-RESPONSE, and what PROC_TIME_OUT adds
  LATENESS,          \* how late after its expiry a TIME_OUT may be handled
  MaxSends,          \* bound: requests sent by this node
  MaxDeliveries      \* bound: transaction identifiers generated

GTP_ECHO_REQUEST                   == 1
GTP_VERSION_NOT_SUPPORTED          == 3
GTP_CREATE_BEARER_REQUEST          == 95
GTP_UPDATE_BEARER_REQUEST          == 97
GTP_DELETE_BEARER_REQUEST          == 99

\* check_initial_message_type
InitialTypes ==
  {1, 32, 34, 36, 38, 40, 64, 66, 68, 95, 97, 99, 101, 103, 128, 130, 133,
   135, 137, 139, 149, 153, 155, 158, 160, 162, 164, 166, 168, 170, 176, 179,
   200, 211, 231, 233, 235}

\* check_triggered_message_type
IsTriggered(initial, triggered) ==
  \/ initial \in InitialTypes /\ triggered = initial + 1
  \/ initial \notin InitialTypes /\ triggered = GTP_VERSION_NOT_SUPPORTED
  \/ triggered \in {GTP_CREATE_BEARER_REQUEST, GTP_UPDATE_BEARER_REQUEST,
                    GTP_DELETE_BEARER_REQUEST}

\* Mutant: the first transmission is forgotten.
PROC_TIME_OUT_ofRetries == T3 * N3 + MARGIN

GTPV2C_PROC_TIME_OUT == T3 * (N3 + 1) + MARGIN

SeqNums == 0 .. SEQ_MODULUS - 1

ASSUME SeqAssumption ==
  /\ SEQ_MODULUS \in Nat \ {0}
  /\ InitSeqs \subseteq SeqNums
  /\ PeerSeqs \subseteq SeqNums
ASSUME TypesAssumption ==
  /\ LocalTypes \subseteq InitialTypes
  /\ PeerTypes \subseteq InitialTypes
  /\ ReplyTypes \subseteq Nat \ (InitialTypes \cup {0})
ASSUME TimingAssumption ==
  /\ T3 \in Nat \ {0}
  /\ N3 \in Nat
  /\ MARGIN \in Nat
  /\ LATENESS \in Nat
ASSUME BoundAssumption == MaxSends \in Nat /\ MaxDeliveries \in Nat

VARIABLES
  seq_num,               \* the last sequence number used by this node
  uid,                   \* uint_uid_generator: the last transaction id given
  pending_procedures,    \* map: sequence number -> gtpv2c_procedure
  gtpc_tx_id2seq_num,    \* map: transaction id -> sequence number
  msg_out_retry_timers,  \* map: timer id -> sequence number
  proc_cleanup_timers,   \* map: timer id -> sequence number
  timer_id,              \* ITTI: the last timer id given
  clock,                 \* ITTI: time left of the timers set up and not removed
  mailbox,               \* the message queue of the task
  owed,                  \* requests the application has yet to answer, by tx id
  fate                   \* history: how each request of this node stands

stack == <<seq_num, uid, pending_procedures, gtpc_tx_id2seq_num,
           msg_out_retry_timers, proc_cleanup_timers>>
vars  == <<stack, timer_id, clock, mailbox, owed, fate>>

SendInitialMsg(type, tx) == [kind |-> "SendInitial", type |-> type, id |-> tx]
SendTriggeredMsg(tx)     == [kind |-> "SendTriggered", type |-> 0, id |-> tx]
TimeOutMsg(t)            == [kind |-> "TimeOut", type |-> 0, id |-> t]

SendsPosted == {i \in 1 .. Len(mailbox) : mailbox[i].kind = "SendInitial"}
Posted(kind, id) ==
  \E i \in 1 .. Len(mailbox) : mailbox[i].kind = kind /\ mailbox[i].id = id

\* gtpv2c_procedure: retry_msg stands for "retry_msg is not null".
Procedure == [initial : Nat, triggered : Nat, retry_msg : BOOLEAN,
              retry_count : Nat, retry_timer : Nat, cleanup_timer : Nat]

\* Mutant: the id of the clean-up timer is not kept.
NewProcedureNoTimer(type, retry_msg, retry, cleanup) ==
  [initial |-> type, triggered |-> 0, retry_msg |-> retry_msg,
   retry_count |-> 0, retry_timer |-> retry, cleanup_timer |-> 0]

NewProcedure(type, retry_msg, retry, cleanup) ==
  [initial |-> type, triggered |-> 0, retry_msg |-> retry_msg,
   retry_count |-> 0, retry_timer |-> retry, cleanup_timer |-> cleanup]

\* Mutant: the counter does not wrap.
NextSeqNoWrap == seq_num + 1

\* get_next_seq_num. The stack counts modulo 2^31, the wire carries 24 bits of it.
NextSeq == (seq_num + 1) % SEQ_MODULUS

\* generate_gtpc_tx_id
NextTx == uid + 1

\* Mutants: the timer gets an id but is not armed.
StartRetryUnarmed(clk, t) == clk
StartCleanupUnarmed(clk, t) == clk

\* start_msg_retry_timer and start_proc_cleanup_timer set up timer t.
StartRetry(clk, t) == MapInsert(clk, t, T3)
StartCleanup(clk, t) == MapInsert(clk, t, GTPV2C_PROC_TIME_OUT)

\* Mutant: one repetition too many.
RetriesLeftOneMore(p) == p.retry_count <= N3

RetriesLeft(p) == p.retry_count < N3

\* Mutant: the procedure keeps the id of the timer that was stopped.
AnsweredTimerKept(p, type) ==
  [initial |-> p.initial,
   triggered |-> IF p.triggered = 0 THEN type ELSE p.triggered,
   retry_msg |-> p.retry_msg, retry_count |-> p.retry_count,
   retry_timer |-> p.retry_timer, cleanup_timer |-> p.cleanup_timer]

\* The procedure after a triggered message: its retry timer is stopped.
Answered(p, type) ==
  [initial |-> p.initial,
   triggered |-> IF p.triggered = 0 THEN type ELSE p.triggered,
   retry_msg |-> p.retry_msg, retry_count |-> p.retry_count,
   retry_timer |-> 0, cleanup_timer |-> p.cleanup_timer]

\* Mutant: the procedure keeps the id of the timer that expired.
RepeatedOldTimer(p, t) ==
  [initial |-> p.initial, triggered |-> p.triggered,
   retry_msg |-> p.retry_msg, retry_count |-> p.retry_count + 1,
   retry_timer |-> p.retry_timer, cleanup_timer |-> p.cleanup_timer]

\* The procedure after its message was sent again under retry timer t.
Repeated(p, t) ==
  [initial |-> p.initial, triggered |-> p.triggered,
   retry_msg |-> p.retry_msg, retry_count |-> p.retry_count + 1,
   retry_timer |-> t, cleanup_timer |-> p.cleanup_timer]

Fate(tx, outcome, tries) == [tx |-> tx, outcome |-> outcome, tries |-> tries]

Sent == DOMAIN fate

SetOutcome(seq, outcome) ==
  MapAssign(fate, seq, Fate(fate[seq].tx, outcome, fate[seq].tries))

Init ==
  /\ seq_num \in InitSeqs
  /\ uid = 0
  /\ pending_procedures = EmptyMap
  /\ gtpc_tx_id2seq_num = EmptyMap
  /\ msg_out_retry_timers = EmptyMap
  /\ proc_cleanup_timers = EmptyMap
  /\ timer_id = 0
  /\ clock = EmptyMap
  /\ mailbox = <<>>
  /\ owed = EmptyMap
  /\ fate = EmptyMap

------------------------------------------------------------------------------
(* ITTI timers *)

\* timer_remove: a TIME_OUT message that was posted stays in the mailbox.
TimerRemove(clk, t) == IF Posted("TimeOut", t) THEN clk ELSE MapErase(clk, t)

\* Time passes. No expired timer is left unhandled longer than LATENESS.
Tick ==
  /\ \A t \in DOMAIN clock : clock[t] > -LATENESS
  /\ clock' = [t \in DOMAIN clock |-> clock[t] - 1]
  /\ UNCHANGED <<stack, timer_id, mailbox, owed, fate>>

\* The timer thread posts TIME_OUT for an expired timer.
Fire(t) ==
  /\ clock[t] <= 0
  /\ ~Posted("TimeOut", t)
  /\ mailbox' = Append(mailbox, TimeOutMsg(t))
  /\ UNCHANGED <<stack, timer_id, clock, owed, fate>>

------------------------------------------------------------------------------
(* The application posts requests and answers to the task *)

\* A transaction id is new, or one that the application already sent with
\* (the release of several PDN connections shares one).
AppSendInitial(type, tx) ==
  /\ Cardinality(Sent) + Cardinality(SendsPosted) < MaxSends
  /\ tx = NextTx \/ \E s \in Sent : tx = fate[s].tx
  /\ uid' = IF tx = NextTx THEN NextTx ELSE uid
  /\ mailbox' = Append(mailbox, SendInitialMsg(type, tx))
  /\ UNCHANGED <<seq_num, pending_procedures, gtpc_tx_id2seq_num,
                 msg_out_retry_timers, proc_cleanup_timers,
                 timer_id, clock, owed, fate>>

\* The application answers a request it was handed.
AppSendTriggered(tx) ==
  /\ ~Posted("SendTriggered", tx)
  /\ mailbox' = Append(mailbox, SendTriggeredMsg(tx))
  /\ UNCHANGED <<stack, timer_id, clock, owed, fate>>

------------------------------------------------------------------------------
(* UDP reader thread: handle_receive_message_cb *)

\* An initial message without a procedure: one is created.
NewPeerProcedure(type, seq) ==
  LET t == timer_id + 1
  IN /\ type \in InitialTypes
     /\ seq \notin DOMAIN pending_procedures
     /\ uid < MaxDeliveries
     /\ uid' = NextTx
     /\ timer_id' = t
     /\ clock' = StartCleanup(clock, t)
     /\ proc_cleanup_timers' = MapInsert(proc_cleanup_timers, t, seq)
     /\ pending_procedures' = MapInsert(pending_procedures, seq,
          NewProcedure(type, FALSE, 0, t))
     /\ gtpc_tx_id2seq_num' = MapInsert(gtpc_tx_id2seq_num, NextTx, seq)
     /\ UNCHANGED <<seq_num, msg_out_retry_timers, mailbox, fate>>

\* A request of the peer is handed to the application.
ReceiveInitial(type, seq) ==
  /\ NewPeerProcedure(type, seq)
  /\ owed' = MapInsert(owed, NextTx, seq)

\* An echo request without its recovery IE is ignored after that.
IgnoreEchoRequest(seq) ==
  /\ NewPeerProcedure(GTP_ECHO_REQUEST, seq)
  /\ UNCHANGED owed

\* Any other echo request is answered by the reader thread itself: of the
\* procedure only the entry of its clean-up timer is left.
ReceiveEchoRequest(seq) ==
  /\ seq \notin DOMAIN pending_procedures
  /\ uid < MaxDeliveries
  /\ uid' = NextTx
  /\ timer_id' = timer_id + 1
  /\ proc_cleanup_timers' = MapInsert(proc_cleanup_timers, timer_id + 1, seq)
  /\ UNCHANGED <<seq_num, pending_procedures, gtpc_tx_id2seq_num,
                 msg_out_retry_timers, clock, mailbox, owed, fate>>

\* A message for a procedure that is pending: only the message that answers
\* it (or follows its answer) is accepted; it stops the repetitions.
ReceiveTriggered(type, seq) ==
  LET p == pending_procedures[seq]
  IN /\ seq \in DOMAIN pending_procedures
     /\ IsTriggered(IF p.triggered = 0 THEN p.initial ELSE p.triggered, type)
     /\ pending_procedures' = MapAssign(pending_procedures, seq, Answered(p, type))
     /\ msg_out_retry_timers' = MapErase(msg_out_retry_timers, p.retry_timer)
     /\ clock' = TimerRemove(clock, p.retry_timer)
     /\ fate' = IF p.retry_msg
                THEN SetOutcome(seq, "answered") ELSE fate
     /\ UNCHANGED <<seq_num, uid, gtpc_tx_id2seq_num, proc_cleanup_timers,
                    timer_id, mailbox, owed>>

------------------------------------------------------------------------------
(* The task of the interface takes the first message of its mailbox *)

HeadIs(kind) == mailbox # <<>> /\ Head(mailbox).kind = kind

\* send_initial_message. The guard bounds the model: a number is used once by
\* this node, and is not one of those the peer uses for its requests.
TaskSendInitial ==
  LET m     == Head(mailbox)
      seq   == NextSeq
      retry == timer_id + 1
      clean == timer_id + 2
  IN /\ HeadIs("SendInitial")
     /\ seq \notin Sent \cup PeerSeqs
     /\ mailbox' = Tail(mailbox)
     /\ seq_num' = seq
     /\ timer_id' = clean
     /\ clock' = StartCleanup(StartRetry(clock, retry), clean)
     /\ msg_out_retry_timers' = MapInsert(msg_out_retry_timers, retry, seq)
     /\ proc_cleanup_timers' = MapInsert(proc_cleanup_timers, clean, seq)
     /\ pending_procedures' = MapInsert(pending_procedures, seq,
          NewProcedure(m.type, TRUE, retry, clean))
     /\ gtpc_tx_id2seq_num' = MapInsert(gtpc_tx_id2seq_num, m.id, seq)
     /\ fate' = MapInsert(fate, seq, Fate(m.id, "sent", 0))
     /\ UNCHANGED <<uid, owed>>

\* send_triggered_message with DELETE_TX. The timer id is erased from
\* msg_out_retry_timers, not from proc_cleanup_timers.
TaskSendTriggered ==
  LET tx  == Head(mailbox).id
      seq == gtpc_tx_id2seq_num[tx]
      p   == pending_procedures[seq]
  IN /\ HeadIs("SendTriggered")
     /\ mailbox' = Tail(mailbox)
     /\ owed' = MapErase(owed, tx)
     /\ gtpc_tx_id2seq_num' = MapErase(gtpc_tx_id2seq_num, tx)
     /\ IF tx \in DOMAIN gtpc_tx_id2seq_num /\ seq \in DOMAIN pending_procedures
        THEN /\ clock' = TimerRemove(clock, p.cleanup_timer)
             /\ msg_out_retry_timers' = MapErase(msg_out_retry_timers, p.cleanup_timer)
             /\ pending_procedures' = MapErase(pending_procedures, seq)
        ELSE UNCHANGED <<clock, msg_out_retry_timers, pending_procedures>>
     /\ UNCHANGED <<seq_num, uid, proc_cleanup_timers, timer_id, fate>>

\* time_out_event takes the TIME_OUT message of timer t.
TakeTimeOut(t) ==
  /\ HeadIs("TimeOut")
  /\ t = Head(mailbox).id
  /\ mailbox' = Tail(mailbox)

\* time_out_event, a retry timer with repetitions left: start_msg_retry_timer
\* and send again. Without a retry_msg the dereference would be undefined
\* behaviour: RetryTimerOwned says that it never comes to that.
RetryTimeOut(t) ==
  LET seq == msg_out_retry_timers[t]
      p   == pending_procedures[seq]
      new == timer_id + 1
  IN /\ TakeTimeOut(t)
     /\ t \in DOMAIN msg_out_retry_timers
     /\ seq \in DOMAIN pending_procedures
     /\ RetriesLeft(p)
     /\ p.retry_msg
     /\ timer_id' = new
     /\ clock' = StartRetry(MapErase(clock, t), new)
     /\ msg_out_retry_timers' =
          MapInsert(MapErase(msg_out_retry_timers, t), new, seq)
     /\ pending_procedures' = MapAssign(pending_procedures, seq, Repeated(p, new))
     /\ fate' = MapAssign(fate, seq,
          Fate(fate[seq].tx, fate[seq].outcome, fate[seq].tries + 1))
     /\ UNCHANGED <<seq_num, uid, gtpc_tx_id2seq_num, proc_cleanup_timers, owed>>

\* time_out_event, repetitions spent: notify_ul_error and delete the procedure.
AbortTimeOut(t) ==
  LET seq == msg_out_retry_timers[t]
  IN /\ TakeTimeOut(t)
     /\ t \in DOMAIN msg_out_retry_timers
     /\ seq \in DOMAIN pending_procedures
     /\ ~RetriesLeft(pending_procedures[seq])
     /\ clock' = MapErase(clock, t)
     /\ msg_out_retry_timers' = MapErase(msg_out_retry_timers, t)
     /\ pending_procedures' = MapErase(pending_procedures, seq)
     /\ fate' = SetOutcome(seq, "failed")
     /\ UNCHANGED <<seq_num, uid, gtpc_tx_id2seq_num, proc_cleanup_timers,
                    timer_id, owed>>

\* time_out_event, a clean-up timer: the procedure found under the sequence
\* number is deleted without a word to the application.
CleanupTimeOut(t) ==
  LET seq == proc_cleanup_timers[t]
  IN /\ TakeTimeOut(t)
     /\ t \notin DOMAIN msg_out_retry_timers
     /\ t \in DOMAIN proc_cleanup_timers
     /\ clock' = MapErase(clock, t)
     /\ proc_cleanup_timers' = MapErase(proc_cleanup_timers, t)
     /\ pending_procedures' = MapErase(pending_procedures, seq)
     /\ fate' = IF seq \in Sent \cap DOMAIN pending_procedures
                   /\ fate[seq].outcome = "sent"
                THEN SetOutcome(seq, "abandoned") ELSE fate
     /\ UNCHANGED <<seq_num, uid, gtpc_tx_id2seq_num, msg_out_retry_timers,
                    timer_id, owed>>

\* time_out_event of a timer without a procedure, or in neither table.
StaleTimeOut(t) ==
  /\ TakeTimeOut(t)
  /\ \/ /\ t \in DOMAIN msg_out_retry_timers
        /\ msg_out_retry_timers[t] \notin DOMAIN pending_procedures
     \/ t \notin DOMAIN msg_out_retry_timers \cup DOMAIN proc_cleanup_timers
  /\ clock' = MapErase(clock, t)
  /\ msg_out_retry_timers' = MapErase(msg_out_retry_timers, t)
  /\ UNCHANGED <<seq_num, uid, pending_procedures, gtpc_tx_id2seq_num,
                 proc_cleanup_timers, timer_id, owed, fate>>

------------------------------------------------------------------------------
TimeOut(t) ==
  RetryTimeOut(t) \/ AbortTimeOut(t) \/ CleanupTimeOut(t) \/ StaleTimeOut(t)

Task ==
  TaskSendInitial \/ TaskSendTriggered \/ TimeOut(Head(mailbox).id)

Receive ==
  \/ \E type \in PeerTypes, seq \in PeerSeqs : ReceiveInitial(type, seq)
  \/ \E seq \in PeerSeqs : ReceiveEchoRequest(seq) \/ IgnoreEchoRequest(seq)
  \/ \E type \in ReplyTypes, seq \in Sent : ReceiveTriggered(type, seq)

App ==
  \/ \E type \in LocalTypes, tx \in 1 .. NextTx : AppSendInitial(type, tx)
  \/ \E tx \in DOMAIN owed : AppSendTriggered(tx)

TimerThread == \E t \in DOMAIN clock : Fire(t)

Next == Tick \/ TimerThread \/ App \/ Receive \/ Task

Spec == Init /\ [][Next]_vars

\* Time passes, the timer thread runs, and the task serves its mailbox. The
\* application and the peer owe nothing.
Fairness == WF_vars(Tick) /\ WF_vars(TimerThread) /\ WF_vars(Task)

FairSpec == Spec /\ Fairness

------------------------------------------------------------------------------
(* Properties *)

ProceduresTyped ==
  \A s \in DOMAIN pending_procedures :
    s \in SeqNums /\ pending_procedures[s] \in Procedure

TxTyped ==
  /\ uid \in Nat
  /\ \A x \in DOMAIN gtpc_tx_id2seq_num :
       x \in 1 .. uid /\ gtpc_tx_id2seq_num[x] \in SeqNums
  /\ \A x \in DOMAIN owed : x \in 1 .. uid /\ owed[x] \in PeerSeqs

TimersTyped ==
  /\ timer_id \in Nat
  /\ \A t \in DOMAIN msg_out_retry_timers :
       t \in 1 .. timer_id /\ msg_out_retry_timers[t] \in SeqNums
  /\ \A t \in DOMAIN proc_cleanup_timers :
       t \in 1 .. timer_id /\ proc_cleanup_timers[t] \in SeqNums
  /\ \A t \in DOMAIN clock : t \in 1 .. timer_id /\ clock[t] \in Int

Message == [kind : {"SendInitial", "SendTriggered", "TimeOut"}, type : Nat, id : Nat]

MailboxTyped ==
  /\ mailbox \in Seq(Message)
  /\ \A i \in 1 .. Len(mailbox) :
       mailbox[i].kind = "SendInitial" => mailbox[i].id \in 1 .. uid

FateTyped ==
  \A s \in Sent :
    /\ s \in SeqNums
    /\ fate[s] \in [tx : 1 .. uid, tries : Nat,
                    outcome : {"sent", "answered", "failed", "abandoned"}]

\* The tables hold what gtpv2c.hpp declares, and no number was made up: timer
\* ids and transaction ids in them were given out before.
TypeOK ==
  /\ seq_num \in SeqNums
  /\ ProceduresTyped /\ TxTyped /\ TimersTyped /\ MailboxTyped /\ FateTyped

\* A running retry timer belongs to the procedure found under its number, and
\* that procedure has a message to send again (no null retry_msg).
RetryTimerOwned ==
  \A t \in DOMAIN msg_out_retry_timers :
    LET seq == msg_out_retry_timers[t] IN
      seq \in DOMAIN pending_procedures =>
        /\ pending_procedures[seq].retry_timer = t
        /\ pending_procedures[seq].retry_msg

\* A request the application was handed can be answered with its own sequence
\* number as long as the application owes the answer, even when its procedure
\* was cleaned up meanwhile.
AnswerKeepsNumber ==
  \A x \in DOMAIN owed :
    x \in DOMAIN gtpc_tx_id2seq_num /\ gtpc_tx_id2seq_num[x] = owed[x]

------------------------------------------------------------------------------
(* The inductive invariant: TypeOK and the parts below *)

\* No time-out and no answer is twice in the task's mailbox; a posted TIME_OUT
\* is of an expired timer, a posted answer is still owed.
NoDuplicates ==
  \A i, j \in 1 .. Len(mailbox) :
    /\ mailbox[i].kind = mailbox[j].kind
    /\ mailbox[i].id = mailbox[j].id
    /\ mailbox[i].kind # "SendInitial"
    => i = j
MailboxOK ==
  /\ NoDuplicates
  /\ \A i \in 1 .. Len(mailbox) :
       /\ mailbox[i].kind = "TimeOut" =>
            mailbox[i].id \in DOMAIN clock /\ clock[mailbox[i].id] <= 0
       /\ mailbox[i].kind = "SendTriggered" => mailbox[i].id \in DOMAIN owed

\* Requests of this node and of the peer do not meet in the tables.
NumbersApart ==
  /\ Sent \cap PeerSeqs = {}
  /\ DOMAIN pending_procedures \subseteq Sent \cup PeerSeqs
  /\ \A t \in DOMAIN msg_out_retry_timers : msg_out_retry_timers[t] \in Sent
  /\ \A t \in DOMAIN proc_cleanup_timers :
       proc_cleanup_timers[t] \in Sent \cup PeerSeqs
  /\ DOMAIN msg_out_retry_timers \cap DOMAIN proc_cleanup_timers = {}

\* The timers of a procedure are in the tables, under its number.
ProcedureTimers ==
  /\ \A s \in DOMAIN pending_procedures :
       LET p == pending_procedures[s] IN
         /\ p.cleanup_timer \in DOMAIN proc_cleanup_timers
         /\ proc_cleanup_timers[p.cleanup_timer] = s
         /\ p.retry_msg <=> s \in Sent
         /\ s \in PeerSeqs => p.retry_timer = 0
         /\ p.retry_timer # 0 => /\ p.retry_timer \in DOMAIN msg_out_retry_timers
                                /\ msg_out_retry_timers[p.retry_timer] = s
  /\ \A t \in DOMAIN proc_cleanup_timers :
       LET seq == proc_cleanup_timers[t] IN
         seq \in Sent \cap DOMAIN pending_procedures =>
           pending_procedures[seq].cleanup_timer = t

\* What a clean-up timer has left beyond a retry timer that was started for
\* the c-th repetition: each time-out so far was handled at most LATENESS late.
Slack(c) == (N3 - c) * T3 + MARGIN - c * LATENESS

\* A request that is open is pending with both timers running, and the
\* clean-up timer cannot expire before the repetitions are spent.
OpenRequest(s) ==
  /\ s \in DOMAIN pending_procedures
  /\ LET p == pending_procedures[s] IN
       /\ p.retry_timer # 0
       /\ p.retry_timer \in DOMAIN clock
       /\ p.cleanup_timer \in DOMAIN clock
       /\ p.retry_count = fate[s].tries
       /\ p.retry_count <= N3
       /\ clock[p.cleanup_timer] >= clock[p.retry_timer] + Slack(p.retry_count)
OpenRequests == \A s \in Sent : fate[s].outcome = "sent" => OpenRequest(s)

\* A request that is closed was answered, and is not repeated, or failed.
ClosedRequests ==
  \A s \in Sent : fate[s].outcome # "sent" =>
    /\ fate[s].outcome \in {"answered", "failed"}
    /\ s \in DOMAIN pending_procedures =>
         /\ fate[s].outcome = "answered"
         /\ pending_procedures[s].retry_timer = 0

\* No time-out is handled later than LATENESS.
ClockOK == \A t \in DOMAIN clock : clock[t] >= -LATENESS

IInv ==
  /\ TypeOK /\ MailboxOK /\ NumbersApart /\ ProcedureTimers /\ RetryTimerOwned
  /\ AnswerKeepsNumber /\ OpenRequests /\ ClosedRequests /\ ClockOK

------------------------------------------------------------------------------
\* A clean-up time-out deletes the procedure that set up that timer, never a
\* later one with the same number.
CleanupOnlyOwn ==
  [][\A t \in DOMAIN clock : CleanupTimeOut(t) =>
       \A s \in DOMAIN pending_procedures \ DOMAIN pending_procedures' :
         pending_procedures[s].cleanup_timer = t]_vars

\* No procedure stays pending: what the application or the peer never
\* answers is cleaned up.
ProceduresEnd ==
  \A s \in SeqNums : []<>(s \notin DOMAIN pending_procedures)

RR == INSTANCE RequestReply WITH
        Requests <- SeqNums,
        fate <- [s \in Sent |-> [outcome |-> fate[s].outcome,
                                tries |-> fate[s].tries]]

\* The stack keeps the promise of RequestReply ...
RequestReplySafe == RR!Spec
\* ... and every request is closed.
RequestReplyLive == RR!FairSpec

==============================================================================
