------------------------------- MODULE PfcpStack ------------------------------
(***************************************************************************)
(* pfcp_l4_stack (oai-spgwc/src/pfcp) as pgwc_sxab uses it: the transaction *)
(* layer under the Sxab interface of PGW-C. It is gtpv2c_stack over again,  *)
(* with one difference that changes everything: no TIME_OUT reaches its     *)
(* time_out_event. The task dispatches TIME_OUT messages by their argument, *)
(* which is 0 for the timers of the stack, to initiate_heartbeat_request,   *)
(* and that finds no association with the hash 0. So the two timer tables,  *)
(* which only time_out_event reads, are left out; the procedures are not.   *)
(*                                                                         *)
(* The numbers of the peer's requests and of this node's may meet.          *)
(***************************************************************************)
EXTENDS Integers, FiniteSets, StdMap

CONSTANTS
  SEQ_MODULUS,       \* sequence numbers are 0 .. SEQ_MODULUS-1 (2^24 on the wire)
  InitSeqs,          \* the values seq_num may start with (the clock's nanoseconds)
  PeerSeqs,          \* the sequence numbers of the peer's own requests
  LocalTypes,        \* the requests this node sends
  PeerTypes,         \* the requests the peer sends
  PFCP_N1_REQUESTS,  \* the number of repetitions the stack allows
  MaxSends,          \* bound: requests sent by this node
  MaxDeliveries      \* bound: requests of the peer handed over

PFCP_VERSION_NOT_SUPPORTED_RESPONSE == 11

\* check_response_type knows these requests. check_request_type accepts the
\* responses 13 and 57 as well, but nothing hands those to PGW-C's stack.
RequestTypes == {1, 3, 5, 7, 9, 12, 50, 52, 54, 56}

\* check_response_type
IsResponse(initial, triggered) ==
  \/ initial \in RequestTypes /\ triggered = initial + 1
  \/ initial \notin RequestTypes /\ triggered = PFCP_VERSION_NOT_SUPPORTED_RESPONSE

SeqNums == 0 .. SEQ_MODULUS - 1

ASSUME ConstantsAssumption ==
  /\ SEQ_MODULUS \in Nat \ {0} /\ PFCP_N1_REQUESTS \in Nat
  /\ InitSeqs \cup PeerSeqs \subseteq SeqNums
  /\ LocalTypes \cup PeerTypes \subseteq RequestTypes
  /\ MaxSends \in Nat /\ MaxDeliveries \in Nat

VARIABLES
  seq_num,             \* the last sequence number used by this node
  uid,                 \* the last transaction id generated
  pending_procedures,  \* map: sequence number -> pfcp_procedure
  trxn_id2seq_num,     \* map: transaction id -> sequence number
  timer_id,            \* ITTI: the last timer id given
  timers,              \* ITTI: the timers that run
  owed,                \* requests of the peer that await a response, by trxn
  fate,                \* history: how each request of this node stands, by trxn
  shadowed             \* history: requests sent under a number that was pending

vars == <<seq_num, uid, pending_procedures, trxn_id2seq_num, timer_id, timers,
          owed, fate, shadowed>>

NextSeq == (seq_num + 1) % SEQ_MODULUS

\* Mutant: the generator gives its last value again.
NextTrxnStuck == uid

\* generate_trxn_id
NextTrxn == uid + 1

Procedure(trxn, type, retry, cleanup) ==
  [trxn_id |-> trxn, initial |-> type, triggered |-> 0,
   retry_timer |-> retry, cleanup_timer |-> cleanup]

\* Mutants: a procedure that is pending is overwritten; any response is taken.
AddProcedureOverwrites(seq, p) == MapAssign(pending_procedures, seq, p)
AcceptsAgain(p, type) == IsResponse(p.initial, type)

\* pending_procedures.insert
AddProcedure(seq, p) == MapInsert(pending_procedures, seq, p)

\* Once a response was taken, the next one has to be a response to that.
Accepts(p, type) == IsResponse(IF p.triggered = 0 THEN p.initial ELSE p.triggered, type)

Init ==
  /\ seq_num \in InitSeqs
  /\ uid = 0 /\ timer_id = 0
  /\ pending_procedures = EmptyMap
  /\ trxn_id2seq_num = EmptyMap
  /\ timers = {}
  /\ owed = EmptyMap /\ fate = EmptyMap /\ shadowed = {}

\* send_request
SendRequest(type) ==
  LET seq == NextSeq
  IN /\ Cardinality(DOMAIN fate) < MaxSends
     /\ seq_num' = seq
     /\ uid' = NextTrxn
     /\ timer_id' = timer_id + 2
     /\ timers' = timers \cup {timer_id + 1, timer_id + 2}
     /\ pending_procedures' =
          AddProcedure(seq, Procedure(NextTrxn, type, timer_id + 1, timer_id + 2))
     /\ trxn_id2seq_num' = MapInsert(trxn_id2seq_num, NextTrxn, seq)
     /\ fate' = MapInsert(fate, NextTrxn, "sent")
     /\ shadowed' = IF seq \in DOMAIN pending_procedures
                    THEN shadowed \cup {NextTrxn} ELSE shadowed
     /\ UNCHANGED owed

\* handle_receive_message_cb of a request: one that is pending, or whose number
\* this node has used itself, is discarded.
ReceiveRequest(type, seq) ==
  /\ seq \notin DOMAIN pending_procedures
  /\ uid - Cardinality(DOMAIN fate) < MaxDeliveries
  /\ uid' = NextTrxn
  /\ timer_id' = timer_id + 1
  /\ timers' = timers \cup {timer_id + 1}
  /\ pending_procedures' = AddProcedure(seq, Procedure(NextTrxn, type, 0, timer_id + 1))
  /\ trxn_id2seq_num' = MapInsert(trxn_id2seq_num, NextTrxn, seq)
  /\ owed' = MapInsert(owed, NextTrxn, seq)
  /\ UNCHANGED <<seq_num, fate, shadowed>>

\* handle_receive_message_cb of a response. The procedure stays. It may be one
\* of the peer, when this node sent a request under the same number.
ReceiveResponse(type, seq) ==
  LET p == pending_procedures[seq]
  IN /\ seq \in DOMAIN pending_procedures
     /\ Accepts(p, type)
     /\ pending_procedures' = [pending_procedures EXCEPT
          ![seq].triggered = IF @ = 0 THEN type ELSE @, ![seq].retry_timer = 0]
     /\ timers' = timers \ {p.retry_timer}
     /\ fate' = IF p.trxn_id \in DOMAIN fate
                THEN MapAssign(fate, p.trxn_id,
                       IF fate[p.trxn_id] = "sent" THEN "answered" ELSE "answered again")
                ELSE fate
     /\ UNCHANGED <<seq_num, uid, trxn_id2seq_num, timer_id, owed, shadowed>>

\* send_response with DELETE_TX, by the task or (heartbeat, association setup)
\* by the reader that has just received the request.
SendResponse(trxn) ==
  LET seq == trxn_id2seq_num[trxn]
  IN /\ trxn \in DOMAIN trxn_id2seq_num
     /\ owed' = MapErase(owed, trxn)
     /\ trxn_id2seq_num' = MapErase(trxn_id2seq_num, trxn)
     /\ pending_procedures' = MapErase(pending_procedures, seq)
     /\ timers' = IF seq \in DOMAIN pending_procedures
                  THEN timers \ {pending_procedures[seq].cleanup_timer} ELSE timers
     /\ UNCHANGED <<seq_num, uid, timer_id, fate, shadowed>>

\* The task takes the TIME_OUT of a timer of the stack.
TimeOut(t) ==
  /\ timers' = timers \ {t}
  /\ UNCHANGED <<seq_num, uid, pending_procedures, trxn_id2seq_num, timer_id,
                 owed, fate, shadowed>>

Timers == \E t \in timers : TimeOut(t)

Next ==
  \/ \E type \in LocalTypes : SendRequest(type)
  \/ \E type \in PeerTypes, seq \in PeerSeqs : ReceiveRequest(type, seq)
  \/ \E request \in LocalTypes, seq \in SeqNums : ReceiveResponse(request + 1, seq)
  \/ \E trxn \in DOMAIN owed : SendResponse(trxn)
  \/ Timers

Spec == Init /\ [][Next]_vars

\* Timers expire and the task takes the TIME_OUT messages. Nobody has to answer.
FairSpec == Spec /\ WF_vars(Timers)

------------------------------------------------------------------------------
(* Properties *)

TypeOK ==
  /\ seq_num \in SeqNums
  /\ \A s \in DOMAIN pending_procedures :
       s \in SeqNums /\
       pending_procedures[s] \in [trxn_id : 1 .. uid, initial : RequestTypes,
                                  triggered : {0} \cup {r + 1 : r \in RequestTypes},
                                  retry_timer : 0 .. timer_id, cleanup_timer : 1 .. timer_id]
  /\ \A x \in DOMAIN trxn_id2seq_num : x \in 1 .. uid /\ trxn_id2seq_num[x] \in SeqNums
  /\ timers \subseteq 1 .. timer_id
  /\ DOMAIN owed \subseteq 1 .. uid /\ DOMAIN fate \subseteq 1 .. uid
  /\ DOMAIN owed \cap DOMAIN fate = {}

\* A request of this node can be answered until it is: its procedure is found
\* under its number, unless that number was taken when it was sent - by a
\* request of the peer, or by one of this node SEQ_MODULUS requests ago.
OpenRequestAnswerable ==
  \A x \in DOMAIN fate \ shadowed :
    fate[x] = "sent" =>
      /\ trxn_id2seq_num[x] \in DOMAIN pending_procedures
      /\ pending_procedures[trxn_id2seq_num[x]].trxn_id = x
      /\ pending_procedures[trxn_id2seq_num[x]].triggered = 0

RR == INSTANCE RequestReply WITH
        Requests <- 1 .. MaxSends + MaxDeliveries,
        N3 <- PFCP_N1_REQUESTS,
        fate <- [x \in DOMAIN fate |-> [outcome |-> fate[x], tries |-> 0]]

\* A request ends at most once, with its answer: a second response to it is
\* discarded.
RequestReplySafe == RR!Spec

\* A request that is not answered is sent again, and reported in the end
\* (time_out_event: "send again message", "abort procedure").
RequestReplyLive == RR!FairSpec

==============================================================================
