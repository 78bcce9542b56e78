-------------------------------- MODULE PfcpProofs --------------------------------
(***************************************************************************)
(* Proofs about the PFCP stack of PGW-C (PfcpStack) for every value of its   *)
(* constants, and about the associations it keeps with the user plane nodes *)
(* (PfcpAssociations) for every set of nodes, every number of retries and   *)
(* every bound.                                                             *)
(***************************************************************************)
EXTENDS PfcpStack, PfcpAssociations, FiniteSetTheorems, TLAPS

-----------------------------------------------------------------------------
(* PfcpStack *)

\* A transaction is one of this node or one of the peer that awaits a
\* response, and has its sequence number as long as it exists.
TransactionsOK ==
  /\ uid \in Nat /\ timer_id \in Nat
  /\ DOMAIN trxn_id2seq_num = DOMAIN owed \cup DOMAIN fate
  /\ fate \in [DOMAIN fate -> {"sent", "answered"}]

\* A procedure is found by its own transaction only; it has its response
\* exactly when the request is answered.
ProceduresOwned ==
  \A s \in DOMAIN pending_procedures :
    LET p == pending_procedures[s] IN
      /\ p.trxn_id \in DOMAIN trxn_id2seq_num
      /\ trxn_id2seq_num[p.trxn_id] = s
      /\ p.trxn_id \in DOMAIN fate => (p.triggered = 0 <=> fate[p.trxn_id] = "sent")

\* A request of the peer is pending until it is responded to.
OwedPending ==
  \A x \in DOMAIN owed :
    /\ trxn_id2seq_num[x] \in DOMAIN pending_procedures
    /\ pending_procedures[trxn_id2seq_num[x]].trxn_id = x

\* The bounds of the model, which keep the transaction ids in theirs.
BoundsOK ==
  /\ IsFiniteSet(DOMAIN fate)
  /\ Cardinality(DOMAIN fate) <= MaxSends
  /\ uid - Cardinality(DOMAIN fate) <= MaxDeliveries

IInv ==
  /\ TypeOK /\ TransactionsOK /\ ProceduresOwned /\ OwedPending
  /\ OpenRequestAnswerable /\ BoundsOK

LEMMA InvInit == Init => IInv
<1> SUFFICES ASSUME Init PROVE IInv
  OBVIOUS
<1>1. /\ DOMAIN pending_procedures = {} /\ DOMAIN trxn_id2seq_num = {}
      /\ DOMAIN owed = {} /\ DOMAIN fate = {}
      /\ timers = {} /\ uid = 0 /\ timer_id = 0 /\ seq_num \in SeqNums
  BY ConstantsAssumption DEF Init, EmptyMap
<1>2. TypeOK
  BY <1>1 DEF TypeOK
<1>3. TransactionsOK
  BY <1>1 DEF TransactionsOK, Init, EmptyMap
<1>4. ProceduresOwned /\ OwedPending /\ OpenRequestAnswerable
  BY <1>1 DEF ProceduresOwned, OwedPending, OpenRequestAnswerable
<1>5. BoundsOK
  BY <1>1, FS_EmptySet, ConstantsAssumption DEF BoundsOK
<1> QED
  BY <1>2, <1>3, <1>4, <1>5 DEF IInv

\* A response type is no request type, and answers one request type only: a
\* procedure that has its response accepts no other.
LEMMA AnsweredIsClosed ==
  ASSUME NEW request \in LocalTypes, NEW p,
         p.triggered \in {0} \cup {r + 1 : r \in RequestTypes},
         Accepts(p, request + 1)
  PROVE  p.triggered = 0
<1>1. request \in RequestTypes
  BY ConstantsAssumption
<1>2. \A r \in RequestTypes : r + 1 \notin RequestTypes /\ r + 1 # PFCP_VERSION_NOT_SUPPORTED_RESPONSE
  BY DEF RequestTypes, PFCP_VERSION_NOT_SUPPORTED_RESPONSE
<1> QED
  BY <1>1, <1>2 DEF Accepts, IsResponse

\* The number after the last one is a sequence number.
LEMMA NextSeqTyped ==
  ASSUME seq_num \in SeqNums
  PROVE  NextSeq \in SeqNums
  BY ConstantsAssumption DEF NextSeq, SeqNums

LEMMA SendRequestStep ==
  ASSUME IInv, NEW type \in LocalTypes, SendRequest(type)
  PROVE  IInv'
<1> PICK seq, x : seq = NextSeq /\ x = uid + 1
  OBVIOUS
<1>t. /\ TypeOK /\ TransactionsOK /\ ProceduresOwned /\ OwedPending
      /\ OpenRequestAnswerable /\ BoundsOK
      /\ uid \in Nat /\ timer_id \in Nat /\ type \in RequestTypes /\ seq \in SeqNums
  BY ConstantsAssumption, NextSeqTyped DEF IInv, TransactionsOK, TypeOK
<1>n. x \notin DOMAIN owed \cup DOMAIN fate /\ x \in 1 .. uid'
  BY <1>t DEF TypeOK, SendRequest, NextTrxn
<1>1. /\ seq_num' = seq /\ uid' = x /\ timer_id' = timer_id + 2
      /\ timers' = timers \cup {timer_id + 1, timer_id + 2}
      /\ owed' = owed
  BY DEF SendRequest, NextTrxn
<1>2. /\ DOMAIN pending_procedures' = DOMAIN pending_procedures \cup {seq}
      /\ \A s \in DOMAIN pending_procedures : pending_procedures'[s] = pending_procedures[s]
      /\ seq \notin DOMAIN pending_procedures =>
           pending_procedures'[seq] = Procedure(x, type, timer_id + 1, timer_id + 2)
  BY DEF SendRequest, AddProcedure, MapInsert, NextTrxn
<1>3. /\ DOMAIN trxn_id2seq_num' = DOMAIN trxn_id2seq_num \cup {x}
      /\ trxn_id2seq_num'[x] = seq
      /\ \A y \in DOMAIN trxn_id2seq_num : trxn_id2seq_num'[y] = trxn_id2seq_num[y]
  BY <1>t, <1>n DEF SendRequest, MapInsert, NextTrxn, TransactionsOK
<1>4. /\ DOMAIN fate' = DOMAIN fate \cup {x} /\ fate'[x] = "sent"
      /\ \A y \in DOMAIN fate : fate'[y] = fate[y]
      /\ fate' = [y \in DOMAIN fate' |-> fate'[y]]
  BY <1>n DEF SendRequest, MapInsert, NextTrxn
<1>5. shadowed' = IF seq \in DOMAIN pending_procedures THEN shadowed \cup {x} ELSE shadowed
  BY DEF SendRequest, NextTrxn
<1>6. TypeOK'
  <2>1. Procedure(x, type, timer_id + 1, timer_id + 2)
          \in [trxn_id : 1 .. uid', initial : RequestTypes,
               triggered : {0} \cup {r + 1 : r \in RequestTypes},
               retry_timer : 0 .. timer_id', cleanup_timer : 1 .. timer_id']
    BY <1>t, <1>n, <1>1 DEF Procedure
  <2>2. ASSUME NEW s \in DOMAIN pending_procedures'
        PROVE  s \in SeqNums /\
               pending_procedures'[s] \in [trxn_id : 1 .. uid', initial : RequestTypes,
                                  triggered : {0} \cup {r + 1 : r \in RequestTypes},
                                  retry_timer : 0 .. timer_id', cleanup_timer : 1 .. timer_id']
    <3>1. CASE s \in DOMAIN pending_procedures
      <4>1. pending_procedures[s] \in [trxn_id : 1 .. uid, initial : RequestTypes,
                                  triggered : {0} \cup {r + 1 : r \in RequestTypes},
                                  retry_timer : 0 .. timer_id, cleanup_timer : 1 .. timer_id]
        BY <1>t, <3>1 DEF TypeOK
      <4>2. 1 .. uid \subseteq 1 .. uid' /\ 0 .. timer_id \subseteq 0 .. timer_id'
            /\ 1 .. timer_id \subseteq 1 .. timer_id'
        BY <1>t, <1>1
      <4> QED
        BY <1>t, <1>2, <3>1, <4>1, <4>2 DEF TypeOK
    <3>2. CASE s \notin DOMAIN pending_procedures
      BY <1>t, <1>2, <2>1, <2>2, <3>2
    <3> QED
      BY <3>1, <3>2
  <2>3. /\ \A y \in DOMAIN trxn_id2seq_num' : y \in 1 .. uid' /\ trxn_id2seq_num'[y] \in SeqNums
        /\ timers' \subseteq 1 .. timer_id'
        /\ DOMAIN owed' \subseteq 1 .. uid' /\ DOMAIN fate' \subseteq 1 .. uid'
        /\ DOMAIN owed' \cap DOMAIN fate' = {}
    BY <1>t, <1>n, <1>1, <1>3, <1>4 DEF TypeOK
  <2> QED
    BY <1>t, <1>1, <2>2, <2>3 DEF TypeOK
<1>7. TransactionsOK'
  <2>1. \A y \in DOMAIN fate' : fate'[y] \in {"sent", "answered"}
    BY <1>t, <1>4 DEF TransactionsOK
  <2>2. fate' \in [DOMAIN fate' -> {"sent", "answered"}]
    BY <1>4, <2>1
  <2> QED
    BY <1>t, <1>1, <1>3, <1>4, <2>2 DEF TransactionsOK
<1>8. ProceduresOwned'
  BY <1>t, <1>n, <1>2, <1>3, <1>4 DEF ProceduresOwned, Procedure, TransactionsOK
<1>9. OwedPending'
  BY <1>t, <1>1, <1>2, <1>3 DEF OwedPending, TransactionsOK
<1>10. OpenRequestAnswerable'
  <2> SUFFICES ASSUME NEW y \in DOMAIN fate' \ shadowed', fate'[y] = "sent"
               PROVE  /\ trxn_id2seq_num'[y] \in DOMAIN pending_procedures'
                      /\ pending_procedures'[trxn_id2seq_num'[y]].trxn_id = y
                      /\ pending_procedures'[trxn_id2seq_num'[y]].triggered = 0
    BY DEF OpenRequestAnswerable
  <2>1. CASE y = x
    BY <1>2, <1>3, <1>5, <2>1 DEF Procedure
  <2>2. CASE y \in DOMAIN fate
    BY <1>t, <1>2, <1>3, <1>4, <1>5, <2>2 DEF OpenRequestAnswerable, TransactionsOK
  <2> QED
    BY <1>4, <2>1, <2>2
<1>11. BoundsOK'
  <2>1. IsFiniteSet(DOMAIN fate') /\ Cardinality(DOMAIN fate') = Cardinality(DOMAIN fate) + 1
    BY <1>t, <1>n, <1>4, FS_AddElement DEF BoundsOK
  <2>2. Cardinality(DOMAIN fate) \in Nat /\ Cardinality(DOMAIN fate) < MaxSends
    BY <1>t, FS_CardinalityType DEF BoundsOK, SendRequest
  <2> QED
    BY <1>t, <1>1, <2>1, <2>2, ConstantsAssumption DEF BoundsOK
<1> QED
  BY <1>6, <1>7, <1>8, <1>9, <1>10, <1>11 DEF IInv

LEMMA ReceiveRequestStep ==
  ASSUME IInv, NEW type \in PeerTypes, NEW seq \in PeerSeqs, ReceiveRequest(type, seq)
  PROVE  IInv'
<1> PICK x : x = uid + 1
  OBVIOUS
<1>t. /\ TypeOK /\ TransactionsOK /\ ProceduresOwned /\ OwedPending
      /\ OpenRequestAnswerable /\ BoundsOK
      /\ uid \in Nat /\ timer_id \in Nat /\ type \in RequestTypes /\ seq \in SeqNums
  BY ConstantsAssumption DEF IInv, TransactionsOK
<1>n. x \notin DOMAIN owed \cup DOMAIN fate /\ x \in 1 .. uid'
  BY <1>t DEF TypeOK, ReceiveRequest, NextTrxn
<1>1. /\ uid' = x /\ timer_id' = timer_id + 1
      /\ timers' = timers \cup {timer_id + 1}
      /\ UNCHANGED <<seq_num, fate, shadowed>>
      /\ seq \notin DOMAIN pending_procedures
  BY DEF ReceiveRequest, NextTrxn
<1>2. /\ DOMAIN pending_procedures' = DOMAIN pending_procedures \cup {seq}
      /\ \A s \in DOMAIN pending_procedures : pending_procedures'[s] = pending_procedures[s]
      /\ pending_procedures'[seq] = Procedure(x, type, 0, timer_id + 1)
  BY <1>1 DEF ReceiveRequest, AddProcedure, MapInsert, NextTrxn
<1>3. /\ DOMAIN trxn_id2seq_num' = DOMAIN trxn_id2seq_num \cup {x}
      /\ trxn_id2seq_num'[x] = seq
      /\ \A y \in DOMAIN trxn_id2seq_num : trxn_id2seq_num'[y] = trxn_id2seq_num[y]
  BY <1>t, <1>n DEF ReceiveRequest, MapInsert, NextTrxn, TransactionsOK
<1>4. DOMAIN owed' = DOMAIN owed \cup {x}
  BY DEF ReceiveRequest, MapInsert, NextTrxn
<1>6. TypeOK'
  <2>1. Procedure(x, type, 0, timer_id + 1)
          \in [trxn_id : 1 .. uid', initial : RequestTypes,
               triggered : {0} \cup {r + 1 : r \in RequestTypes},
               retry_timer : 0 .. timer_id', cleanup_timer : 1 .. timer_id']
    BY <1>t, <1>n, <1>1 DEF Procedure
  <2>2. ASSUME NEW s \in DOMAIN pending_procedures'
        PROVE  s \in SeqNums /\
               pending_procedures'[s] \in [trxn_id : 1 .. uid', initial : RequestTypes,
                                  triggered : {0} \cup {r + 1 : r \in RequestTypes},
                                  retry_timer : 0 .. timer_id', cleanup_timer : 1 .. timer_id']
    <3>1. CASE s \in DOMAIN pending_procedures
      <4>1. pending_procedures[s] \in [trxn_id : 1 .. uid, initial : RequestTypes,
                                  triggered : {0} \cup {r + 1 : r \in RequestTypes},
                                  retry_timer : 0 .. timer_id, cleanup_timer : 1 .. timer_id]
        BY <1>t, <3>1 DEF TypeOK
      <4>2. 1 .. uid \subseteq 1 .. uid' /\ 0 .. timer_id \subseteq 0 .. timer_id'
            /\ 1 .. timer_id \subseteq 1 .. timer_id'
        BY <1>t, <1>1
      <4> QED
        BY <1>t, <1>2, <3>1, <4>1, <4>2 DEF TypeOK
    <3>2. CASE s \notin DOMAIN pending_procedures
      BY <1>t, <1>2, <2>1, <2>2, <3>2
    <3> QED
      BY <3>1, <3>2
  <2>3. /\ \A y \in DOMAIN trxn_id2seq_num' : y \in 1 .. uid' /\ trxn_id2seq_num'[y] \in SeqNums
        /\ timers' \subseteq 1 .. timer_id'
        /\ DOMAIN owed' \subseteq 1 .. uid' /\ DOMAIN fate' \subseteq 1 .. uid'
        /\ DOMAIN owed' \cap DOMAIN fate' = {}
    <3>1. \A i \in 1 .. uid : i \in 1 .. uid'
      BY <1>t, <1>1
    <3>2. ASSUME NEW y \in DOMAIN trxn_id2seq_num'
          PROVE  y \in 1 .. uid' /\ trxn_id2seq_num'[y] \in SeqNums
      <4>1. CASE y = x
        BY <1>t, <1>n, <1>3, <4>1
      <4>2. CASE y \in DOMAIN trxn_id2seq_num
        BY <1>t, <1>3, <3>1, <4>2 DEF TypeOK
      <4> QED
        BY <1>3, <4>1, <4>2
    <3>3. timers' \subseteq 1 .. timer_id'
      <4>1. timers \subseteq 1 .. timer_id
        BY <1>t DEF TypeOK
      <4>2. \A i \in 1 .. timer_id : i \in 1 .. (timer_id + 1)
        BY <1>t
      <4>3. timer_id + 1 \in 1 .. (timer_id + 1)
        BY <1>t
      <4> QED
        BY <1>1, <4>1, <4>2, <4>3
    <3>4. DOMAIN owed' \subseteq 1 .. uid' /\ DOMAIN fate' \subseteq 1 .. uid'
      BY <1>t, <1>n, <1>1, <1>4, <3>1 DEF TypeOK
    <3>5. DOMAIN owed' \cap DOMAIN fate' = {}
      BY <1>t, <1>n, <1>1, <1>4 DEF TypeOK
    <3> QED
      BY <3>2, <3>3, <3>4, <3>5
  <2> QED
    BY <1>t, <1>1, <2>2, <2>3 DEF TypeOK
<1>7. TransactionsOK'
  BY <1>t, <1>1, <1>3, <1>4 DEF TransactionsOK
<1>8. ProceduresOwned'
  BY <1>t, <1>n, <1>1, <1>2, <1>3 DEF ProceduresOwned, Procedure, TransactionsOK
<1>9. OwedPending'
  BY <1>t, <1>2, <1>3, <1>4 DEF OwedPending, Procedure, TransactionsOK
<1>10. OpenRequestAnswerable'
  BY <1>t, <1>1, <1>2, <1>3 DEF OpenRequestAnswerable, TransactionsOK
<1>11. BoundsOK'
  <2>1. Cardinality(DOMAIN fate) \in Nat
    BY <1>t, FS_CardinalityType DEF BoundsOK
  <2>2. uid - Cardinality(DOMAIN fate) < MaxDeliveries
    BY DEF ReceiveRequest
  <2> QED
    BY <1>t, <1>1, <2>1, <2>2, ConstantsAssumption DEF BoundsOK
<1> QED
  BY <1>6, <1>7, <1>8, <1>9, <1>10, <1>11 DEF IInv

\* What a response that is taken finds: a procedure without one, whose request,
\* when it is one of this node, is open.
LEMMA ResponseFinds ==
  ASSUME IInv, NEW request \in LocalTypes, NEW seq, ReceiveResponse(request + 1, seq)
  PROVE  /\ seq \in DOMAIN pending_procedures
         /\ pending_procedures[seq].triggered = 0
         /\ pending_procedures[seq].trxn_id \in DOMAIN fate =>
              fate[pending_procedures[seq].trxn_id] = "sent"
<1>1. /\ seq \in DOMAIN pending_procedures
      /\ Accepts(pending_procedures[seq], request + 1)
  BY Zenon DEF ReceiveResponse
<1>2. pending_procedures[seq].triggered \in {0} \cup {r + 1 : r \in RequestTypes}
  BY <1>1 DEF IInv, TypeOK
<1>3. pending_procedures[seq].triggered = 0
  BY <1>1, <1>2, AnsweredIsClosed
<1> QED
  BY <1>1, <1>3 DEF IInv, ProceduresOwned

LEMMA ReceiveResponseStep ==
  ASSUME IInv, NEW request \in LocalTypes, NEW seq, ReceiveResponse(request + 1, seq)
  PROVE  IInv'
<1> PICK p, x : p = pending_procedures[seq] /\ x = p.trxn_id
  OBVIOUS
<1>t. /\ TypeOK /\ TransactionsOK /\ ProceduresOwned /\ OwedPending
      /\ OpenRequestAnswerable /\ BoundsOK
      /\ request \in RequestTypes /\ request + 1 # 0
  BY ConstantsAssumption DEF IInv, RequestTypes
<1>p. p \in [trxn_id : 1 .. uid, initial : RequestTypes,
             triggered : {0} \cup {r + 1 : r \in RequestTypes},
             retry_timer : 0 .. timer_id, cleanup_timer : 1 .. timer_id]
  BY <1>t, ResponseFinds DEF TypeOK
<1>0. /\ seq \in DOMAIN pending_procedures /\ p.triggered = 0
      /\ x \in DOMAIN fate => fate[x] = "sent"
      /\ trxn_id2seq_num[x] = seq
  BY <1>t, ResponseFinds DEF ProceduresOwned
<1>1. /\ UNCHANGED <<seq_num, uid, trxn_id2seq_num, timer_id, owed, shadowed>>
      /\ timers' \subseteq timers
  BY Zenon DEF ReceiveResponse
<1>2. /\ DOMAIN pending_procedures' = DOMAIN pending_procedures
      /\ \A s \in DOMAIN pending_procedures \ {seq} :
           pending_procedures'[s] = pending_procedures[s]
      /\ pending_procedures'[seq] = [p EXCEPT !.triggered = request + 1, !.retry_timer = 0]
  BY Zenon, <1>0 DEF ReceiveResponse
<1>q. /\ pending_procedures'[seq] \in [trxn_id : 1 .. uid, initial : RequestTypes,
             triggered : {0} \cup {r + 1 : r \in RequestTypes},
             retry_timer : 0 .. timer_id, cleanup_timer : 1 .. timer_id]
      /\ pending_procedures'[seq].trxn_id = x
      /\ pending_procedures'[seq].triggered # 0
  <2>1. request + 1 \in {r + 1 : r \in RequestTypes}
    BY <1>t
  <2>2. timer_id \in Nat
    BY <1>t DEF TransactionsOK
  <2>3. pending_procedures'[seq] =
          [trxn_id |-> p.trxn_id, initial |-> p.initial, triggered |-> request + 1,
           retry_timer |-> 0, cleanup_timer |-> p.cleanup_timer]
    BY <1>p, <1>2
  <2> QED
    BY <1>t, <1>p, <2>1, <2>2, <2>3
<1>3. /\ DOMAIN fate' = DOMAIN fate
      /\ x \in DOMAIN fate => fate'[x] = "answered"
      /\ \A y \in DOMAIN fate \ {x} : fate'[y] = fate[y]
      /\ fate' = [y \in DOMAIN fate |-> fate'[y]]
  <2>1. CASE x \in DOMAIN fate
    <3>1. fate' = MapAssign(fate, x, "answered")
      BY Zenon, <1>0, <2>1 DEF ReceiveResponse
    <3>2. DOMAIN fate \cup {x} = DOMAIN fate
      BY <2>1
    <3> QED
      BY <2>1, <3>1, <3>2 DEF MapAssign
  <2>2. CASE x \notin DOMAIN fate
    BY <1>t, <2>2 DEF ReceiveResponse, TransactionsOK
  <2> QED
    BY <2>1, <2>2
<1>6. TypeOK'
  BY <1>t, <1>1, <1>2, <1>3, <1>q DEF TypeOK
<1>7. TransactionsOK'
  <2>1. \A y \in DOMAIN fate' : fate'[y] \in {"sent", "answered"}
    BY <1>t, <1>3 DEF TransactionsOK
  <2>2. fate' \in [DOMAIN fate' -> {"sent", "answered"}]
    BY <1>3, <2>1
  <2> QED
    BY <1>t, <1>1, <1>3, <2>2 DEF TransactionsOK
<1>8. ProceduresOwned'
  <2>1. ASSUME NEW s \in DOMAIN pending_procedures \ {seq}
        PROVE  /\ pending_procedures[s].trxn_id # x
               /\ pending_procedures[s].trxn_id \in DOMAIN trxn_id2seq_num
               /\ trxn_id2seq_num[pending_procedures[s].trxn_id] = s
               /\ pending_procedures[s].trxn_id \in DOMAIN fate =>
                    (pending_procedures[s].triggered = 0 <=> fate[pending_procedures[s].trxn_id] = "sent")
    BY <1>t, <1>0 DEF ProceduresOwned
  <2>2. x \in DOMAIN trxn_id2seq_num
    BY <1>t, <1>0 DEF ProceduresOwned
  <2>3. x \in DOMAIN fate => fate'[x] # "sent"
    BY <1>3
  <2>4. ASSUME NEW s \in DOMAIN pending_procedures'
        PROVE  LET y == pending_procedures'[s].trxn_id IN
                 /\ y \in DOMAIN trxn_id2seq_num'
                 /\ trxn_id2seq_num'[y] = s
                 /\ y \in DOMAIN fate' =>
                      (pending_procedures'[s].triggered = 0 <=> fate'[y] = "sent")
    <3>1. CASE s = seq
      BY <1>0, <1>1, <1>3, <1>q, <2>2, <2>3, <3>1
    <3>2. CASE s # seq
      <4>1. s \in DOMAIN pending_procedures \ {seq} /\ pending_procedures'[s] = pending_procedures[s]
        BY <1>2, <2>4, <3>2
      <4>2. pending_procedures[s].trxn_id \in DOMAIN fate =>
              fate'[pending_procedures[s].trxn_id] = fate[pending_procedures[s].trxn_id]
        BY <1>3, <2>1, <4>1
      <4> QED
        BY <1>1, <1>3, <2>1, <4>1, <4>2
    <3> QED
      BY <3>1, <3>2
  <2> QED
    BY <2>4 DEF ProceduresOwned
<1>9. OwedPending'
  <2>1. ASSUME NEW y \in DOMAIN owed
        PROVE  /\ trxn_id2seq_num[y] \in DOMAIN pending_procedures'
               /\ pending_procedures'[trxn_id2seq_num[y]].trxn_id = y
    <3> PICK s : s = trxn_id2seq_num[y]
      OBVIOUS
    <3>1. s \in DOMAIN pending_procedures /\ pending_procedures[s].trxn_id = y
      BY <1>t DEF OwedPending
    <3>2. pending_procedures'[s].trxn_id = y
      <4>1. CASE s = seq
        BY <1>q, <3>1, <4>1
      <4>2. CASE s # seq
        BY <1>2, <3>1, <4>2
      <4> QED
        BY <4>1, <4>2
    <3> QED
      BY <1>2, <3>1, <3>2
  <2> QED
    BY <1>1, <2>1 DEF OwedPending
<1>10. OpenRequestAnswerable'
  BY <1>t, <1>0, <1>1, <1>2, <1>3, <1>q DEF OpenRequestAnswerable
<1>11. BoundsOK'
  BY <1>t, <1>1, <1>3 DEF BoundsOK
<1> QED
  BY <1>6, <1>7, <1>8, <1>9, <1>10, <1>11 DEF IInv

LEMMA SendResponseStep ==
  ASSUME IInv, NEW trxn \in DOMAIN owed, SendResponse(trxn)
  PROVE  IInv'
<1> PICK seq : seq = trxn_id2seq_num[trxn]
  OBVIOUS
<1>t. /\ TypeOK /\ TransactionsOK /\ ProceduresOwned /\ OwedPending
      /\ OpenRequestAnswerable /\ BoundsOK
  BY DEF IInv
<1>0. /\ seq \in DOMAIN pending_procedures
      /\ pending_procedures[seq].trxn_id = trxn
      /\ trxn \notin DOMAIN fate
  BY <1>t DEF OwedPending, TypeOK
<1>1. /\ UNCHANGED <<seq_num, uid, timer_id, fate, shadowed>>
      /\ timers' \subseteq timers
      /\ DOMAIN owed' = DOMAIN owed \ {trxn}
      /\ DOMAIN trxn_id2seq_num' = DOMAIN trxn_id2seq_num \ {trxn}
      /\ \A y \in DOMAIN trxn_id2seq_num' : trxn_id2seq_num'[y] = trxn_id2seq_num[y]
      /\ DOMAIN pending_procedures' = DOMAIN pending_procedures \ {seq}
      /\ \A s \in DOMAIN pending_procedures' : pending_procedures'[s] = pending_procedures[s]
  BY DEF SendResponse, MapErase
<1>2. TypeOK' /\ TransactionsOK' /\ BoundsOK'
  BY <1>t, <1>0, <1>1 DEF TypeOK, TransactionsOK, BoundsOK
<1>3. ProceduresOwned'
  BY <1>t, <1>0, <1>1 DEF ProceduresOwned
<1>4. OwedPending'
  BY <1>t, <1>0, <1>1 DEF OwedPending, TransactionsOK
<1>5. OpenRequestAnswerable'
  BY <1>t, <1>0, <1>1 DEF OpenRequestAnswerable, TransactionsOK
<1> QED
  BY <1>2, <1>3, <1>4, <1>5 DEF IInv

LEMMA InvStep == IInv /\ [Next]_vars => IInv'
<1> SUFFICES ASSUME IInv, [Next]_vars PROVE IInv'
  OBVIOUS
<1>1. CASE Timers \/ UNCHANGED vars
  <2>1. /\ UNCHANGED <<seq_num, uid, pending_procedures, trxn_id2seq_num, timer_id, owed,
                       fate, shadowed>>
        /\ timers' \subseteq timers
    BY <1>1 DEF Timers, TimeOut, vars
  <2> QED
    BY <2>1 DEF IInv, TypeOK, TransactionsOK, ProceduresOwned, OwedPending,
                OpenRequestAnswerable, BoundsOK
<1> QED
  BY <1>1, SendRequestStep, ReceiveRequestStep, ReceiveResponseStep, SendResponseStep DEF Next

\* What send_initial_message, the three callbacks and the application do to the tables
\* keeps requests, transactions and procedures in agreement.
THEOREM Invariance == Spec => []IInv
  BY InvInit, InvStep, PTL DEF Spec

\* The tables of the stack stay well typed, although the procedures of this
\* node's requests are never erased and their numbers come back.
THEOREM TypeCorrect == Spec => []TypeOK
<1>1. IInv => TypeOK
  BY DEF IInv
<1> QED
  BY <1>1, Invariance, PTL

\* A response to a request of this node finds its procedure as long as the
\* request is open, unless its number was taken already when it was sent: no
\* request of the peer and no response to one takes it away afterwards.
THEOREM OpenStaysAnswerable == Spec => []OpenRequestAnswerable
<1>1. IInv => OpenRequestAnswerable
  BY DEF IInv
<1> QED
  BY <1>1, Invariance, PTL

\* How a request of this node stands, as RequestReply sees it.
fateBar == [x \in DOMAIN fate |-> [outcome |-> fate[x], tries |-> 0]]

\* Every step of the stack is a step of RequestReply or changes nothing there.
LEMMA StepImplements ==
  ASSUME IInv, [Next]_vars
  PROVE  RR!Next \/ UNCHANGED fateBar
<1>1. ASSUME NEW type \in LocalTypes, SendRequest(type)
      PROVE  RR!Next
  <2> PICK x : x = uid + 1
    OBVIOUS
  <2>1. x \in 1 .. MaxSends + MaxDeliveries
    <3>1. Cardinality(DOMAIN fate) < MaxSends
      BY <1>1 DEF SendRequest
    <3>2. Cardinality(DOMAIN fate) \in Nat /\ uid \in Nat
          /\ uid - Cardinality(DOMAIN fate) <= MaxDeliveries
      BY FS_CardinalityType DEF IInv, BoundsOK, TransactionsOK
    <3> QED
      BY <3>1, <3>2, ConstantsAssumption
  <2>2. /\ x \notin DOMAIN fate
        /\ DOMAIN fate' = DOMAIN fate \cup {x} /\ fate'[x] = "sent"
        /\ \A y \in DOMAIN fate : fate'[y] = fate[y]
    BY <1>1 DEF SendRequest, MapInsert, NextTrxn, IInv, TypeOK, TransactionsOK
  <2>3. RR!Send(x)
    BY <2>2 DEF RR!Send
  <2> QED
    BY <2>1, <2>3 DEF RR!Next
<1>2. ASSUME NEW request \in LocalTypes, NEW seq, ReceiveResponse(request + 1, seq)
      PROVE  RR!Next \/ UNCHANGED fateBar
  <2> PICK x : x = pending_procedures[seq].trxn_id
    OBVIOUS
  <2>1. CASE x \in DOMAIN fate
    <3>1. fate[x] = "sent" /\ fate' = MapAssign(fate, x, "answered")
      BY Zenon, <1>2, <2>1, ResponseFinds DEF ReceiveResponse
    <3>2. /\ DOMAIN fate' = DOMAIN fate /\ fate'[x] = "answered"
          /\ \A y \in DOMAIN fate \ {x} : fate'[y] = fate[y]
      BY <2>1, <3>1 DEF MapAssign
    <3>3. RR!Becomes(x, "answered", 0)
      BY <2>1, <3>2 DEF RR!Becomes
    <3>4. RR!Answer(x)
      BY ZenonT(60), <2>1, <3>1, <3>3 DEF RR!Answer, RR!Open, RR!Becomes
    <3>5. x \in 1 .. MaxSends + MaxDeliveries
      <4>1. /\ x \in 1 .. uid /\ uid \in Nat
            /\ Cardinality(DOMAIN fate) \in Nat
            /\ Cardinality(DOMAIN fate) <= MaxSends
            /\ uid - Cardinality(DOMAIN fate) <= MaxDeliveries
        BY <2>1, FS_CardinalityType DEF IInv, TypeOK, BoundsOK, TransactionsOK
      <4> QED
        BY <4>1, ConstantsAssumption
    <3> QED
      BY <3>4, <3>5 DEF RR!Next, RR!Close
  <2>2. CASE x \notin DOMAIN fate
    BY <1>2, <2>2 DEF ReceiveResponse, fateBar
  <2> QED
    BY <2>1, <2>2
<1>3. CASE fate' = fate
  BY <1>3 DEF fateBar
<1> QED
  BY <1>1, <1>2, <1>3 DEF Next, vars, Timers, TimeOut, ReceiveRequest, SendResponse

\* Without its timers the stack still keeps the safety part of RequestReply's
\* promise: a request ends at most once, with its answer; a second response,
\* or one of another type, changes nothing.
THEOREM Implements == Spec => RequestReplySafe
<1>1. Init => RR!Init
  BY DEF Init, RR!Init, EmptyMap
<1>2. IInv /\ [Next]_vars => [RR!Next]_fateBar
  BY StepImplements
<1>3. fateBar = [x \in DOMAIN fate |-> [outcome |-> fate[x], tries |-> 0]]
  BY DEF fateBar
<1> QED
  BY <1>1, <1>2, <1>3, Invariance, PTL DEF Spec, RequestReplySafe, RR!Spec, fateBar

-----------------------------------------------------------------------------
(* PfcpAssociations *)

AssociationsOf(timer, trxn) ==
  [recovery_time_stamp : Stamps, num_retries : 0 .. MAX_RETRIES,
   timer_heartbeat : 1 .. timer, trxn_id : 0 .. trxn]

TimersOf(nodes) == [arg1 : {Trigger, Timeout}, node : nodes, expired : BOOLEAN]

\* The counters count, and an association was set up by a request.
CountersOK ==
  /\ trxn_uid \in Nat /\ hb_timer_id \in Nat
  /\ setups \in [UpNodes -> Nat]
  /\ \A n \in Known : setups[n] >= 1

\* The id an association keeps in timer_heartbeat is never that of a timer of
\* another node.
OwnTimer ==
  \A n \in Known : associations[n].timer_heartbeat \in DOMAIN hb_timers =>
                     hb_timers[associations[n].timer_heartbeat].node = n

\* The transaction of a request that is about to be sent.
TrxnToSend == task.pc = "send" => associations[task.node].trxn_id # 0

\* A timer or the reader goes on with node n.
Covered(n) ==
  \/ \E t \in DOMAIN hb_timers : hb_timers[t].node = n
  \/ reader # Idle /\ reader.node = n

Excused(n) == n \in failed \/ setups[n] > 1

\* Once send_heartbeat_request has set its timer up, the node no longer depends
\* on the SX task: the task may end there.
TaskHandsOver ==
  task.pc \in {"trxn", "send"} => Covered(task.node) \/ Excused(task.node)

AssocIInv ==
  /\ AssocTypeOK /\ CountersOK /\ OwnTimer /\ TrxnToSend
  /\ TaskHandsOver /\ HeartbeatRuns

LEMMA AssocInvInit == AssocInit => AssocIInv
<1> SUFFICES ASSUME AssocInit PROVE AssocIInv
  OBVIOUS
<1>1. /\ Known = {} /\ DOMAIN hb_timers = {} /\ pending = {}
      /\ trxn_uid = 0 /\ hb_timer_id = 0 /\ task = Idle /\ reader = Idle
      /\ setups = [n \in UpNodes |-> 0]
  BY DEF AssocInit, EmptyMap, Known
<1>2. AssocTypeOK
  BY <1>1 DEF AssocTypeOK
<1>3. task.pc = "idle"
  BY <1>1 DEF Idle
<1> QED
  BY <1>1, <1>2, <1>3
     DEF AssocIInv, CountersOK, OwnTimer, TrxnToSend, TaskHandsOver, HeartbeatRuns

\* The type of an association and of a timer, taken apart.
LEMMA Typed ==
  ASSUME AssocTypeOK, CountersOK
  PROVE  /\ trxn_uid \in Nat /\ hb_timer_id \in Nat
         /\ \A n \in Known : /\ n \in UpNodes
                             /\ associations[n] \in AssociationsOf(hb_timer_id, trxn_uid)
         /\ \A t \in DOMAIN hb_timers : t \in 1 .. hb_timer_id /\ hb_timers[t] \in TimersOf(Known)
         /\ hb_timer_id + 1 \notin DOMAIN hb_timers
<1>1. hb_timer_id \in Nat /\ trxn_uid \in Nat
  BY DEF CountersOK
<1>2. \A t \in DOMAIN hb_timers : t \in 1 .. hb_timer_id /\ hb_timers[t] \in TimersOf(Known)
  BY DEF AssocTypeOK, TimersOf
<1>3. hb_timer_id + 1 \notin DOMAIN hb_timers
  BY <1>1, <1>2
<1> QED
  BY <1>1, <1>2, <1>3 DEF AssocTypeOK, AssociationsOf

\* Where a thread is, it is idle or has a node.
LEMMA TaskTyped ==
  ASSUME AssocTypeOK
  PROVE  /\ task = Idle \/ (task.pc \in {"timer", "trxn", "send"} /\ task.node \in Known /\ task # Idle)
         /\ reader = Idle \/ (reader.pc \in {"remove", "trigger"} /\ reader.node \in Known /\ reader # Idle)
         /\ Idle.pc = "idle"
<1>1. Idle.pc = "idle"
  BY DEF Idle
<1>2. task = Idle \/ (task.pc \in {"timer", "trxn", "send"} /\ task.node \in Known)
  BY DEF AssocTypeOK
<1>3. reader = Idle \/ (reader.pc \in {"remove", "trigger"} /\ reader.node \in Known)
  BY DEF AssocTypeOK
<1> QED
  BY <1>1, <1>2, <1>3

LEMMA Placed ==
  ASSUME NEW pc \in {"timer", "trxn", "send", "remove", "trigger"}, NEW n
  PROVE  At(pc, n).pc = pc /\ At(pc, n).node = n /\ At(pc, n) # Idle /\ Idle.pc = "idle"
<1>1. At(pc, n).pc = pc /\ At(pc, n).node = n /\ Idle.pc = "idle"
  BY DEF At, Idle
<1> QED
  BY <1>1

\* A field of an association is written.
LEMMA FieldWritten ==
  ASSUME NEW n \in Known, NEW field, NEW value, Field(n, field, value)
  PROVE  /\ Known' = Known
         /\ \A m \in Known : m # n => associations'[m] = associations[m]
         /\ associations'[n] = [associations[n] EXCEPT ![field] = value]
  BY DEF Field, Known

\* A step that changes at most the association of one node, gives new timers new
\* ids, and leaves the threads at places of known nodes keeps the types.
LEMMA TypeKept ==
  ASSUME AssocTypeOK, CountersOK,
         trxn_uid' \in Nat, hb_timer_id' \in Nat, trxn_uid <= trxn_uid', hb_timer_id <= hb_timer_id',
         Known \subseteq Known', Known' \subseteq UpNodes,
         \A n \in Known' : \/ n \in Known /\ associations'[n] = associations[n]
                           \/ associations'[n] \in AssociationsOf(hb_timer_id', trxn_uid'),
         \A t \in DOMAIN hb_timers' : \/ t \in DOMAIN hb_timers /\ hb_timers'[t] = hb_timers[t]
                                      \/ t \in 1 .. hb_timer_id' /\ hb_timers'[t] \in TimersOf(Known'),
         pending' \subseteq pending \cup 1 .. trxn_uid',
         task' = task \/ task' \in {Idle} \cup [pc : {"timer", "trxn", "send"}, node : Known'],
         reader' = reader \/ reader' \in {Idle} \cup [pc : {"remove", "trigger"}, node : Known']
  PROVE  AssocTypeOK'
<1>1. \A n \in Known' : associations'[n] \in AssociationsOf(hb_timer_id', trxn_uid')
  <2>1. ASSUME NEW n \in Known
        PROVE  associations[n] \in AssociationsOf(hb_timer_id', trxn_uid')
    <3>1. associations[n] \in AssociationsOf(hb_timer_id, trxn_uid) /\ trxn_uid \in Nat /\ hb_timer_id \in Nat
      BY Typed
    <3>2. 1 .. hb_timer_id \subseteq 1 .. hb_timer_id' /\ 0 .. trxn_uid \subseteq 0 .. trxn_uid'
      BY <3>1
    <3> QED
      BY <3>1, <3>2 DEF AssociationsOf
  <2> QED
    BY <2>1
<1>2. \A t \in DOMAIN hb_timers' : t \in 1 .. hb_timer_id' /\ hb_timers'[t] \in TimersOf(Known')
  <2>1. ASSUME NEW t \in DOMAIN hb_timers
        PROVE  t \in 1 .. hb_timer_id' /\ hb_timers[t] \in TimersOf(Known')
    <3>1. t \in 1 .. hb_timer_id /\ hb_timers[t] \in TimersOf(Known) /\ hb_timer_id \in Nat
      BY Typed
    <3> QED
      BY <3>1 DEF TimersOf
  <2> QED
    BY <2>1
<1>3. pending' \subseteq 1 .. trxn_uid'
  <2>1. pending \subseteq 1 .. trxn_uid /\ 1 .. trxn_uid \subseteq 1 .. trxn_uid'
    BY DEF AssocTypeOK, CountersOK
  <2> QED
    BY <2>1
<1>4. task' \in {Idle} \cup [pc : {"timer", "trxn", "send"}, node : Known']
  BY DEF AssocTypeOK
<1>5. reader' \in {Idle} \cup [pc : {"remove", "trigger"}, node : Known']
  BY DEF AssocTypeOK
<1> QED
  BY <1>1, <1>2, <1>3, <1>4, <1>5 DEF AssocTypeOK, AssociationsOf, TimersOf

\* Timers after timer_setup, after timer_remove and after a TIME_OUT is taken.
LEMMA TimerAdded ==
  ASSUME AssocTypeOK, CountersOK, NEW arg1 \in {Trigger, Timeout}, NEW n,
         hb_timers' = TimerSetup(arg1, n)
  PROVE  /\ DOMAIN hb_timers' = DOMAIN hb_timers \cup {hb_timer_id + 1}
         /\ \A t \in DOMAIN hb_timers : hb_timers'[t] = hb_timers[t]
         /\ hb_timers'[hb_timer_id + 1] = Timer(arg1, n) /\ hb_timers'[hb_timer_id + 1].node = n
         /\ n \in Known' => hb_timers'[hb_timer_id + 1] \in TimersOf(Known')
<1>1. hb_timer_id + 1 \notin DOMAIN hb_timers
  BY Typed
<1>2. /\ DOMAIN hb_timers' = DOMAIN hb_timers \cup {hb_timer_id + 1}
      /\ \A t \in DOMAIN hb_timers : hb_timers'[t] = hb_timers[t]
      /\ hb_timers'[hb_timer_id + 1] = Timer(arg1, n)
  BY <1>1 DEF TimerSetup, MapInsert
<1> QED
  BY <1>2 DEF Timer, TimersOf

LEMMA TimerErased ==
  ASSUME NEW t, hb_timers' = MapErase(hb_timers, t)
  PROVE  /\ DOMAIN hb_timers' = DOMAIN hb_timers \ {t}
         /\ \A u \in DOMAIN hb_timers' : hb_timers'[u] = hb_timers[u]
  BY DEF MapErase

LEMMA TimerRemoved ==
  ASSUME NEW t, hb_timers' = TimerRemove(t)
  PROVE  /\ DOMAIN hb_timers' \subseteq DOMAIN hb_timers /\ DOMAIN hb_timers \ {t} \subseteq DOMAIN hb_timers'
         /\ \A u \in DOMAIN hb_timers' : hb_timers'[u] = hb_timers[u]
<1>1. CASE t \in DOMAIN hb_timers /\ ~hb_timers[t].expired
  BY <1>1 DEF TimerRemove, MapErase
<1>2. CASE ~(t \in DOMAIN hb_timers /\ ~hb_timers[t].expired)
  BY <1>2 DEF TimerRemove
<1> QED
  BY <1>1, <1>2

TimerOf(n)  == \E t \in DOMAIN hb_timers : hb_timers[t].node = n
InTask(n)   == task # Idle /\ task.node = n
InReader(n) == reader # Idle /\ reader.node = n

\* A step about one node leaves what goes on with the others as it is, and sees
\* to it that something goes on with its own.
LEMMA RunsKept ==
  ASSUME HeartbeatRuns, NEW n,
         \A m \in Known' : m # n =>
           /\ m \in Known
           /\ TimerOf(m) => TimerOf(m)'
           /\ InTask(m) => InTask(m)'
           /\ InReader(m) => InReader(m)'
           /\ Excused(m) => Excused(m)',
         n \in Known' => TimerOf(n)' \/ InTask(n)' \/ InReader(n)' \/ Excused(n)'
  PROVE  HeartbeatRuns'
  BY DEF HeartbeatRuns, Beats, TimerOf, InTask, InReader, Excused

LEMMA Parts ==
  ASSUME AssocIInv
  PROVE  AssocTypeOK /\ CountersOK /\ OwnTimer /\ TrxnToSend /\ TaskHandsOver /\ HeartbeatRuns
  BY DEF AssocIInv

\* The timer thread posts a TIME_OUT: the timer keeps its node.
LEMMA ExpireStep ==
  ASSUME AssocIInv, NEW t \in DOMAIN hb_timers, Expire(t)
  PROVE  AssocIInv'
<1>t. AssocTypeOK /\ CountersOK /\ OwnTimer /\ TrxnToSend /\ TaskHandsOver /\ HeartbeatRuns
  BY Parts
<1>1. /\ DOMAIN hb_timers' = DOMAIN hb_timers
      /\ \A u \in DOMAIN hb_timers : hb_timers'[u].node = hb_timers[u].node /\ (u # t => hb_timers'[u] = hb_timers[u])
      /\ hb_timers'[t] = [hb_timers[t] EXCEPT !.expired = TRUE]
      /\ UNCHANGED <<associations, pending, trxn_uid, hb_timer_id, task, reader, setups, failed, Known>>
  <2>1. hb_timers[t] \in TimersOf(Known) /\ hb_timers' = [hb_timers EXCEPT ![t].expired = TRUE]
    BY <1>t, Typed DEF Expire
  <2>2. hb_timers'[t] = [hb_timers[t] EXCEPT !.expired = TRUE] /\ hb_timers'[t].node = hb_timers[t].node
    BY <2>1 DEF TimersOf
  <2> QED
    BY <2>1, <2>2 DEF Expire, hvars, Known
<1>2. AssocTypeOK'
  <2>1. t \in 1 .. hb_timer_id' /\ hb_timers'[t] \in TimersOf(Known')
    BY <1>t, <1>1, Typed DEF TimersOf
  <2>2. /\ trxn_uid' \in Nat /\ hb_timer_id' \in Nat /\ trxn_uid <= trxn_uid' /\ hb_timer_id <= hb_timer_id'
        /\ Known \subseteq Known' /\ Known' \subseteq UpNodes
    BY <1>t, <1>1, Typed
  <2>3. \A n \in Known' : n \in Known /\ associations'[n] = associations[n]
    BY <1>1
  <2>4. \A u \in DOMAIN hb_timers' : \/ u \in DOMAIN hb_timers /\ hb_timers'[u] = hb_timers[u]
                                     \/ u \in 1 .. hb_timer_id' /\ hb_timers'[u] \in TimersOf(Known')
    BY <1>1, <2>1
  <2>5. pending' \subseteq pending \cup 1 .. trxn_uid' /\ task' = task /\ reader' = reader
    BY <1>1
  <2> QED
    BY <1>t, <2>2, <2>3, <2>4, <2>5, TypeKept
<1>3. CountersOK' /\ OwnTimer' /\ TrxnToSend'
  BY <1>t, <1>1 DEF CountersOK, OwnTimer, TrxnToSend
<1>4. \A m : (TimerOf(m) => TimerOf(m)') /\ (InTask(m) => InTask(m)')
             /\ (InReader(m) => InReader(m)') /\ (Excused(m) => Excused(m)')
  BY <1>1 DEF TimerOf, InTask, InReader, Excused
<1>5. HeartbeatRuns'
  BY <1>t, <1>1, <1>4 DEF HeartbeatRuns, Beats, TimerOf, InTask, InReader, Excused
<1>6. TaskHandsOver'
  BY <1>t, <1>1, <1>4 DEF TaskHandsOver, Covered, TimerOf, InReader, Excused
<1> QED
  BY <1>2, <1>3, <1>5, <1>6 DEF AssocIInv

\* A TIME_OUT of node n is taken: the SX task goes on with n, or n failed.
LEMMA TimeOutStep ==
  ASSUME AssocIInv, NEW t \in DOMAIN hb_timers,
         InitiateHeartbeatRequest(t) \/ RetryHeartbeatRequest(t) \/ FailHeartbeatRequest(t)
  PROVE  AssocIInv'
<1> PICK n : n = hb_timers[t].node
  OBVIOUS
<1>t. AssocTypeOK /\ CountersOK /\ OwnTimer /\ TrxnToSend /\ TaskHandsOver /\ HeartbeatRuns
  BY Parts
<1>n. n \in Known /\ task = Idle
  <2>1. hb_timers[t] \in TimersOf(Known)
    BY <1>t, Typed
  <2>2. hb_timers[t].node \in Known
    BY <2>1 DEF TimersOf
  <2> QED
    BY <2>2 DEF InitiateHeartbeatRequest, RetryHeartbeatRequest, FailHeartbeatRequest, TakeTimeOut
<1>1. /\ hb_timers' = MapErase(hb_timers, t)
      /\ UNCHANGED <<pending, trxn_uid, hb_timer_id, reader, setups>>
      /\ failed \subseteq failed'
  BY DEF InitiateHeartbeatRequest, RetryHeartbeatRequest, FailHeartbeatRequest, TakeTimeOut
<1>2. /\ DOMAIN hb_timers' = DOMAIN hb_timers \ {t}
      /\ \A u \in DOMAIN hb_timers' : hb_timers'[u] = hb_timers[u]
  BY <1>1, TimerErased
<1>3. \/ /\ \E v \in 0 .. MAX_RETRIES : Field(n, "num_retries", v)
         /\ task' = At("timer", n)
      \/ UNCHANGED <<associations, task>> /\ n \in failed'
  <2>1. CASE InitiateHeartbeatRequest(t)
    BY <2>1, BoundsAssumption DEF InitiateHeartbeatRequest
  <2>2. CASE RetryHeartbeatRequest(t)
    <3>1. associations[n] \in AssociationsOf(hb_timer_id, trxn_uid)
      BY <1>t, <1>n, Typed
    <3>2. associations[n].num_retries + 1 \in 0 .. MAX_RETRIES
      BY <2>2, <3>1, BoundsAssumption DEF RetryHeartbeatRequest, RetriesLeft, AssociationsOf
    <3> QED
      BY <2>2, <3>2 DEF RetryHeartbeatRequest
  <2>3. CASE FailHeartbeatRequest(t)
    BY <2>3 DEF FailHeartbeatRequest
  <2> QED
    BY <2>1, <2>2, <2>3
<1>4. /\ Known' = Known /\ \A m \in Known : m # n => associations'[m] = associations[m]
      /\ associations'[n] \in AssociationsOf(hb_timer_id, trxn_uid)
      /\ \A m \in Known : associations'[m].timer_heartbeat = associations[m].timer_heartbeat
  <2>1. associations[n] \in AssociationsOf(hb_timer_id, trxn_uid)
    BY <1>t, <1>n, Typed
  <2>2. ASSUME NEW v \in 0 .. MAX_RETRIES, Field(n, "num_retries", v)
        PROVE  /\ Known' = Known /\ \A m \in Known : m # n => associations'[m] = associations[m]
               /\ associations'[n] \in AssociationsOf(hb_timer_id, trxn_uid)
               /\ associations'[n].timer_heartbeat = associations[n].timer_heartbeat
    <3>1. /\ Known' = Known /\ \A m \in Known : m # n => associations'[m] = associations[m]
          /\ associations'[n] = [associations[n] EXCEPT !["num_retries"] = v]
      BY <1>n, <2>2 DEF Field, Known
    <3> QED
      BY <2>1, <3>1 DEF AssociationsOf
  <2> QED
    BY <1>n, <1>3, <2>1, <2>2 DEF Known
<1>5. task' = At("timer", n) \/ (task' = Idle /\ n \in failed')
  BY <1>n, <1>3
<1>6. AssocTypeOK'
  <2>1. task' \in {Idle} \cup [pc : {"timer", "trxn", "send"}, node : Known']
    BY <1>n, <1>4, <1>5 DEF At
  <2> QED
    BY <1>t, <1>1, <1>2, <1>4, <2>1, Typed, TypeKept
<1>7. CountersOK' /\ OwnTimer'
  BY <1>t, <1>1, <1>2, <1>4 DEF CountersOK, OwnTimer
<1>8. TrxnToSend' /\ TaskHandsOver'
  BY <1>5, Placed DEF TrxnToSend, TaskHandsOver
<1>9. HeartbeatRuns'
  <2>1. \A m \in Known' : m # n =>
           /\ m \in Known
           /\ TimerOf(m) => TimerOf(m)'
           /\ InTask(m) => InTask(m)'
           /\ InReader(m) => InReader(m)'
           /\ Excused(m) => Excused(m)'
    BY <1>n, <1>1, <1>2, <1>4 DEF TimerOf, InTask, InReader, Excused
  <2>2. InTask(n)' \/ Excused(n)'
    BY <1>5, Placed DEF InTask, Excused
  <2> QED
    BY <1>t, <2>1, <2>2, RunsKept
<1> QED
  BY <1>6, <1>7, <1>8, <1>9 DEF AssocIInv

\* A timer of node n is set up and its id put into the association.
LEMMA TimerKept ==
  ASSUME AssocTypeOK, CountersOK, OwnTimer, NEW n \in Known, NEW arg1 \in {Trigger, Timeout},
         hb_timers' = TimerSetup(arg1, n), hb_timer_id' = hb_timer_id + 1, trxn_uid' = trxn_uid, pending' = pending,
         Field(n, "timer_heartbeat", hb_timer_id + 1), setups' = setups,
         task' = task \/ task' \in {Idle} \cup [pc : {"timer", "trxn", "send"}, node : Known],
         reader' = reader \/ reader' \in {Idle} \cup [pc : {"remove", "trigger"}, node : Known]
  PROVE  /\ AssocTypeOK' /\ CountersOK' /\ OwnTimer' /\ Known' = Known
         /\ TimerOf(n)' /\ \A m : TimerOf(m) => TimerOf(m)'
         /\ \A m \in Known : associations'[m].trxn_id = associations[m].trxn_id
<1>1. /\ Known' = Known /\ \A m \in Known : m # n => associations'[m] = associations[m]
      /\ associations'[n] = [associations[n] EXCEPT !["timer_heartbeat"] = hb_timer_id + 1]
  BY DEF Field, Known
<1>2. /\ DOMAIN hb_timers' = DOMAIN hb_timers \cup {hb_timer_id + 1}
      /\ \A t \in DOMAIN hb_timers : hb_timers'[t] = hb_timers[t]
      /\ hb_timers'[hb_timer_id + 1].node = n
      /\ hb_timers'[hb_timer_id + 1] \in TimersOf(Known')
  BY <1>1, TimerAdded
<1>3. /\ associations'[n] \in AssociationsOf(hb_timer_id', trxn_uid')
      /\ associations'[n].timer_heartbeat = hb_timer_id + 1
      /\ associations'[n].trxn_id = associations[n].trxn_id
  <2>1. associations[n] \in AssociationsOf(hb_timer_id, trxn_uid) /\ hb_timer_id \in Nat
    BY Typed
  <2> QED
    BY <1>1, <2>1 DEF AssociationsOf
<1>4. AssocTypeOK'
  <2>1. /\ hb_timer_id + 1 \in 1 .. hb_timer_id' /\ hb_timer_id \in Nat /\ trxn_uid \in Nat
        /\ hb_timer_id <= hb_timer_id' /\ trxn_uid <= trxn_uid' /\ hb_timer_id' \in Nat /\ trxn_uid' \in Nat
    BY Typed
  <2>2. Known' \subseteq UpNodes
    BY <1>1, Typed
  <2> QED
    BY <1>1, <1>2, <1>3, <2>1, <2>2, TypeKept
<1>5. CountersOK'
  BY <1>1 DEF CountersOK
<1>6. OwnTimer'
  <2>1. ASSUME NEW m \in Known, m # n
        PROVE  associations'[m].timer_heartbeat \in DOMAIN hb_timers' =>
                 hb_timers'[associations'[m].timer_heartbeat].node = m
    <3>1. associations[m].timer_heartbeat \in 1 .. hb_timer_id /\ hb_timer_id \in Nat
      BY <2>1, Typed DEF AssociationsOf
    <3>2. associations[m].timer_heartbeat # hb_timer_id + 1
      BY <3>1
    <3> QED
      BY <1>1, <1>2, <2>1, <3>2 DEF OwnTimer
  <2> QED
    BY <1>1, <1>2, <1>3, <2>1 DEF OwnTimer
<1>7. TimerOf(n)' /\ \A m : TimerOf(m) => TimerOf(m)'
  BY <1>2 DEF TimerOf
<1> QED
  BY <1>1, <1>3, <1>4, <1>5, <1>6, <1>7

\* send_heartbeat_request sets its timer up: from here on the timer, or the
\* reader that removes it, goes on with the node.
LEMMA SendSetupTimerStep ==
  ASSUME AssocIInv, SendSetupTimer
  PROVE  AssocIInv'
<1> PICK n : n = task.node
  OBVIOUS
<1>t. AssocTypeOK /\ CountersOK /\ OwnTimer /\ TrxnToSend /\ TaskHandsOver /\ HeartbeatRuns
  BY Parts
<1>n. n \in Known
  BY <1>t, TaskTyped DEF SendSetupTimer
<1>1. /\ hb_timers' = TimerSetup(Timeout, n) /\ hb_timer_id' = hb_timer_id + 1
      /\ Field(n, "timer_heartbeat", hb_timer_id + 1)
      /\ task' = At("trxn", n)
      /\ UNCHANGED <<pending, trxn_uid, reader, setups, failed>>
  BY DEF SendSetupTimer, hvars
<1>2. /\ AssocTypeOK' /\ CountersOK' /\ OwnTimer' /\ Known' = Known
      /\ TimerOf(n)' /\ \A m : TimerOf(m) => TimerOf(m)'
  <2>1. At("trxn", n) \in [pc : {"timer", "trxn", "send"}, node : Known]
    BY <1>n DEF At
  <2> QED
    BY <1>t, <1>n, <1>1, <2>1, TimerKept
<1>3. TrxnToSend' /\ TaskHandsOver'
  BY <1>1, <1>2, Placed DEF TrxnToSend, TaskHandsOver, Covered, TimerOf
<1>4. HeartbeatRuns'
  <2>1. \A m \in Known' : m # n =>
           /\ m \in Known
           /\ TimerOf(m) => TimerOf(m)'
           /\ InTask(m) => InTask(m)'
           /\ InReader(m) => InReader(m)'
           /\ Excused(m) => Excused(m)'
    BY <1>1, <1>2 DEF InTask, InReader, Excused
  <2> QED
    BY <1>t, <1>2, <2>1, RunsKept
<1> QED
  BY <1>2, <1>3, <1>4 DEF AssocIInv

LEMMA SendNewTrxnStep ==
  ASSUME AssocIInv, SendNewTrxn
  PROVE  AssocIInv'
<1> PICK n : n = task.node
  OBVIOUS
<1>t. AssocTypeOK /\ CountersOK /\ OwnTimer /\ TrxnToSend /\ TaskHandsOver /\ HeartbeatRuns
  BY Parts
<1>n. n \in Known /\ task # Idle
  BY <1>t, TaskTyped DEF SendNewTrxn
<1>1. /\ Field(n, "trxn_id", trxn_uid + 1) /\ trxn_uid' = trxn_uid + 1
      /\ task' = At("send", n)
      /\ UNCHANGED <<pending, hb_timer_id, hb_timers, reader, setups, failed>>
  BY DEF SendNewTrxn, hvars
<1>2. /\ Known' = Known /\ \A m \in Known : m # n => associations'[m] = associations[m]
      /\ associations'[n] = [associations[n] EXCEPT !["trxn_id"] = trxn_uid + 1]
  BY <1>n, <1>1 DEF Field, Known
<1>3. /\ associations'[n] \in AssociationsOf(hb_timer_id, trxn_uid + 1)
      /\ associations'[n].timer_heartbeat = associations[n].timer_heartbeat
      /\ associations'[n].trxn_id = trxn_uid + 1
      /\ trxn_uid \in Nat /\ hb_timer_id \in Nat
  <2>1. associations[n] \in AssociationsOf(hb_timer_id, trxn_uid) /\ trxn_uid \in Nat /\ hb_timer_id \in Nat
    BY <1>t, <1>n, Typed
  <2> QED
    BY <1>2, <2>1 DEF AssociationsOf
<1>4. AssocTypeOK'
  <2>1. task' \in {Idle} \cup [pc : {"timer", "trxn", "send"}, node : Known']
    BY <1>n, <1>1, <1>2 DEF At
  <2>2. trxn_uid' \in Nat /\ hb_timer_id' \in Nat /\ trxn_uid <= trxn_uid' /\ hb_timer_id <= hb_timer_id'
         /\ Known' \subseteq UpNodes
    BY <1>t, <1>1, <1>2, <1>3, Typed
  <2> QED
    BY <1>t, <1>1, <1>2, <1>3, <2>1, <2>2, TypeKept
<1>5. CountersOK' /\ OwnTimer'
  <2>1. \A m \in Known : associations'[m].timer_heartbeat = associations[m].timer_heartbeat
    BY <1>2, <1>3
  <2>2. CountersOK'
    BY <1>t, <1>1, <1>2, <1>3 DEF CountersOK
  <2> QED
    BY <1>t, <1>1, <1>2, <2>1, <2>2 DEF OwnTimer
<1>6. TrxnToSend'
  BY <1>1, <1>3, Placed DEF TrxnToSend
<1>7. \A m : (TimerOf(m) => TimerOf(m)') /\ (InReader(m) => InReader(m)') /\ (Excused(m) => Excused(m)')
             /\ (InTask(m) => InTask(m)')
  BY <1>1, Placed DEF TimerOf, InReader, Excused, InTask
<1>8. TaskHandsOver'
  <2>1. TimerOf(n) \/ InReader(n) \/ Excused(n)
    BY <1>t DEF SendNewTrxn, TaskHandsOver, Covered, TimerOf, InReader
  <2>2. TimerOf(n)' \/ InReader(n)' \/ Excused(n)'
    BY <1>7, <2>1
  <2> QED
    BY <1>1, <2>2, Placed DEF TaskHandsOver, Covered, TimerOf, InReader
<1>9. HeartbeatRuns'
  BY <1>t, <1>2, <1>7 DEF HeartbeatRuns, Beats, TimerOf, InTask, InReader, Excused
<1> QED
  BY <1>4, <1>5, <1>6, <1>8, <1>9 DEF AssocIInv

\* The SX task ends: what it handed the node over to goes on.
LEMMA SendHeartbeatRequestStep ==
  ASSUME AssocIInv, SendHeartbeatRequest
  PROVE  AssocIInv'
<1> PICK n : n = task.node
  OBVIOUS
<1>t. AssocTypeOK /\ CountersOK /\ OwnTimer /\ TrxnToSend /\ TaskHandsOver /\ HeartbeatRuns
  BY Parts
<1>n. n \in Known /\ task # Idle
  BY <1>t, TaskTyped DEF SendHeartbeatRequest
<1>1. /\ pending' = pending \cup {associations[n].trxn_id} /\ task' = Idle
      /\ UNCHANGED <<associations, trxn_uid, hb_timer_id, hb_timers, reader, setups, failed, Known>>
  BY DEF SendHeartbeatRequest, hvars, ivars, Known
<1>2. AssocTypeOK'
  <2>1. associations[n] \in AssociationsOf(hb_timer_id, trxn_uid) /\ associations[n].trxn_id # 0 /\ trxn_uid \in Nat
    BY <1>t, <1>n, Typed DEF TrxnToSend, SendHeartbeatRequest
  <2>2. associations[n].trxn_id \in 1 .. trxn_uid'
    BY <1>1, <2>1 DEF AssociationsOf
  <2>3. trxn_uid' \in Nat /\ hb_timer_id' \in Nat /\ trxn_uid <= trxn_uid' /\ hb_timer_id <= hb_timer_id'
         /\ Known' \subseteq UpNodes
    BY <1>t, <1>1, Typed
  <2> QED
    BY <1>t, <1>1, <2>2, <2>3, TypeKept
<1>3. CountersOK' /\ OwnTimer' /\ TrxnToSend' /\ TaskHandsOver'
  BY <1>t, <1>1, TaskTyped DEF CountersOK, OwnTimer, TrxnToSend, TaskHandsOver
<1>4. \A m : (TimerOf(m) => TimerOf(m)') /\ (InReader(m) => InReader(m)') /\ (Excused(m) => Excused(m)')
  BY <1>1 DEF TimerOf, InReader, Excused
<1>5. HeartbeatRuns'
  <2>1. \A m \in Known' : m # n =>
           /\ m \in Known
           /\ TimerOf(m) => TimerOf(m)'
           /\ InTask(m) => InTask(m)'
           /\ InReader(m) => InReader(m)'
           /\ Excused(m) => Excused(m)'
    BY <1>1, <1>4 DEF InTask
  <2>2. TimerOf(n) \/ InReader(n) \/ Excused(n)
    BY <1>t DEF SendHeartbeatRequest, TaskHandsOver, Covered, TimerOf, InReader
  <2> QED
    BY <1>t, <1>4, <2>1, <2>2, RunsKept
<1> QED
  BY <1>2, <1>3, <1>5 DEF AssocIInv

\* The reader takes a response: it has the node, if it is the last request's.
LEMMA ReceiveStep ==
  ASSUME AssocIInv, NEW x \in pending, ReceiveHeartbeatResponse(x)
  PROVE  AssocIInv'
<1>t. AssocTypeOK /\ CountersOK /\ OwnTimer /\ TrxnToSend /\ TaskHandsOver /\ HeartbeatRuns
  BY Parts
<1>1. /\ pending' \subseteq pending /\ reader = Idle
      /\ reader' = reader \/ \E n \in Known : reader' = At("remove", n)
      /\ UNCHANGED <<associations, trxn_uid, hb_timer_id, hb_timers, task, setups, failed, Known>>
  BY DEF ReceiveHeartbeatResponse, ivars, Known
<1>2. AssocTypeOK'
  <2>1. reader' = reader \/ reader' \in {Idle} \cup [pc : {"remove", "trigger"}, node : Known']
    BY <1>1 DEF At
  <2>2. trxn_uid' \in Nat /\ hb_timer_id' \in Nat /\ trxn_uid <= trxn_uid' /\ hb_timer_id <= hb_timer_id'
         /\ Known' \subseteq UpNodes
    BY <1>t, <1>1, Typed
  <2> QED
    BY <1>t, <1>1, <2>1, <2>2, TypeKept
<1>3. CountersOK' /\ OwnTimer' /\ TrxnToSend'
  BY <1>t, <1>1 DEF CountersOK, OwnTimer, TrxnToSend
<1>4. \A m : (TimerOf(m) => TimerOf(m)') /\ ~InReader(m) /\ (Excused(m) => Excused(m)')
             /\ (InTask(m) => InTask(m)')
  BY <1>1 DEF TimerOf, InReader, Excused, InTask
<1>5. HeartbeatRuns'
  BY <1>t, <1>1, <1>4 DEF HeartbeatRuns, Beats, TimerOf, InTask, InReader, Excused
<1>6. TaskHandsOver'
  BY <1>t, <1>1, <1>4 DEF TaskHandsOver, Covered, TimerOf, InReader, Excused
<1> QED
  BY <1>2, <1>3, <1>5, <1>6 DEF AssocIInv

\* timer_remove of the timer of node n: the timers of the others stay.
LEMMA RemoveKeeps ==
  ASSUME AssocTypeOK, CountersOK, OwnTimer, NEW n \in Known,
         hb_timers' = TimerRemove(associations[n].timer_heartbeat)
  PROVE  /\ DOMAIN hb_timers' \subseteq DOMAIN hb_timers
         /\ \A t \in DOMAIN hb_timers' : hb_timers'[t] = hb_timers[t]
         /\ \A m : m # n /\ TimerOf(m) => TimerOf(m)'
<1>1. /\ DOMAIN hb_timers' \subseteq DOMAIN hb_timers
      /\ DOMAIN hb_timers \ {associations[n].timer_heartbeat} \subseteq DOMAIN hb_timers'
      /\ \A t \in DOMAIN hb_timers' : hb_timers'[t] = hb_timers[t]
  BY TimerRemoved
<1>2. ASSUME NEW m, m # n, TimerOf(m)
      PROVE  TimerOf(m)'
  <2>1. PICK t \in DOMAIN hb_timers : hb_timers[t].node = m
    BY <1>2 DEF TimerOf
  <2>2. t # associations[n].timer_heartbeat
    BY <1>2, <2>1 DEF OwnTimer
  <2> QED
    BY <1>1, <2>1, <2>2 DEF TimerOf
<1> QED
  BY <1>1, <1>2

LEMMA ResponseRemovesStep ==
  ASSUME AssocIInv, ResponseRemovesTimer
  PROVE  AssocIInv'
<1> PICK n : n = reader.node
  OBVIOUS
<1>t. AssocTypeOK /\ CountersOK /\ OwnTimer /\ TrxnToSend /\ TaskHandsOver /\ HeartbeatRuns
  BY Parts
<1>n. n \in Known /\ reader # Idle
  BY <1>t, TaskTyped DEF ResponseRemovesTimer
<1>1. /\ hb_timers' = TimerRemove(associations[n].timer_heartbeat) /\ reader' = At("trigger", n)
      /\ UNCHANGED <<associations, pending, trxn_uid, hb_timer_id, task, setups, failed, Known>>
  BY DEF ResponseRemovesTimer, hvars, Known
<1>2. /\ DOMAIN hb_timers' \subseteq DOMAIN hb_timers
      /\ \A t \in DOMAIN hb_timers' : hb_timers'[t] = hb_timers[t]
      /\ \A m : m # n /\ TimerOf(m) => TimerOf(m)'
  BY <1>t, <1>n, <1>1, RemoveKeeps
<1>3. AssocTypeOK'
  <2>1. reader' \in {Idle} \cup [pc : {"remove", "trigger"}, node : Known']
    BY <1>n, <1>1 DEF At
  <2>2. trxn_uid' \in Nat /\ hb_timer_id' \in Nat /\ trxn_uid <= trxn_uid' /\ hb_timer_id <= hb_timer_id'
         /\ Known' \subseteq UpNodes
    BY <1>t, <1>1, Typed
  <2> QED
    BY <1>t, <1>1, <1>2, <2>1, <2>2, TypeKept
<1>4. CountersOK' /\ OwnTimer' /\ TrxnToSend'
  BY <1>t, <1>1, <1>2 DEF CountersOK, OwnTimer, TrxnToSend
<1>5. InReader(n)'
  BY <1>1, Placed DEF InReader
<1>6. \A m : m # n => /\ TimerOf(m) => TimerOf(m)'
                      /\ InTask(m) => InTask(m)'
                      /\ InReader(m) => InReader(m)'
                      /\ Excused(m) => Excused(m)'
  BY <1>1, <1>2 DEF InTask, InReader, Excused
<1>7. HeartbeatRuns'
  BY <1>t, <1>1, <1>5, <1>6, RunsKept
<1>8. TaskHandsOver'
  BY <1>t, <1>1, <1>5, <1>6 DEF TaskHandsOver, Covered, TimerOf, InReader
<1> QED
  BY <1>3, <1>4, <1>7, <1>8 DEF AssocIInv

LEMMA ResponseTriggersStep ==
  ASSUME AssocIInv, ResponseTriggersNext
  PROVE  AssocIInv'
<1> PICK n : n = reader.node
  OBVIOUS
<1>t. AssocTypeOK /\ CountersOK /\ OwnTimer /\ TrxnToSend /\ TaskHandsOver /\ HeartbeatRuns
  BY Parts
<1>n. n \in Known /\ reader # Idle
  BY <1>t, TaskTyped DEF ResponseTriggersNext
<1>1. /\ hb_timers' = TimerSetup(Trigger, n) /\ hb_timer_id' = hb_timer_id + 1
      /\ Field(n, "timer_heartbeat", hb_timer_id + 1)
      /\ reader' = Idle
      /\ UNCHANGED <<pending, trxn_uid, task, setups, failed>>
  BY DEF ResponseTriggersNext, hvars
<1>2. /\ AssocTypeOK' /\ CountersOK' /\ OwnTimer' /\ Known' = Known
      /\ TimerOf(n)' /\ \A m : TimerOf(m) => TimerOf(m)'
      /\ \A m \in Known : associations'[m].trxn_id = associations[m].trxn_id
  BY <1>t, <1>n, <1>1, TimerKept
<1>3. TrxnToSend'
  BY <1>t, <1>1, <1>2, TaskTyped DEF TrxnToSend
<1>4. \A m : m # n => /\ InTask(m) => InTask(m)'
                      /\ ~InReader(m)
                      /\ Excused(m) => Excused(m)'
  BY <1>1 DEF InTask, InReader, Excused
<1>5. HeartbeatRuns'
  BY <1>t, <1>2, <1>4, RunsKept
<1>6. TaskHandsOver'
  BY <1>t, <1>1, <1>2, <1>4 DEF TaskHandsOver, Covered, TimerOf, InReader, Excused
<1> QED
  BY <1>2, <1>3, <1>5, <1>6 DEF AssocIInv

\* A new association starts with a timer of its own.
LEMMA AddStep ==
  ASSUME AssocIInv, NEW n \in UpNodes, NEW stamp \in Stamps, AddAssociation(n, stamp)
  PROVE  AssocIInv'
<1>t. AssocTypeOK /\ CountersOK /\ OwnTimer /\ TrxnToSend /\ TaskHandsOver /\ HeartbeatRuns
  BY Parts
<1>1. /\ n \notin Known /\ hb_timers' = TimerSetup(Trigger, n) /\ hb_timer_id' = hb_timer_id + 1
      /\ associations' = MapInsert(associations, n, Association(stamp, hb_timer_id + 1, 0, 0))
      /\ setups' = [setups EXCEPT ![n] = @ + 1]
      /\ UNCHANGED <<pending, trxn_uid, task, reader, failed>>
  BY DEF AddAssociation, SetupReceived
<1>2. /\ Known' = Known \cup {n} /\ \A m \in Known : associations'[m] = associations[m]
      /\ associations'[n] = Association(stamp, hb_timer_id + 1, 0, 0)
  BY <1>1 DEF Known, MapInsert
<1>3. /\ trxn_uid \in Nat /\ hb_timer_id \in Nat /\ trxn_uid' \in Nat /\ hb_timer_id' \in Nat
      /\ trxn_uid <= trxn_uid' /\ hb_timer_id <= hb_timer_id' /\ hb_timer_id + 1 \in 1 .. hb_timer_id'
      /\ Known' \subseteq UpNodes
  BY <1>t, <1>1, <1>2, Typed
<1>4. associations'[n] \in AssociationsOf(hb_timer_id', trxn_uid')
      /\ associations'[n].timer_heartbeat = hb_timer_id + 1
  BY <1>1, <1>2, <1>3, BoundsAssumption DEF Association, AssociationsOf
<1>5. /\ DOMAIN hb_timers' = DOMAIN hb_timers \cup {hb_timer_id + 1}
      /\ \A t \in DOMAIN hb_timers : hb_timers'[t] = hb_timers[t]
      /\ hb_timers'[hb_timer_id + 1].node = n
      /\ hb_timers'[hb_timer_id + 1] \in TimersOf(Known')
  BY <1>t, <1>1, <1>2, TimerAdded
<1>6. AssocTypeOK'
  BY <1>t, <1>1, <1>2, <1>3, <1>4, <1>5, TypeKept
<1>7. CountersOK'
  <2>1. /\ setups' \in [UpNodes -> Nat] /\ setups'[n] >= 1
        /\ \A m \in Known : m # n => setups'[m] = setups[m]
    BY <1>t, <1>1, Typed DEF CountersOK
  <2> QED
    BY <1>t, <1>1, <1>2, <1>3, <2>1 DEF CountersOK
<1>8. OwnTimer'
  <2>1. ASSUME NEW m \in Known
        PROVE  associations'[m].timer_heartbeat \in DOMAIN hb_timers' =>
                 hb_timers'[associations'[m].timer_heartbeat].node = m
    <3>1. associations[m].timer_heartbeat \in 1 .. hb_timer_id
      BY <1>t, Typed DEF AssociationsOf
    <3>2. associations[m].timer_heartbeat # hb_timer_id + 1
      BY <1>3, <3>1
    <3> QED
      BY <1>t, <1>2, <1>5, <3>2 DEF OwnTimer
  <2> QED
    BY <1>2, <1>4, <1>5, <2>1 DEF OwnTimer
<1>9. TrxnToSend'
  BY <1>t, <1>1, <1>2, TaskTyped DEF TrxnToSend
<1>10. TimerOf(n)' /\ \A m : (TimerOf(m) => TimerOf(m)') /\ (InTask(m) => InTask(m)')
                            /\ (InReader(m) => InReader(m)')
  BY <1>1, <1>5 DEF TimerOf, InTask, InReader
<1>11. \A m \in Known : Excused(m) => Excused(m)'
  BY <1>t, <1>1, Typed DEF CountersOK, Excused
<1>12. HeartbeatRuns'
  BY <1>t, <1>2, <1>10, <1>11, RunsKept
<1>13. TaskHandsOver'
  <2>1. task.pc \in {"trxn", "send"} => task.node \in Known
    BY <1>t, TaskTyped
  <2> QED
    BY <1>t, <1>1, <1>10, <1>11, <2>1 DEF TaskHandsOver, Covered, TimerOf, InReader
<1> QED
  BY <1>6, <1>7, <1>8, <1>9, <1>12, <1>13 DEF AssocIInv

\* A node that sets its association up again loses its timer, and is excused.
LEMMA UpdateStep ==
  ASSUME AssocIInv, NEW n \in UpNodes, NEW stamp \in Stamps, UpdateAssociation(n, stamp)
  PROVE  AssocIInv'
<1>t. AssocTypeOK /\ CountersOK /\ OwnTimer /\ TrxnToSend /\ TaskHandsOver /\ HeartbeatRuns
  BY Parts
<1>1. /\ n \in Known /\ hb_timers' = TimerRemove(associations[n].timer_heartbeat)
      /\ Field(n, "recovery_time_stamp", stamp)
      /\ setups' = [setups EXCEPT ![n] = @ + 1]
      /\ UNCHANGED <<pending, trxn_uid, hb_timer_id, task, reader, failed>>
  BY DEF UpdateAssociation, SetupReceived
<1>2. /\ Known' = Known /\ \A m \in Known : m # n => associations'[m] = associations[m]
      /\ associations'[n] = [associations[n] EXCEPT !["recovery_time_stamp"] = stamp]
  BY <1>1 DEF Field, Known
<1>3. /\ associations'[n] \in AssociationsOf(hb_timer_id, trxn_uid)
      /\ associations'[n].timer_heartbeat = associations[n].timer_heartbeat
      /\ associations'[n].trxn_id = associations[n].trxn_id
  <2>1. associations[n] \in AssociationsOf(hb_timer_id, trxn_uid)
    BY <1>t, <1>1, Typed
  <2> QED
    BY <1>2, <2>1 DEF AssociationsOf
<1>4. /\ DOMAIN hb_timers' \subseteq DOMAIN hb_timers
      /\ \A t \in DOMAIN hb_timers' : hb_timers'[t] = hb_timers[t]
      /\ \A m : m # n /\ TimerOf(m) => TimerOf(m)'
  BY <1>t, <1>1, RemoveKeeps
<1>5. AssocTypeOK'
  <2>1. trxn_uid' \in Nat /\ hb_timer_id' \in Nat /\ trxn_uid <= trxn_uid' /\ hb_timer_id <= hb_timer_id'
         /\ Known' \subseteq UpNodes
    BY <1>t, <1>1, <1>2, Typed
  <2> QED
    BY <1>t, <1>1, <1>2, <1>3, <1>4, <2>1, TypeKept
<1>6. CountersOK' /\ setups'[n] > 1
  <2>1. /\ setups' \in [UpNodes -> Nat] /\ setups'[n] > 1
        /\ \A m \in Known : m # n => setups'[m] = setups[m]
    BY <1>t, <1>1, Typed DEF CountersOK
  <2> QED
    BY <1>t, <1>1, <1>2, <2>1 DEF CountersOK
<1>7. OwnTimer'
  <2>1. \A m \in Known : associations'[m].timer_heartbeat = associations[m].timer_heartbeat
    BY <1>2, <1>3
  <2>2. \A m \in Known : associations'[m].timer_heartbeat \in DOMAIN hb_timers' =>
          hb_timers'[associations'[m].timer_heartbeat].node = m
    BY <1>t, <1>4, <2>1 DEF OwnTimer
  <2> QED
    BY <1>2, <2>2 DEF OwnTimer
<1>8. TrxnToSend'
  BY <1>t, <1>1, <1>2, <1>3, TaskTyped DEF TrxnToSend
<1>9. \A m \in Known : m # n => /\ TimerOf(m) => TimerOf(m)'
                                /\ InTask(m) => InTask(m)'
                                /\ InReader(m) => InReader(m)'
                                /\ Excused(m) => Excused(m)'
  BY <1>t, <1>1, <1>4, Typed DEF CountersOK, InTask, InReader, Excused
<1>10. HeartbeatRuns'
  BY <1>t, <1>2, <1>6, <1>9, RunsKept DEF Excused
<1>11. TaskHandsOver'
  <2>1. task.pc \in {"trxn", "send"} => task.node \in Known
    BY <1>t, TaskTyped
  <2> QED
    BY <1>t, <1>1, <1>6, <1>9, <2>1 DEF TaskHandsOver, Covered, TimerOf, InReader, Excused
<1> QED
  BY <1>5, <1>6, <1>7, <1>8, <1>10, <1>11 DEF AssocIInv

\* The inductive invariant: whoever ends its part of a heartbeat procedure has
\* handed the node over to a timer, to the SX task or to the reader.
THEOREM AssocInvariance == AssocSpec => []AssocIInv
<1>1. ASSUME AssocIInv, [AssocNext]_assoc_vars
      PROVE  AssocIInv'
  <2>1. CASE UNCHANGED assoc_vars
    <3>1. /\ UNCHANGED <<associations, pending, trxn_uid, hb_timer_id, hb_timers, task, reader, setups, failed>>
          /\ UNCHANGED Known
      BY <2>1 DEF assoc_vars, ivars, hvars, Known
    <3>2. AssocTypeOK' /\ CountersOK' /\ OwnTimer'
      BY <1>1, <3>1 DEF AssocIInv, AssocTypeOK, CountersOK, OwnTimer
    <3>3. TrxnToSend' /\ TaskHandsOver' /\ HeartbeatRuns'
      BY <1>1, <3>1 DEF AssocIInv, TrxnToSend, TaskHandsOver, HeartbeatRuns, Beats, Covered, Excused
    <3> QED
      BY <3>2, <3>3 DEF AssocIInv
  <2> QED
    BY <1>1, <2>1, ExpireStep, TimeOutStep, SendSetupTimerStep, SendNewTrxnStep, SendHeartbeatRequestStep,
       ReceiveStep, ResponseRemovesStep, ResponseTriggersStep, AddStep, UpdateStep
       DEF AssocNext, TimerThread, Task, ResponseHandler, Network
<1> QED
  BY AssocInvInit, <1>1, PTL DEF AssocSpec

\* The associations, the timers and the places of the three threads keep their
\* types: a thread is never at a node that has no association.
THEOREM AssocTypeCorrect == AssocSpec => []AssocTypeOK
<1>1. AssocIInv => AssocTypeOK
  BY DEF AssocIInv
<1> QED
  BY <1>1, AssocInvariance, PTL

\* The supervision of a node goes on until it is declared failed or sets its
\* association up again, whatever heartbeat responses cross the time-outs.
THEOREM SupervisionGoesOn == AssocSpec => []HeartbeatRuns
<1>1. AssocIInv => HeartbeatRuns
  BY DEF AssocIInv
<1> QED
  BY <1>1, AssocInvariance, PTL
==============================================================================
