---------------------------- MODULE GtpcStackProofs ----------------------------
(***************************************************************************)
(* Proofs about GtpcStack for every value of its constants.                 *)
(***************************************************************************)
EXTENDS GtpcStack, TLAPS

\* What PROC_TIME_OUT adds to the repetitions outlasts the time-outs that are
\* handled late: 1000 ms for 4 time-outs, each less than 250 ms late.
TimeBudget == MARGIN > (N3 + 1) * LATENESS

\* Taking the first message of the mailbox shifts the others by one place.
LEMMA TakeFirst ==
  ASSUME NEW box \in Seq(Message), box # <<>>
  PROVE  /\ Head(box) \in Message
         /\ Head(box) = box[1]
         /\ Tail(box) \in Seq(Message)
         /\ Len(box) \in Nat \ {0}
         /\ Len(Tail(box)) = Len(box) - 1
         /\ \A i \in 1 .. Len(Tail(box)) : i + 1 \in 1 .. Len(box) /\ Tail(box)[i] = box[i + 1]
  OBVIOUS

\* Posting a message leaves the others in their places.
LEMMA PostLast ==
  ASSUME NEW box \in Seq(Message), NEW m \in Message
  PROVE  /\ Append(box, m) \in Seq(Message)
         /\ Len(box) \in Nat
         /\ Len(Append(box, m)) = Len(box) + 1
         /\ Append(box, m)[Len(box) + 1] = m
         /\ \A i \in 1 .. Len(box) : Append(box, m)[i] = box[i]
  OBVIOUS

\* The constants and the sets of message types are sets of natural numbers.
LEMMA ConstantsTyped ==
  /\ LocalTypes \subseteq Nat /\ PeerTypes \subseteq Nat /\ ReplyTypes \subseteq Nat \ {0}
  /\ T3 \in Nat /\ N3 \in Nat /\ MARGIN \in Nat /\ LATENESS \in Nat
  /\ GTPV2C_PROC_TIME_OUT \in Nat
  /\ PeerSeqs \subseteq SeqNums
  /\ \A n \in SeqNums : (n + 1) % SEQ_MODULUS \in SeqNums
  BY SeqAssumption, TypesAssumption, TimingAssumption
  DEF InitialTypes, GTPV2C_PROC_TIME_OUT, SeqNums

\* What the invariant says of a message wherever it stands in the mailbox.
LEMMA PostedMeans ==
  ASSUME MailboxOK
  PROVE  /\ \A t : Posted("TimeOut", t) => t \in DOMAIN clock /\ clock[t] <= 0
         /\ \A x : Posted("SendTriggered", x) => x \in DOMAIN owed
  BY DEF MailboxOK, Posted

\* A step that posts nothing keeps the mailbox sound when the time-outs that
\* remain posted keep their expired timers, the answers their owed requests.
LEMMA MailboxKept ==
  ASSUME MailboxTyped, MailboxOK,
         mailbox' = mailbox \/ (mailbox # <<>> /\ mailbox' = Tail(mailbox)),
         \A t \in DOMAIN clock :
           Posted("TimeOut", t) /\ Posted("TimeOut", t)' /\ clock[t] <= 0 =>
             t \in DOMAIN clock' /\ clock'[t] <= 0,
         \A x \in DOMAIN owed :
           Posted("SendTriggered", x)' => x \in DOMAIN owed'
  PROVE  MailboxOK'
<1>1. NoDuplicates' /\ \A kind, id : Posted(kind, id)' => Posted(kind, id)
  <2>1. CASE mailbox' = mailbox
    BY <2>1 DEF MailboxOK, NoDuplicates, Posted
  <2>2. CASE mailbox # <<>> /\ mailbox' = Tail(mailbox)
    <3>1. Len(mailbox') \in Nat /\ Len(mailbox) \in Nat
      BY <2>2, TakeFirst DEF MailboxTyped
    <3>2. \A i \in 1 .. Len(mailbox') :
            i \in Nat /\ i + 1 \in 1 .. Len(mailbox) /\ mailbox'[i] = mailbox[i + 1]
      BY <2>2, TakeFirst DEF MailboxTyped
    <3>3. ASSUME NEW i \in 1 .. Len(mailbox'), NEW j \in 1 .. Len(mailbox'),
                 mailbox'[i].kind = mailbox'[j].kind,
                 mailbox'[i].id = mailbox'[j].id,
                 mailbox'[i].kind # "SendInitial"
          PROVE  i = j
      <4>1. /\ i + 1 \in 1 .. Len(mailbox) /\ mailbox'[i] = mailbox[i + 1]
            /\ j + 1 \in 1 .. Len(mailbox) /\ mailbox'[j] = mailbox[j + 1]
        BY <3>2
      <4>2. i + 1 = j + 1
        BY <3>3, <4>1, Zenon DEF MailboxOK, NoDuplicates
      <4> QED
        BY <4>2
    <3>4. NoDuplicates'
      BY <3>3 DEF NoDuplicates
    <3>5. \A kind, id : Posted(kind, id)' => Posted(kind, id)
      BY <3>2 DEF Posted
    <3> QED
      BY <3>4, <3>5
  <2> QED
    BY <2>1, <2>2
<1>2. \A t : Posted("TimeOut", t)' => t \in DOMAIN clock' /\ clock'[t] <= 0
  BY <1>1, PostedMeans
<1>3. \A x : Posted("SendTriggered", x)' => x \in DOMAIN owed'
  BY <1>1, PostedMeans
<1> QED
  BY <1>1, <1>2, <1>3 DEF MailboxOK, Posted

\* The first message of the mailbox, once taken, is not there a second time.
LEMMA TakenOnce ==
  ASSUME MailboxTyped, MailboxOK, mailbox # <<>>, mailbox' = Tail(mailbox),
         NEW kind, kind = Head(mailbox).kind, kind # "SendInitial",
         NEW id, id = Head(mailbox).id
  PROVE  ~Posted(kind, id)' /\ Posted(kind, id)
<1>1. /\ Head(mailbox) = mailbox[1]
      /\ Len(mailbox) \in Nat \ {0}
      /\ \A i \in 1 .. Len(mailbox') :
           /\ i + 1 \in 1 .. Len(mailbox) /\ i + 1 # 1
           /\ mailbox'[i] = mailbox[i + 1]
  BY TakeFirst DEF MailboxTyped
<1>2. 1 \in 1 .. Len(mailbox)
  BY <1>1
<1>3. ASSUME NEW i \in 1 .. Len(mailbox'),
             mailbox'[i].kind = kind, mailbox'[i].id = id
      PROVE  FALSE
  <2>1. i + 1 \in 1 .. Len(mailbox) /\ i + 1 # 1 /\ mailbox'[i] = mailbox[i + 1]
    BY <1>1
  <2> QED
    BY ZenonT(60), <1>1, <1>2, <1>3, <2>1 DEF MailboxOK, NoDuplicates
<1>4. Posted(kind, id)
  BY <1>1, <1>2 DEF Posted
<1> QED
  BY <1>3, <1>4 DEF Posted

\* A message that is not posted yet may be posted.
LEMMA MailboxPosted ==
  ASSUME MailboxTyped, MailboxOK, NEW m \in Message,
         mailbox' = Append(mailbox, m), clock' = clock, owed' = owed,
         m.kind # "SendInitial" => ~Posted(m.kind, m.id),
         m.kind = "TimeOut" => m.id \in DOMAIN clock /\ clock[m.id] <= 0,
         m.kind = "SendTriggered" => m.id \in DOMAIN owed
  PROVE  MailboxOK'
<1>1. /\ Len(mailbox) \in Nat
      /\ Len(mailbox') = Len(mailbox) + 1
      /\ mailbox'[Len(mailbox) + 1] = m
      /\ \A i \in 1 .. Len(mailbox) : mailbox'[i] = mailbox[i]
  BY PostLast DEF MailboxTyped
<1>2. \A i \in 1 .. Len(mailbox') :
        \/ i \in 1 .. Len(mailbox) /\ mailbox'[i] = mailbox[i]
        \/ i = Len(mailbox) + 1 /\ mailbox'[i] = m
  BY <1>1
<1>3. ASSUME NEW i \in 1 .. Len(mailbox), m.kind # "SendInitial"
      PROVE  mailbox[i].kind # m.kind \/ mailbox[i].id # m.id
  BY <1>3 DEF Posted
<1>4. ASSUME NEW i \in 1 .. Len(mailbox'), NEW j \in 1 .. Len(mailbox'),
             mailbox'[i].kind = mailbox'[j].kind,
             mailbox'[i].id = mailbox'[j].id,
             mailbox'[i].kind # "SendInitial"
      PROVE  i = j
  <2>1. CASE i \in 1 .. Len(mailbox) /\ j \in 1 .. Len(mailbox)
    BY ZenonT(60), <1>1, <1>4, <2>1 DEF MailboxOK, NoDuplicates
  <2>2. CASE i = Len(mailbox) + 1 /\ j \in 1 .. Len(mailbox)
    BY <1>1, <1>3, <1>4, <2>2, Zenon
  <2>3. CASE j = Len(mailbox) + 1 /\ i \in 1 .. Len(mailbox)
    BY <1>1, <1>3, <1>4, <2>3, Zenon
  <2> QED
    BY <1>2, <2>1, <2>2, <2>3
<1>5. NoDuplicates'
  BY <1>4 DEF NoDuplicates
<1> QED
  BY <1>2, <1>5 DEF MailboxOK

\* Transaction ids that are given out leave the mailbox typed.
LEMMA MailboxUntouched ==
  ASSUME MailboxTyped, mailbox' = mailbox, uid \in Nat, uid' \in Nat, uid <= uid'
  PROVE  MailboxTyped'
<1>1. ASSUME NEW i \in 1 .. Len(mailbox), mailbox[i].kind = "SendInitial"
      PROVE  mailbox[i].id \in 1 .. uid'
  <2>1. mailbox[i].id \in 1 .. uid
    BY <1>1 DEF MailboxTyped
  <2>2. \A x \in 1 .. uid : x \in 1 .. uid'
    OBVIOUS
  <2> QED
    BY <2>1, <2>2, Zenon
<1> QED
  BY <1>1, Zenon DEF MailboxTyped

\* Every step of the stack keeps its tables well typed.
LEMMA TypeStep ==
  ASSUME TypeOK, NumbersApart, [Next]_vars
  PROVE  TypeOK'
<1> USE ConstantsTyped
<1> USE DEF NewProcedure, Fate, SetOutcome, MapInsert, MapAssign, MapErase,
         NextSeq, NextTx, StartRetry, StartCleanup, RetriesLeft, Answered, Repeated
<1>t. /\ seq_num \in SeqNums /\ uid \in Nat /\ timer_id \in Nat
      /\ ProceduresTyped /\ TxTyped /\ TimersTyped /\ MailboxTyped /\ FateTyped
  BY DEF TypeOK, TxTyped, TimersTyped
<1>0. mailbox # <<>> =>
        /\ Head(mailbox) \in Message
        /\ Tail(mailbox) \in Seq(Message)
        /\ \A i \in 1 .. Len(Tail(mailbox)) :
             Tail(mailbox)[i].kind = "SendInitial" => Tail(mailbox)[i].id \in 1 .. uid
        /\ HeadIs("SendInitial") => Head(mailbox).id \in 1 .. uid
  BY <1>t, TakeFirst DEF MailboxTyped, HeadIs
<1>u. /\ UNCHANGED seq_num => seq_num' \in SeqNums
      /\ UNCHANGED pending_procedures => ProceduresTyped'
      /\ UNCHANGED <<uid, gtpc_tx_id2seq_num, owed>> => TxTyped'
      /\ UNCHANGED <<timer_id, msg_out_retry_timers, proc_cleanup_timers, clock>> =>
           TimersTyped'
      /\ UNCHANGED <<uid, mailbox>> => MailboxTyped'
      /\ UNCHANGED <<uid, fate>> => FateTyped'
  BY <1>t DEF ProceduresTyped, TxTyped, TimersTyped, MailboxTyped, FateTyped, Sent
<1>1. CASE Tick
  <2>4. TimersTyped'
    BY <1>1, <1>t DEF Tick, stack, TimersTyped
  <2> QED
    BY <1>1, <1>u, <2>4 DEF Tick, stack, TypeOK
<1>2. ASSUME NEW t \in DOMAIN clock, Fire(t)
      PROVE TypeOK'
  <2>a. TimeOutMsg(t) \in Message
    BY <1>2, <1>t DEF TimeOutMsg, Message, TimersTyped, TxTyped
  <2>5. MailboxTyped'
    BY <1>2, <1>t, <2>a, PostLast DEF Fire, TimeOutMsg, stack, MailboxTyped
  <2> QED
    BY <1>2, <1>u, <2>5 DEF Fire, stack, TypeOK
<1>3. ASSUME NEW type \in LocalTypes, NEW tx \in 1 .. NextTx, AppSendInitial(type, tx)
      PROVE TypeOK'
  <2>3. TxTyped'
    BY <1>3, <1>t DEF AppSendInitial, TxTyped
  <2>a. SendInitialMsg(type, tx) \in Message
    BY <1>3, <1>t DEF SendInitialMsg, Message, TimersTyped, TxTyped
  <2>5. MailboxTyped'
    BY SMTT(60), <1>3, <1>t, <2>a, PostLast DEF AppSendInitial, SendInitialMsg, MailboxTyped
  <2>6. FateTyped'
    BY <1>3, <1>t DEF AppSendInitial, FateTyped, Sent
  <2> QED
    BY <1>3, <1>u, <2>3, <2>5, <2>6 DEF AppSendInitial, TypeOK
<1>4. ASSUME NEW tx \in DOMAIN owed, AppSendTriggered(tx)
      PROVE TypeOK'
  <2>a. SendTriggeredMsg(tx) \in Message
    BY <1>4, <1>t DEF SendTriggeredMsg, Message, TimersTyped, TxTyped
  <2>5. MailboxTyped'
    BY <1>4, <1>t, <2>a, PostLast DEF AppSendTriggered, SendTriggeredMsg, stack, MailboxTyped
  <2> QED
    BY <1>4, <1>u, <2>5 DEF AppSendTriggered, stack, TypeOK
<1>5. ASSUME NEW type \in PeerTypes, NEW seq \in PeerSeqs, ReceiveInitial(type, seq)
      PROVE TypeOK'
  <2>2. ProceduresTyped'
    BY <1>5, <1>t DEF ReceiveInitial, NewPeerProcedure, ProceduresTyped, Procedure
  <2>3. TxTyped'
    BY <1>5, <1>t DEF ReceiveInitial, NewPeerProcedure, TxTyped
  <2>4. TimersTyped'
    BY <1>5, <1>t DEF ReceiveInitial, NewPeerProcedure, TimersTyped
  <2>m. mailbox' = mailbox /\ uid' \in Nat /\ uid <= uid'
    BY <1>5, <1>t DEF ReceiveInitial, NewPeerProcedure
  <2>5. MailboxTyped'
    BY <1>t, <2>m, MailboxUntouched
  <2>6. FateTyped'
    BY <1>5, <1>t DEF ReceiveInitial, NewPeerProcedure, FateTyped, Sent
  <2> QED
    BY <1>5, <1>u, <2>2, <2>3, <2>4, <2>5, <2>6 DEF ReceiveInitial, NewPeerProcedure, TypeOK
<1>6. ASSUME NEW seq \in PeerSeqs, ReceiveEchoRequest(seq)
      PROVE TypeOK'
  <2>3. TxTyped'
    BY <1>6, <1>t DEF ReceiveEchoRequest, TxTyped
  <2>4. TimersTyped'
    BY <1>6, <1>t DEF ReceiveEchoRequest, TimersTyped
  <2>m. mailbox' = mailbox /\ uid' \in Nat /\ uid <= uid'
    BY <1>6, <1>t DEF ReceiveEchoRequest
  <2>5. MailboxTyped'
    BY <1>t, <2>m, MailboxUntouched
  <2>6. FateTyped'
    BY <1>6, <1>t DEF ReceiveEchoRequest, FateTyped, Sent
  <2> QED
    BY <1>6, <1>u, <2>3, <2>4, <2>5, <2>6 DEF ReceiveEchoRequest, TypeOK
<1>7. ASSUME NEW seq \in PeerSeqs, IgnoreEchoRequest(seq)
      PROVE TypeOK'
  <2>2. ProceduresTyped'
    BY <1>7, <1>t DEF IgnoreEchoRequest, NewPeerProcedure, GTP_ECHO_REQUEST, ProceduresTyped, Procedure
  <2>3. TxTyped'
    BY <1>7, <1>t DEF IgnoreEchoRequest, NewPeerProcedure, TxTyped
  <2>4. TimersTyped'
    BY <1>7, <1>t DEF IgnoreEchoRequest, NewPeerProcedure, TimersTyped
  <2>5. MailboxTyped'
    BY <1>7, <1>t DEF IgnoreEchoRequest, NewPeerProcedure, MailboxTyped
  <2>6. FateTyped'
    BY <1>7, <1>t DEF IgnoreEchoRequest, NewPeerProcedure, FateTyped, Sent
  <2> QED
    BY <1>7, <1>u, <2>2, <2>3, <2>4, <2>5, <2>6 DEF IgnoreEchoRequest, NewPeerProcedure, TypeOK
<1>8. ASSUME NEW type \in ReplyTypes, NEW seq \in Sent, ReceiveTriggered(type, seq)
      PROVE TypeOK'
  <2>2. ProceduresTyped'
    BY <1>8, <1>t DEF ReceiveTriggered, ProceduresTyped, Procedure
  <2>4. TimersTyped'
    BY <1>8, <1>t DEF ReceiveTriggered, TimerRemove, TimersTyped
  <2>6. FateTyped'
    BY <1>8, <1>t DEF ReceiveTriggered, FateTyped, Sent
  <2> QED
    BY <1>8, <1>u, <2>2, <2>4, <2>6 DEF ReceiveTriggered, TypeOK
<1>9. CASE TaskSendInitial
  <2>1. seq_num' \in SeqNums
    BY <1>9, <1>t DEF TaskSendInitial
  <2>2. ProceduresTyped'
    BY SMTT(60), <1>9, <1>t, <1>0 DEF TaskSendInitial, HeadIs, Message, ProceduresTyped, Procedure
  <2>3. TxTyped'
    BY <1>9, <1>t, <1>0 DEF TaskSendInitial, HeadIs, TxTyped
  <2>4. TimersTyped'
    BY <1>9, <1>t DEF TaskSendInitial, TimersTyped
  <2>5. MailboxTyped'
    BY <1>9, <1>t, <1>0 DEF TaskSendInitial, HeadIs, MailboxTyped, Message
  <2>6. FateTyped'
    BY <1>9, <1>t, <1>0 DEF TaskSendInitial, HeadIs, FateTyped, Sent
  <2> QED
    BY <1>9, <2>1, <2>2, <2>3, <2>4, <2>5, <2>6 DEF TaskSendInitial, TypeOK
<1>10. CASE TaskSendTriggered
  <2>2. ProceduresTyped'
    <3>1. /\ DOMAIN pending_procedures' \subseteq DOMAIN pending_procedures
          /\ \A s \in DOMAIN pending_procedures' : pending_procedures'[s] = pending_procedures[s]
      BY <1>10 DEF TaskSendTriggered
    <3> QED
      BY <1>t, <3>1 DEF ProceduresTyped
  <2>3. TxTyped'
    BY <1>10, <1>t, <1>0 DEF TaskSendTriggered, HeadIs, TxTyped
  <2>4. TimersTyped'
    BY <1>10, <1>t DEF TaskSendTriggered, TimerRemove, TimersTyped
  <2>5. MailboxTyped'
    BY SMTT(60), <1>10, <1>t, <1>0 DEF TaskSendTriggered, HeadIs, MailboxTyped, Message
  <2> QED
    BY <1>10, <1>u, <2>2, <2>3, <2>4, <2>5 DEF TaskSendTriggered, TypeOK
<1>11. ASSUME NEW t, RetryTimeOut(t)
      PROVE TypeOK'
  <2> PICK seq : seq = msg_out_retry_timers[t]
    OBVIOUS
  <2>1. seq \in DOMAIN pending_procedures /\ pending_procedures[seq] \in Procedure
    BY <1>11, <1>t DEF RetryTimeOut, ProceduresTyped
  <2>2. ProceduresTyped'
    <3>1. pending_procedures'[seq] \in Procedure
      BY <1>11, <1>t, <2>1 DEF RetryTimeOut, TimersTyped, Procedure
    <3>2. /\ DOMAIN pending_procedures' = DOMAIN pending_procedures
          /\ \A s \in DOMAIN pending_procedures \ {seq} :
               pending_procedures'[s] = pending_procedures[s]
      BY <1>11, <2>1 DEF RetryTimeOut
    <3> QED
      BY <1>t, <3>1, <3>2 DEF ProceduresTyped
  <2>4. TimersTyped'
    BY <1>11, <1>t DEF RetryTimeOut, TakeTimeOut, TimersTyped
  <2>5. MailboxTyped'
    <3>1. mailbox # <<>> /\ mailbox' = Tail(mailbox) /\ uid' = uid
      BY <1>11 DEF RetryTimeOut, TakeTimeOut, HeadIs
    <3> QED
      BY <1>0, <3>1 DEF MailboxTyped
  <2>6. FateTyped'
    <3>1. /\ fate' = MapAssign(fate, seq,
                             Fate(fate[seq].tx, fate[seq].outcome, fate[seq].tries + 1))
          /\ uid' = uid /\ t \in DOMAIN msg_out_retry_timers
      BY <1>11 DEF RetryTimeOut, TakeTimeOut
    <3>2. seq \in Sent
      BY <3>1 DEF NumbersApart
    <3>3. fate[seq] \in [tx : 1 .. uid, tries : Nat,
                         outcome : {"sent", "answered", "failed", "abandoned"}]
      BY <1>t, <3>2 DEF FateTyped
    <3>4. Fate(fate[seq].tx, fate[seq].outcome, fate[seq].tries + 1)
            \in [tx : 1 .. uid, tries : Nat, outcome : {"sent", "answered", "failed", "abandoned"}]
      BY <3>3
    <3>5. /\ DOMAIN fate' = DOMAIN fate /\ \A s \in DOMAIN fate \ {seq} : fate'[s] = fate[s]
          /\ fate'[seq] = Fate(fate[seq].tx, fate[seq].outcome, fate[seq].tries + 1)
      BY <3>1, <3>2 DEF Sent
    <3> QED
      BY <1>t, <3>1, <3>4, <3>5 DEF FateTyped, Sent
  <2> QED
    BY <1>11, <1>u, <2>2, <2>4, <2>5, <2>6 DEF RetryTimeOut, TakeTimeOut, TypeOK
<1>12. ASSUME NEW t, AbortTimeOut(t)
      PROVE TypeOK'
  <2>2. ProceduresTyped'
    BY <1>12, <1>t, <1>0 DEF AbortTimeOut, TakeTimeOut, HeadIs, Message, ProceduresTyped, Procedure
  <2>4. TimersTyped'
    BY <1>12, <1>t DEF AbortTimeOut, TakeTimeOut, TimersTyped
  <2>5. MailboxTyped'
    <3>1. mailbox # <<>> /\ mailbox' = Tail(mailbox) /\ uid' = uid
      BY SMTT(60), <1>12 DEF AbortTimeOut, TakeTimeOut, HeadIs
    <3> QED
      BY <1>0, <3>1 DEF MailboxTyped
  <2>6. FateTyped'
    BY <1>12, <1>t, <1>0 DEF AbortTimeOut, TakeTimeOut, HeadIs, NumbersApart, FateTyped, Sent
  <2> QED
    BY <1>12, <1>u, <2>2, <2>4, <2>5, <2>6 DEF AbortTimeOut, TakeTimeOut, TypeOK
<1>13. ASSUME NEW t, CleanupTimeOut(t)
      PROVE TypeOK'
  <2>2. ProceduresTyped'
    BY <1>13, <1>t, <1>0 DEF CleanupTimeOut, TakeTimeOut, HeadIs, Message, ProceduresTyped, Procedure
  <2>4. TimersTyped'
    BY <1>13, <1>t DEF CleanupTimeOut, TakeTimeOut, TimersTyped
  <2>5. MailboxTyped'
    <3>1. mailbox # <<>> /\ mailbox' = Tail(mailbox) /\ uid' = uid
      BY <1>13 DEF CleanupTimeOut, TakeTimeOut, HeadIs
    <3> QED
      BY <1>0, <3>1 DEF MailboxTyped
  <2>6. FateTyped'
    BY SMTT(60), <1>13, <1>t, <1>0 DEF CleanupTimeOut, TakeTimeOut, HeadIs, NumbersApart, FateTyped, Sent
  <2> QED
    BY <1>13, <1>u, <2>2, <2>4, <2>5, <2>6 DEF CleanupTimeOut, TakeTimeOut, TypeOK
<1>14. ASSUME NEW t, StaleTimeOut(t)
      PROVE TypeOK'
  <2>4. TimersTyped'
    BY <1>14, <1>t DEF StaleTimeOut, TakeTimeOut, TimersTyped
  <2>5. MailboxTyped'
    BY <1>14, <1>t, <1>0 DEF StaleTimeOut, TakeTimeOut, HeadIs, MailboxTyped, Message
  <2> QED
    BY <1>14, <1>u, <2>4, <2>5 DEF StaleTimeOut, TakeTimeOut, TypeOK
<1>15. CASE UNCHANGED vars
  BY <1>15, <1>u DEF vars, stack, TypeOK
<1> QED
  BY <1>1, <1>2, <1>3, <1>4, <1>5, <1>6, <1>7, <1>8, <1>9, <1>10, <1>11, <1>12,
     <1>13, <1>14, <1>15
  DEF Next, TimerThread, App, Receive, Task, TimeOut

\* Every step of the stack keeps its mailbox sound.
LEMMA MailboxStep ==
  ASSUME TypeOK, MailboxOK, [Next]_vars
  PROVE  MailboxOK'
<1> USE DEF MapInsert, MapErase, StartRetry, StartCleanup, NextTx
<1>t. MailboxTyped /\ TimersTyped /\ TxTyped
  BY DEF TypeOK
<1>1. CASE Tick
  <2>1. \A t \in DOMAIN clock : clock[t] <= 0 => t \in DOMAIN clock' /\ clock'[t] <= 0
    BY <1>1, <1>t DEF Tick, TimersTyped
  <2> QED
    BY <1>1, <1>t, <2>1, MailboxKept DEF Tick
<1>2. ASSUME NEW t \in DOMAIN clock, Fire(t)
      PROVE  MailboxOK'
  <2>1. TimeOutMsg(t) \in Message
    BY <1>t DEF TimeOutMsg, Message, TimersTyped
  <2> QED
    BY <1>2, <1>t, <2>1, MailboxPosted DEF Fire, TimeOutMsg
<1>3. ASSUME NEW type \in LocalTypes, NEW tx \in 1 .. NextTx, AppSendInitial(type, tx)
      PROVE  MailboxOK'
  <2>1. SendInitialMsg(type, tx) \in Message
    BY <1>t, ConstantsTyped DEF SendInitialMsg, Message, TxTyped
  <2> QED
    BY <1>3, <1>t, <2>1, MailboxPosted DEF AppSendInitial, SendInitialMsg
<1>4. ASSUME NEW tx \in DOMAIN owed, AppSendTriggered(tx)
      PROVE  MailboxOK'
  <2>1. SendTriggeredMsg(tx) \in Message
    BY <1>t DEF SendTriggeredMsg, Message, TxTyped
  <2> QED
    BY <1>4, <1>t, <2>1, MailboxPosted DEF AppSendTriggered, SendTriggeredMsg
<1>5. ASSUME NEW type \in PeerTypes, NEW seq \in PeerSeqs, ReceiveInitial(type, seq)
      PROVE  MailboxOK'
  BY <1>5, <1>t, MailboxKept DEF ReceiveInitial, NewPeerProcedure
<1>6. ASSUME NEW seq \in PeerSeqs, ReceiveEchoRequest(seq)
      PROVE  MailboxOK'
  BY <1>6, <1>t, MailboxKept DEF ReceiveEchoRequest
<1>7. ASSUME NEW seq \in PeerSeqs, IgnoreEchoRequest(seq)
      PROVE  MailboxOK'
  BY <1>7, <1>t, MailboxKept DEF IgnoreEchoRequest, NewPeerProcedure
<1>8. ASSUME NEW type \in ReplyTypes, NEW seq \in Sent, ReceiveTriggered(type, seq)
      PROVE  MailboxOK'
  BY <1>8, <1>t, MailboxKept DEF ReceiveTriggered, TimerRemove
<1>9. CASE TaskSendInitial
  BY <1>9, <1>t, MailboxKept DEF TaskSendInitial, HeadIs
<1>10. CASE TaskSendTriggered
  <2> PICK tx : tx = Head(mailbox).id
    OBVIOUS
  <2>1. ~Posted("SendTriggered", tx)'
    BY <1>10, <1>t, TakenOnce DEF TaskSendTriggered, HeadIs
  <2>2. \A x \in DOMAIN owed : x # tx => x \in DOMAIN owed'
    BY <1>10 DEF TaskSendTriggered
  <2>3. \A t \in DOMAIN clock :
          Posted("TimeOut", t) => t \in DOMAIN clock' /\ clock'[t] = clock[t]
    BY <1>10 DEF TaskSendTriggered, TimerRemove
  <2>4. mailbox # <<>> /\ mailbox' = Tail(mailbox)
    BY <1>10 DEF TaskSendTriggered, HeadIs
  <2> QED
    BY <1>t, <2>1, <2>2, <2>3, <2>4, MailboxKept
<1>11. ASSUME NEW t, TakeTimeOut(t), owed' = owed,
              \A u \in DOMAIN clock \ {t} : u \in DOMAIN clock' /\ clock'[u] = clock[u]
       PROVE  MailboxOK'
  <2>1. ~Posted("TimeOut", t)'
    BY <1>11, <1>t, TakenOnce DEF TakeTimeOut, HeadIs
  <2>2. mailbox # <<>> /\ mailbox' = Tail(mailbox)
    BY <1>11 DEF TakeTimeOut, HeadIs
  <2> QED
    BY <1>11, <1>t, <2>1, <2>2, MailboxKept
<1>12. ASSUME NEW t, TimeOut(t)
       PROVE  MailboxOK'
  <2>1. TakeTimeOut(t) /\ owed' = owed
    BY <1>12 DEF TimeOut, RetryTimeOut, AbortTimeOut, CleanupTimeOut, StaleTimeOut
  <2>2. \A u \in DOMAIN clock \ {t} : u \in DOMAIN clock' /\ clock'[u] = clock[u]
    BY <1>12 DEF TimeOut, RetryTimeOut, AbortTimeOut, CleanupTimeOut, StaleTimeOut
  <2> QED
    BY <1>11, <2>1, <2>2
<1>13. CASE UNCHANGED vars
  BY <1>13, <1>t, MailboxKept DEF vars
<1> QED
  BY <1>1, <1>2, <1>3, <1>4, <1>5, <1>6, <1>7, <1>8, <1>9, <1>10, <1>12, <1>13
  DEF Next, TimerThread, App, Receive, Task

\* Every step keeps the tables of procedures and timers consistent.
LEMMA TablesStep ==
  ASSUME TypeOK, MailboxOK, NumbersApart, ProcedureTimers, RetryTimerOwned, [Next]_vars
  PROVE  NumbersApart' /\ ProcedureTimers' /\ RetryTimerOwned'
<1> USE ConstantsTyped
<1> USE DEF NewProcedure, Fate, SetOutcome, MapInsert, MapAssign, MapErase, Sent,
         NextSeq, NextTx, StartRetry, StartCleanup, RetriesLeft, Answered, Repeated
<1>t. TimersTyped /\ ProceduresTyped /\ FateTyped /\ MailboxTyped /\ TypeOK'
  BY TypeStep DEF TypeOK
<1>u. ASSUME UNCHANGED <<pending_procedures, msg_out_retry_timers,
                         proc_cleanup_timers, fate>>
      PROVE  NumbersApart' /\ ProcedureTimers' /\ RetryTimerOwned'
  BY <1>u DEF NumbersApart, ProcedureTimers, RetryTimerOwned
<1>n. ASSUME NEW type, NEW seq \in PeerSeqs, NewPeerProcedure(type, seq)
      PROVE  NumbersApart' /\ ProcedureTimers' /\ RetryTimerOwned'
  <2>1. NumbersApart'
    BY <1>n, <1>t DEF NewPeerProcedure, NumbersApart, TimersTyped
  <2>2. RetryTimerOwned'
    BY <1>n, <1>t DEF NewPeerProcedure, RetryTimerOwned, NumbersApart
  <2>3. /\ seq \notin Sent /\ fate' = fate
        /\ timer_id + 1 \notin DOMAIN proc_cleanup_timers
    BY <1>n, <1>t DEF NewPeerProcedure, NumbersApart, TimersTyped
  <2>4. \A s \in DOMAIN pending_procedures' :
          \/ s = seq
          \/ /\ s \in DOMAIN pending_procedures
             /\ pending_procedures'[s] = pending_procedures[s]
    BY <1>n DEF NewPeerProcedure
  <2>5. \A t \in DOMAIN proc_cleanup_timers' :
          \/ proc_cleanup_timers'[t] = seq
          \/ /\ t \in DOMAIN proc_cleanup_timers
             /\ proc_cleanup_timers'[t] = proc_cleanup_timers[t]
    BY <1>n DEF NewPeerProcedure
  <2>6. ASSUME NEW s \in DOMAIN pending_procedures'
        PROVE  LET p == pending_procedures'[s] IN
                 /\ p.cleanup_timer \in DOMAIN proc_cleanup_timers'
                 /\ proc_cleanup_timers'[p.cleanup_timer] = s
                 /\ p.retry_msg <=> s \in Sent
                 /\ s \in PeerSeqs => p.retry_timer = 0
                 /\ p.retry_timer # 0 =>
                      /\ p.retry_timer \in DOMAIN msg_out_retry_timers'
                      /\ msg_out_retry_timers'[p.retry_timer] = s
    <3>1. CASE s = seq
      <4>1. /\ pending_procedures'[seq].cleanup_timer = timer_id + 1
            /\ pending_procedures'[seq].retry_msg = FALSE
            /\ pending_procedures'[seq].retry_timer = 0
            /\ timer_id + 1 \in DOMAIN proc_cleanup_timers'
            /\ proc_cleanup_timers'[timer_id + 1] = seq
        BY <1>n, <2>3 DEF NewPeerProcedure
      <4> QED
        BY <2>3, <3>1, <4>1
    <3>2. CASE s # seq
      BY <1>n, <1>t, <2>4, <3>2 DEF NewPeerProcedure, ProcedureTimers, TimersTyped
    <3> QED
      BY <3>1, <3>2
  <2>7. ASSUME NEW t \in DOMAIN proc_cleanup_timers'
        PROVE  LET n == proc_cleanup_timers'[t] IN
                 n \in Sent \cap DOMAIN pending_procedures' =>
                   pending_procedures'[n].cleanup_timer = t
    BY <2>3, <2>4, <2>5 DEF ProcedureTimers
  <2>8. ProcedureTimers'
    BY <2>3, <2>6, <2>7 DEF ProcedureTimers
  <2> QED
    BY <2>1, <2>2, <2>8
<1>8. ASSUME NEW type \in ReplyTypes, NEW seq \in Sent, ReceiveTriggered(type, seq)
      PROVE  NumbersApart' /\ ProcedureTimers' /\ RetryTimerOwned'
  <2>1. NumbersApart'
    BY SMTT(60), <1>8 DEF ReceiveTriggered, NumbersApart
  <2>2. ProcedureTimers'
    BY <1>8 DEF ReceiveTriggered, ProcedureTimers
  <2>3. RetryTimerOwned'
    BY <1>8 DEF ReceiveTriggered, RetryTimerOwned
  <2> QED
    BY <2>1, <2>2, <2>3
<1>9. CASE TaskSendInitial
  <2> PICK seq : seq = NextSeq
    OBVIOUS
  <2> DEFINE retry == timer_id + 1
             clean == timer_id + 2
  <2>0. /\ seq \notin Sent \cup PeerSeqs
        /\ seq \notin DOMAIN pending_procedures
        /\ Sent' = Sent \cup {seq}
        /\ retry \notin DOMAIN msg_out_retry_timers
        /\ clean \notin DOMAIN proc_cleanup_timers
        /\ retry # 0
    BY <1>9, <1>t DEF TaskSendInitial, NumbersApart, TimersTyped
  <2>1. NumbersApart'
    BY <1>9, <1>t DEF TaskSendInitial, NumbersApart, TimersTyped
  <2>2. RetryTimerOwned'
    BY <1>9, <1>t DEF TaskSendInitial, RetryTimerOwned, NumbersApart, TimersTyped
  <2>3. /\ pending_procedures'[seq].retry_msg = TRUE
        /\ pending_procedures'[seq].retry_timer = retry
        /\ pending_procedures'[seq].cleanup_timer = clean
        /\ clean \in DOMAIN proc_cleanup_timers'
        /\ proc_cleanup_timers'[clean] = seq
        /\ retry \in DOMAIN msg_out_retry_timers'
        /\ msg_out_retry_timers'[retry] = seq
    BY <1>9, <2>0 DEF TaskSendInitial
  <2>4. /\ DOMAIN pending_procedures' = DOMAIN pending_procedures \cup {seq}
        /\ \A s \in DOMAIN pending_procedures :
             pending_procedures'[s] = pending_procedures[s]
        /\ DOMAIN proc_cleanup_timers' = DOMAIN proc_cleanup_timers \cup {clean}
        /\ \A t \in DOMAIN proc_cleanup_timers :
             proc_cleanup_timers'[t] = proc_cleanup_timers[t]
        /\ \A t \in DOMAIN msg_out_retry_timers :
             /\ t \in DOMAIN msg_out_retry_timers'
             /\ msg_out_retry_timers'[t] = msg_out_retry_timers[t]
    BY <1>9, <2>0 DEF TaskSendInitial
  <2>5. \A t \in DOMAIN proc_cleanup_timers : proc_cleanup_timers[t] # seq
    BY <2>0 DEF NumbersApart
  <2>6. ASSUME NEW s \in DOMAIN pending_procedures'
        PROVE  LET p == pending_procedures'[s] IN
                 /\ p.cleanup_timer \in DOMAIN proc_cleanup_timers'
                 /\ proc_cleanup_timers'[p.cleanup_timer] = s
                 /\ p.retry_msg <=> s \in Sent'
                 /\ s \in PeerSeqs => p.retry_timer = 0
                 /\ p.retry_timer # 0 =>
                      /\ p.retry_timer \in DOMAIN msg_out_retry_timers'
                      /\ msg_out_retry_timers'[p.retry_timer] = s
    <3>1. CASE s = seq
      BY <2>0, <2>3, <3>1
    <3>2. CASE s # seq
      BY <2>0, <2>4, <3>2 DEF ProcedureTimers
    <3> QED
      BY <3>1, <3>2
  <2>7. ASSUME NEW t \in DOMAIN proc_cleanup_timers'
        PROVE  LET n == proc_cleanup_timers'[t] IN
                 n \in Sent' \cap DOMAIN pending_procedures' =>
                   pending_procedures'[n].cleanup_timer = t
    <3>1. CASE t = clean
      BY <2>3, <3>1
    <3>2. CASE t # clean
      BY <2>0, <2>4, <2>5, <3>2 DEF ProcedureTimers
    <3> QED
      BY <3>1, <3>2
  <2>8. ProcedureTimers'
    BY <2>6, <2>7 DEF ProcedureTimers
  <2> QED
    BY <2>1, <2>2, <2>8
<1>10. CASE TaskSendTriggered
  <2>1. NumbersApart'
    BY <1>10 DEF TaskSendTriggered, NumbersApart
  <2>2. ProcedureTimers'
    BY <1>10, <1>t DEF TaskSendTriggered, ProcedureTimers, NumbersApart
  <2>3. RetryTimerOwned'
    BY <1>10 DEF TaskSendTriggered, RetryTimerOwned
  <2> QED
    BY <2>1, <2>2, <2>3
<1>11. ASSUME NEW t, RetryTimeOut(t)
       PROVE  NumbersApart' /\ ProcedureTimers' /\ RetryTimerOwned'
  <2> PICK seq : seq = msg_out_retry_timers[t]
    OBVIOUS
  <2> DEFINE new == timer_id + 1
  <2>0. /\ t \in DOMAIN msg_out_retry_timers
        /\ seq \in DOMAIN pending_procedures
        /\ seq \in Sent /\ seq \notin PeerSeqs
        /\ pending_procedures[seq].retry_timer = t
        /\ new \notin DOMAIN msg_out_retry_timers
        /\ new # 0
    BY <1>11, <1>t DEF RetryTimeOut, RetryTimerOwned, NumbersApart, TimersTyped
  <2>1. NumbersApart'
    BY <1>11, <1>t, <2>0 DEF RetryTimeOut, NumbersApart, TimersTyped
  <2>2. RetryTimerOwned'
    BY <1>11, <1>t, <2>0 DEF RetryTimeOut, RetryTimerOwned
  <2>3. /\ DOMAIN fate' = Sent
        /\ DOMAIN pending_procedures' = DOMAIN pending_procedures
        /\ proc_cleanup_timers' = proc_cleanup_timers
        /\ \A s \in DOMAIN pending_procedures :
             /\ pending_procedures'[s].cleanup_timer = pending_procedures[s].cleanup_timer
             /\ pending_procedures'[s].retry_msg = pending_procedures[s].retry_msg
             /\ s # seq => pending_procedures'[s] = pending_procedures[s]
        /\ pending_procedures'[seq].retry_timer = new
        /\ new \in DOMAIN msg_out_retry_timers'
        /\ msg_out_retry_timers'[new] = seq
        /\ \A u \in DOMAIN msg_out_retry_timers \ {t} :
             /\ u \in DOMAIN msg_out_retry_timers'
             /\ msg_out_retry_timers'[u] = msg_out_retry_timers[u]
    BY <1>11, <1>t, <2>0 DEF RetryTimeOut, NumbersApart
  <2>4. ASSUME NEW s \in DOMAIN pending_procedures', s # seq,
               pending_procedures'[s].retry_timer # 0
        PROVE  /\ pending_procedures'[s].retry_timer \in DOMAIN msg_out_retry_timers'
               /\ msg_out_retry_timers'[pending_procedures'[s].retry_timer] = s
    BY <2>0, <2>3, <2>4 DEF ProcedureTimers
  <2>5. ProcedureTimers'
    BY <2>0, <2>3, <2>4 DEF ProcedureTimers
  <2> QED
    BY <2>1, <2>2, <2>5
<1>12. ASSUME NEW t, AbortTimeOut(t)
       PROVE  NumbersApart' /\ ProcedureTimers' /\ RetryTimerOwned'
  <2>1. NumbersApart'
    BY <1>12 DEF AbortTimeOut, NumbersApart
  <2>2. ProcedureTimers'
    BY <1>12 DEF AbortTimeOut, ProcedureTimers, NumbersApart
  <2>3. RetryTimerOwned'
    BY <1>12 DEF AbortTimeOut, RetryTimerOwned
  <2> QED
    BY <2>1, <2>2, <2>3
<1>13. ASSUME NEW t, CleanupTimeOut(t)
       PROVE  NumbersApart' /\ ProcedureTimers' /\ RetryTimerOwned'
  <2>1. NumbersApart'
    BY <1>13 DEF CleanupTimeOut, NumbersApart
  <2>2. ProcedureTimers'
    BY <1>13 DEF CleanupTimeOut, ProcedureTimers
  <2>3. RetryTimerOwned'
    BY <1>13 DEF CleanupTimeOut, RetryTimerOwned
  <2> QED
    BY <2>1, <2>2, <2>3
<1>14. ASSUME NEW t, StaleTimeOut(t)
       PROVE  NumbersApart' /\ ProcedureTimers' /\ RetryTimerOwned'
  <2>1. NumbersApart'
    BY <1>14 DEF StaleTimeOut, NumbersApart
  <2>2. ProcedureTimers'
    BY <1>14 DEF StaleTimeOut, ProcedureTimers
  <2>3. RetryTimerOwned'
    BY <1>14 DEF StaleTimeOut, RetryTimerOwned
  <2> QED
    BY <2>1, <2>2, <2>3
<1>6. ASSUME NEW seq \in PeerSeqs, ReceiveEchoRequest(seq)
      PROVE  NumbersApart' /\ ProcedureTimers' /\ RetryTimerOwned'
  <2>1. NumbersApart'
    BY <1>6, <1>t DEF ReceiveEchoRequest, NumbersApart, TimersTyped
  <2>2. ProcedureTimers'
    BY <1>6, <1>t DEF ReceiveEchoRequest, ProcedureTimers, TimersTyped
  <2>3. RetryTimerOwned'
    BY <1>6 DEF ReceiveEchoRequest, RetryTimerOwned
  <2> QED
    BY <2>1, <2>2, <2>3
<1>1. CASE Tick \/ UNCHANGED vars
  BY <1>1, <1>u DEF Tick, vars, stack
<1>2. ASSUME NEW t \in DOMAIN clock, Fire(t)
      PROVE  NumbersApart' /\ ProcedureTimers' /\ RetryTimerOwned'
  BY <1>2, <1>u DEF Fire, stack
<1>3. CASE App
  BY <1>3, <1>u DEF App, AppSendInitial, AppSendTriggered, stack
<1>5. CASE Receive
  BY <1>5, <1>n, <1>6, <1>8 DEF Receive, ReceiveInitial, IgnoreEchoRequest
<1>15. CASE Task
  BY <1>15, <1>9, <1>10, <1>11, <1>12, <1>13, <1>14 DEF Task, TimeOut
<1> QED
  BY <1>1, <1>2, <1>3, <1>5, <1>15 DEF Next, TimerThread

\* An answer can be sent with its number as long as it is owed.
LEMMA AnswerStep ==
  ASSUME TypeOK, AnswerKeepsNumber, [Next]_vars
  PROVE  AnswerKeepsNumber'
<1> USE DEF MapInsert, MapErase, AnswerKeepsNumber, NextTx
<1>t. TxTyped /\ MailboxTyped
  BY DEF TypeOK
<1>1. CASE UNCHANGED <<gtpc_tx_id2seq_num, owed>>
  BY <1>1
<1>2. ASSUME NEW type, NEW seq, ReceiveInitial(type, seq)
      PROVE  AnswerKeepsNumber'
  BY <1>2, <1>t DEF ReceiveInitial, NewPeerProcedure, TxTyped
<1>3. ASSUME NEW seq, IgnoreEchoRequest(seq)
      PROVE  AnswerKeepsNumber'
  BY <1>3, <1>t DEF IgnoreEchoRequest, NewPeerProcedure, TxTyped
<1>4. CASE TaskSendInitial
  BY <1>4, <1>t DEF TaskSendInitial, TxTyped
<1>5. CASE TaskSendTriggered
  BY <1>5, <1>t DEF TaskSendTriggered
<1>6. Tick \/ TimerThread \/ App \/ (\E seq : ReceiveEchoRequest(seq))
        \/ (\E type, seq : ReceiveTriggered(type, seq))
        \/ (\E t : TimeOut(t)) \/ UNCHANGED vars
      => UNCHANGED <<gtpc_tx_id2seq_num, owed>>
  BY DEF vars, stack, Tick, TimerThread, Fire, App, AppSendInitial, AppSendTriggered,
         ReceiveEchoRequest, ReceiveTriggered, TimeOut, RetryTimeOut, AbortTimeOut,
         CleanupTimeOut, StaleTimeOut
<1> QED
  BY <1>1, <1>2, <1>3, <1>4, <1>5, <1>6 DEF Next, Receive, Task

\* No time-out is handled later than LATENESS after its expiry.
LEMMA ClockStep ==
  ASSUME TypeOK, ClockOK, [Next]_vars
  PROVE  ClockOK'
<1> USE ConstantsTyped
<1> USE DEF MapInsert, MapErase, ClockOK, StartRetry, StartCleanup
<1>t. TimersTyped
  BY DEF TypeOK
<1>1. CASE clock' = clock
  BY <1>1
<1>2. CASE Tick
  BY <1>2, <1>t DEF Tick, TimersTyped
<1>3. CASE Receive
  <2>1. ASSUME NEW type, NEW seq, NewPeerProcedure(type, seq)
        PROVE  ClockOK'
    BY <2>1 DEF NewPeerProcedure
  <2>2. ASSUME NEW seq, ReceiveEchoRequest(seq)
        PROVE  ClockOK'
    BY <2>2 DEF ReceiveEchoRequest
  <2>3. ASSUME NEW type, NEW seq, ReceiveTriggered(type, seq)
        PROVE  ClockOK'
    BY <2>3 DEF ReceiveTriggered, TimerRemove
  <2> QED
    BY <1>3, <2>1, <2>2, <2>3 DEF Receive, ReceiveInitial, IgnoreEchoRequest
<1>4. CASE TaskSendInitial
  BY <1>4 DEF TaskSendInitial
<1>5. CASE TaskSendTriggered
  BY <1>5 DEF TaskSendTriggered, TimerRemove
<1>6. ASSUME NEW t, TimeOut(t)
      PROVE  ClockOK'
  BY <1>6 DEF TimeOut, RetryTimeOut, AbortTimeOut, CleanupTimeOut, StaleTimeOut
<1>7. TimerThread \/ App \/ UNCHANGED vars => clock' = clock
  BY DEF vars, TimerThread, Fire, App, AppSendInitial, AppSendTriggered
<1> QED
  BY <1>1, <1>2, <1>3, <1>4, <1>5, <1>6, <1>7 DEF Next, Task

\* The slack of a clean-up timer covers all repetitions and their lateness.
LEMMA SlackBounds ==
  ASSUME TimeBudget, NEW c \in Nat, c <= N3
  PROVE  /\ Slack(c) \in Int
         /\ Slack(c) > LATENESS
         /\ Slack(c) = Slack(c + 1) + T3 + LATENESS
         /\ GTPV2C_PROC_TIME_OUT = T3 + Slack(0)
<1> USE TimingAssumption
<1>1. c * LATENESS \in Nat /\ N3 * LATENESS \in Nat /\ (N3 - c) * T3 \in Nat
  OBVIOUS
<1>2. c * LATENESS <= N3 * LATENESS
  <2>1. (N3 - c) * LATENESS \in Nat
    OBVIOUS
  <2>2. N3 * LATENESS = c * LATENESS + (N3 - c) * LATENESS
    OBVIOUS
  <2> QED
    BY <1>1, <2>1, <2>2
<1>3. (N3 + 1) * LATENESS = N3 * LATENESS + LATENESS
  OBVIOUS
<1>4. (c + 1) * LATENESS = c * LATENESS + LATENESS
  OBVIOUS
<1>5. (N3 - c) * T3 = (N3 - (c + 1)) * T3 + T3
  OBVIOUS
<1>6. T3 * (N3 + 1) = N3 * T3 + T3
  OBVIOUS
<1>7. Slack(c) \in Int /\ Slack(c) > LATENESS
  BY <1>1, <1>2, <1>3 DEF Slack, TimeBudget
<1>8. Slack(c) = Slack(c + 1) + T3 + LATENESS
  BY <1>1, <1>4, <1>5 DEF Slack
<1>9. GTPV2C_PROC_TIME_OUT = T3 + Slack(0)
  BY <1>6 DEF Slack, GTPV2C_PROC_TIME_OUT
<1> QED
  BY <1>7, <1>8, <1>9

\* What the requests of this node rest on.
Base ==
  /\ TypeOK /\ MailboxOK /\ NumbersApart /\ ProcedureTimers /\ RetryTimerOwned
  /\ AnswerKeepsNumber /\ ClockOK

\* The timers of a pending request of this node are its own: a timer that is
\* registered for another number, or not at all, is neither of them.
LEMMA TimersApart ==
  ASSUME Base, NEW s \in Sent \cap DOMAIN pending_procedures,
         pending_procedures[s].retry_timer # 0,
         NEW t,
         t \in DOMAIN msg_out_retry_timers => msg_out_retry_timers[t] # s,
         t \in DOMAIN proc_cleanup_timers => proc_cleanup_timers[t] # s
  PROVE  t # pending_procedures[s].retry_timer /\ t # pending_procedures[s].cleanup_timer
  BY DEF Base, ProcedureTimers

\* An open request stays open when a step leaves it and its timers alone.
LEMMA OpenKept ==
  ASSUME NEW s, OpenRequest(s), fate'[s] = fate[s],
         s \in DOMAIN pending_procedures',
         pending_procedures'[s] = pending_procedures[s],
         \A t \in DOMAIN clock :
           \/ t # pending_procedures[s].retry_timer /\ t # pending_procedures[s].cleanup_timer
           \/ t \in DOMAIN clock' /\ clock'[t] = clock[t]
  PROVE  OpenRequest(s)'
  BY DEF OpenRequest

\* The time-out at the head of the mailbox is of an expired timer.
LEMMA TimeOutExpired ==
  ASSUME TypeOK, MailboxOK, NEW t, TakeTimeOut(t)
  PROVE  t \in DOMAIN clock /\ clock[t] \in Int /\ clock[t] <= 0
<1>1. 1 \in 1 .. Len(mailbox) /\ Head(mailbox) = mailbox[1]
  BY TakeFirst DEF TypeOK, MailboxTyped, TakeTimeOut, HeadIs
<1> QED
  BY <1>1 DEF TakeTimeOut, HeadIs, MailboxOK, TypeOK, TimersTyped

\* The clean-up timer of an open request does not expire.
LEMMA CleanupAfterRetries ==
  ASSUME Base, TimeBudget, NEW s \in Sent, OpenRequest(s)
  PROVE  clock[pending_procedures[s].cleanup_timer] > 0
<1> DEFINE p == pending_procedures[s]
<1>1. p.retry_count \in Nat /\ p.retry_count <= N3
  BY DEF Base, TypeOK, ProceduresTyped, Procedure, OpenRequest
<1>2. Slack(p.retry_count) \in Int /\ Slack(p.retry_count) > LATENESS
  BY <1>1, SlackBounds
<1>3. /\ clock[p.retry_timer] \in Int /\ clock[p.retry_timer] >= -LATENESS
      /\ clock[p.cleanup_timer] \in Int
  BY DEF Base, ClockOK, TypeOK, TimersTyped, OpenRequest
<1>4. clock[p.cleanup_timer] >= clock[p.retry_timer] + Slack(p.retry_count)
  BY DEF OpenRequest
<1> QED
  BY <1>2, <1>3, <1>4, TimingAssumption

\* The step that repeats a request leaves its clean-up timer the slack of one
\* repetition more.
LEMMA RepeatKeepsOpen ==
  ASSUME Base, TimeBudget, NEW t, RetryTimeOut(t),
         NEW s, s = msg_out_retry_timers[t], s \in Sent, OpenRequest(s)
  PROVE  OpenRequest(s)'
<1> USE ConstantsTyped
<1> USE DEF MapInsert, MapAssign, MapErase, Fate,
         NextSeq, NextTx, StartRetry, StartCleanup, RetriesLeft, Answered, Repeated
<1> DEFINE p == pending_procedures[s]
           c == p.retry_count
           new == timer_id + 1
<1>1. /\ t \in DOMAIN msg_out_retry_timers /\ s \in DOMAIN pending_procedures
      /\ p.retry_timer = t /\ c \in Nat /\ c < N3 /\ c = fate[s].tries
      /\ p.cleanup_timer # t
      /\ p.cleanup_timer \in DOMAIN clock /\ new \notin DOMAIN clock
      /\ t \in DOMAIN clock /\ timer_id \in Nat
  BY DEF RetryTimeOut, OpenRequest, Base, RetryTimerOwned, NumbersApart,
         ProcedureTimers, TypeOK, ProceduresTyped, Procedure, TimersTyped
<1>2. /\ s \in DOMAIN pending_procedures'
      /\ pending_procedures'[s].retry_timer = new
      /\ pending_procedures'[s].cleanup_timer = p.cleanup_timer
      /\ pending_procedures'[s].retry_count = c + 1
  BY <1>1 DEF RetryTimeOut
<1>3. fate'[s].tries = c + 1
  BY <1>1 DEF RetryTimeOut
<1>4. /\ new \in DOMAIN clock' /\ clock'[new] = T3
      /\ p.cleanup_timer \in DOMAIN clock'
      /\ clock'[p.cleanup_timer] = clock[p.cleanup_timer]
  BY <1>1 DEF RetryTimeOut
<1>5. /\ clock[t] \in Int /\ clock[t] >= -LATENESS
      /\ clock[p.cleanup_timer] \in Int
      /\ clock[p.cleanup_timer] >= clock[t] + Slack(c)
  BY <1>1 DEF Base, ClockOK, TypeOK, TimersTyped, OpenRequest
<1>6. Slack(c) \in Int /\ Slack(c + 1) \in Int /\ Slack(c) = Slack(c + 1) + T3 + LATENESS
  BY <1>1, SlackBounds
<1>7. clock'[p.cleanup_timer] >= clock'[new] + Slack(c + 1)
  BY <1>4, <1>5, <1>6
<1> QED
  BY <1>1, <1>2, <1>3, <1>4, <1>7 DEF OpenRequest

\* A retry timer that finds its procedure finds an open request.
LEMMA RetryIsOpen ==
  ASSUME Base, OpenRequests, ClosedRequests, NEW t \in DOMAIN msg_out_retry_timers,
         NEW s, s = msg_out_retry_timers[t], s \in DOMAIN pending_procedures
  PROVE  /\ s \in Sent /\ fate[s].outcome = "sent" /\ OpenRequest(s)
         /\ t # 0 /\ t \notin DOMAIN proc_cleanup_timers
         /\ pending_procedures[s].retry_timer = t
<1>1. /\ s \in Sent /\ t # 0 /\ t \notin DOMAIN proc_cleanup_timers
      /\ pending_procedures[s].retry_timer = t
  BY DEF Base, TypeOK, TimersTyped, NumbersApart, RetryTimerOwned
<1> QED
  BY <1>1 DEF ClosedRequests, OpenRequests

\* A clean-up time-out never finds an open request.
LEMMA CleanupFindsClosed ==
  ASSUME Base, TimeBudget, OpenRequests, NEW t, CleanupTimeOut(t),
         NEW s, s = proc_cleanup_timers[t], s \in Sent
  PROVE  fate[s].outcome # "sent"
<1>1. /\ t \in DOMAIN proc_cleanup_timers /\ TakeTimeOut(t)
      /\ TypeOK /\ MailboxOK /\ ProcedureTimers
  BY DEF CleanupTimeOut, Base
<1>2. ASSUME OpenRequest(s)
      PROVE  FALSE
  <2>1. pending_procedures[s].cleanup_timer = t
    BY <1>1, <1>2 DEF ProcedureTimers, OpenRequest
  <2>2. clock[t] > 0
    BY <1>2, <2>1, CleanupAfterRetries
  <2> QED
    BY <1>1, <2>2, TimeOutExpired
<1> QED
  BY <1>2 DEF OpenRequests

\* The requests of this node are open or closed as the invariant says after
\* every step, provided that the budget of time is kept.
LEMMA RequestsStep ==
  ASSUME Base, Base', TimeBudget, OpenRequests, ClosedRequests, [Next]_vars
  PROVE  OpenRequests' /\ ClosedRequests'
<1> USE ConstantsTyped
<1> USE DEF NewProcedure, Fate, SetOutcome, MapInsert, MapAssign, MapErase,
         NextSeq, NextTx, StartRetry, StartCleanup, RetriesLeft, Answered, Repeated
<1>t. /\ TypeOK /\ TimersTyped /\ ProceduresTyped /\ FateTyped /\ MailboxTyped
      /\ TxTyped /\ MailboxOK /\ NumbersApart /\ ProcedureTimers /\ RetryTimerOwned
      /\ AnswerKeepsNumber
  BY DEF Base, TypeOK
<1>k. ASSUME fate' = fate,
             \A s \in Sent \cap DOMAIN pending_procedures :
               /\ s \in DOMAIN pending_procedures'
               /\ pending_procedures'[s] = pending_procedures[s],
             Sent \cap DOMAIN pending_procedures' \subseteq DOMAIN pending_procedures,
             \A s \in Sent \cap DOMAIN pending_procedures, t \in DOMAIN clock :
               pending_procedures[s].retry_timer # 0 =>
                 \/ /\ t # pending_procedures[s].retry_timer
                    /\ t # pending_procedures[s].cleanup_timer
                 \/ t \in DOMAIN clock' /\ clock'[t] = clock[t]
      PROVE  OpenRequests' /\ ClosedRequests'
  <2>1. ASSUME NEW s \in Sent, fate[s].outcome = "sent"
        PROVE  OpenRequest(s)'
    <3>1. OpenRequest(s)
      BY <2>1 DEF OpenRequests
    <3>2. s \in DOMAIN pending_procedures /\ pending_procedures[s].retry_timer # 0
      BY <3>1 DEF OpenRequest
    <3> QED
      BY <1>k, <2>1, <3>1, <3>2, OpenKept
  <2>2. OpenRequests'
    BY <1>k, <2>1 DEF OpenRequests, Sent
  <2>3. ClosedRequests'
    BY <1>k DEF ClosedRequests, Sent
  <2> QED
    BY <2>2, <2>3
<1>1. CASE Tick
  <2>1. ASSUME NEW s \in Sent, OpenRequest(s)
        PROVE  OpenRequest(s)'
    <3>1. pending_procedures[s].retry_count \in Nat
      BY <1>t, <2>1 DEF OpenRequest, ProceduresTyped, Procedure
    <3>2. Slack(pending_procedures[s].retry_count) \in Int
      BY <2>1, <3>1, SlackBounds DEF OpenRequest
    <3> QED
      BY <1>1, <1>t, <2>1, <3>2 DEF Tick, stack, OpenRequest, TimersTyped
  <2>2. OpenRequests'
    BY <1>1, <2>1 DEF Tick, OpenRequests, Sent
  <2>3. ClosedRequests'
    BY <1>1 DEF Tick, stack, ClosedRequests, Sent
  <2> QED
    BY <2>2, <2>3
<1>2. CASE UNCHANGED <<pending_procedures, clock, fate>>
  BY <1>2, <1>k
<1>5. ASSUME NEW type, NEW seq \in PeerSeqs, NewPeerProcedure(type, seq)
      PROVE  OpenRequests' /\ ClosedRequests'
  BY <1>5, <1>k, <1>t DEF NewPeerProcedure, NumbersApart
<1>8. ASSUME NEW type \in ReplyTypes, NEW seq \in Sent, ReceiveTriggered(type, seq)
      PROVE  OpenRequests' /\ ClosedRequests'
  <2> DEFINE r == pending_procedures[seq].retry_timer
  <2>5. seq \in DOMAIN pending_procedures /\ pending_procedures[seq].retry_msg
    BY <1>8, <1>t DEF ReceiveTriggered, ProcedureTimers
  <2>6. fate' = SetOutcome(seq, "answered")
    BY <1>8, <2>5 DEF ReceiveTriggered
  <2>7. /\ DOMAIN fate' = Sent
        /\ fate'[seq].outcome = "answered"
        /\ \A s \in Sent \ {seq} : fate'[s] = fate[s]
    BY <2>6 DEF Sent
  <2>8. /\ DOMAIN pending_procedures' = DOMAIN pending_procedures
        /\ pending_procedures'[seq].retry_timer = 0
        /\ \A s \in DOMAIN pending_procedures \ {seq} :
             pending_procedures'[s] = pending_procedures[s]
    BY <1>8, <2>5 DEF ReceiveTriggered
  <2>9. \A t \in DOMAIN clock \ {r} : t \in DOMAIN clock' /\ clock'[t] = clock[t]
    BY <1>8 DEF ReceiveTriggered, TimerRemove
  <2>1. ASSUME NEW s \in Sent \ {seq}, OpenRequest(s)
        PROVE  OpenRequest(s)'
    <3>1. s \in Sent \cap DOMAIN pending_procedures /\ pending_procedures[s].retry_timer # 0
      BY <2>1 DEF OpenRequest
    <3>2. \/ r \notin DOMAIN clock
          \/ /\ r \in DOMAIN msg_out_retry_timers
             /\ msg_out_retry_timers[r] = seq
             /\ r \notin DOMAIN proc_cleanup_timers
      BY <1>t, <2>5 DEF ProcedureTimers, NumbersApart, TimersTyped
    <3>3. \/ r \notin DOMAIN clock
          \/ r # pending_procedures[s].retry_timer /\ r # pending_procedures[s].cleanup_timer
      BY <2>1, <3>1, <3>2, TimersApart
    <3> QED
      BY <2>7, <2>8, <2>9, <2>1, <3>1, <3>3, OpenKept
  <2>2. OpenRequests'
    BY <2>7, <2>8, <2>9, <2>1 DEF OpenRequests, Sent
  <2>3. ClosedRequests'
    BY <2>7, <2>8, <2>9 DEF ClosedRequests, Sent
  <2> QED
    BY <2>2, <2>3
<1>9. CASE TaskSendInitial
  <2> PICK seq : seq = NextSeq
    OBVIOUS
  <2>0. /\ seq \notin Sent /\ Sent' = Sent \cup {seq}
        /\ seq \notin DOMAIN pending_procedures
        /\ DOMAIN pending_procedures' = DOMAIN pending_procedures \cup {seq}
        /\ fate'[seq].outcome = "sent"
        /\ \A s \in Sent : fate'[s] = fate[s]
        /\ \A s \in DOMAIN pending_procedures :
             pending_procedures'[s] = pending_procedures[s]
        /\ \A t \in DOMAIN clock : t \in DOMAIN clock' /\ clock'[t] = clock[t]
    BY <1>9, <1>t DEF TaskSendInitial, NumbersApart, Sent
  <2>1. OpenRequest(seq)'
    <3>1. /\ pending_procedures'[seq].retry_timer = timer_id + 1
          /\ pending_procedures'[seq].cleanup_timer = timer_id + 2
          /\ pending_procedures'[seq].retry_count = 0
          /\ fate'[seq].tries = 0
      BY <1>9, <2>0 DEF TaskSendInitial, Sent
    <3>2. /\ timer_id + 1 \in DOMAIN clock' /\ clock'[timer_id + 1] = T3
          /\ timer_id + 2 \in DOMAIN clock'
          /\ clock'[timer_id + 2] = GTPV2C_PROC_TIME_OUT
          /\ timer_id + 1 # 0
      BY <1>9, <1>t DEF TaskSendInitial, TimersTyped
    <3>3. GTPV2C_PROC_TIME_OUT = T3 + Slack(0) /\ Slack(0) \in Int
      BY SlackBounds
    <3> QED
      BY <2>0, <3>1, <3>2, <3>3 DEF OpenRequest
  <2>2. ASSUME NEW s \in Sent, OpenRequest(s)
        PROVE  OpenRequest(s)'
    BY <2>0, <2>2, OpenKept DEF OpenRequest
  <2>3. OpenRequests'
    BY <2>0, <2>1, <2>2 DEF OpenRequests
  <2>4. ClosedRequests'
    BY <2>0 DEF ClosedRequests
  <2> QED
    BY <2>3, <2>4
<1>10. CASE TaskSendTriggered
  <2> PICK tx, seq : tx = Head(mailbox).id /\ seq = gtpc_tx_id2seq_num[tx]
    OBVIOUS
  <2> DEFINE u == pending_procedures[seq].cleanup_timer
  <2>1. CASE UNCHANGED <<pending_procedures, clock, fate>>
    BY <2>1, <1>k
  <2>2. CASE ~UNCHANGED <<pending_procedures, clock, fate>>
    <3>1. tx \in DOMAIN gtpc_tx_id2seq_num /\ seq \in DOMAIN pending_procedures
      BY <1>10, <2>2 DEF TaskSendTriggered
    <3>2. tx \in DOMAIN owed
      <4>1. 1 \in 1 .. Len(mailbox) /\ Head(mailbox) = mailbox[1]
        BY <1>10, <1>t, TakeFirst DEF MailboxTyped, TaskSendTriggered, HeadIs
      <4> QED
        BY <1>10, <1>t, <4>1 DEF TaskSendTriggered, HeadIs, MailboxOK
    <3>3. seq \in PeerSeqs /\ seq \notin Sent
      BY <1>t, <3>2 DEF AnswerKeepsNumber, TxTyped, NumbersApart
    <3>4. /\ u \in DOMAIN proc_cleanup_timers /\ proc_cleanup_timers[u] = seq
          /\ u \notin DOMAIN msg_out_retry_timers
      BY <1>t, <3>1 DEF ProcedureTimers, NumbersApart
    <3>5. /\ fate' = fate
          /\ DOMAIN pending_procedures' = DOMAIN pending_procedures \ {seq}
          /\ \A s \in DOMAIN pending_procedures \ {seq} :
               pending_procedures'[s] = pending_procedures[s]
          /\ \A t \in DOMAIN clock \ {u} : t \in DOMAIN clock' /\ clock'[t] = clock[t]
      BY <1>10, <3>1 DEF TaskSendTriggered, TimerRemove
    <3>6. ASSUME NEW s \in Sent \cap DOMAIN pending_procedures,
                 pending_procedures[s].retry_timer # 0
          PROVE  u # pending_procedures[s].retry_timer /\ u # pending_procedures[s].cleanup_timer
      BY <3>3, <3>4, <3>6, TimersApart
    <3> QED
      BY <1>k, <3>3, <3>5, <3>6
  <2> QED
    BY <2>1, <2>2
<1>11. ASSUME NEW t, RetryTimeOut(t)
       PROVE  OpenRequests' /\ ClosedRequests'
  <2> PICK seq : seq = msg_out_retry_timers[t]
    OBVIOUS
  <2>0. t \in DOMAIN msg_out_retry_timers /\ seq \in DOMAIN pending_procedures
    BY <1>11 DEF RetryTimeOut
  <2>1. /\ seq \in Sent /\ fate[seq].outcome = "sent" /\ OpenRequest(seq)
        /\ t # 0 /\ t \notin DOMAIN proc_cleanup_timers
    BY <2>0, RetryIsOpen
  <2>2. OpenRequest(seq)'
    BY <1>11, <2>0, <2>1, RepeatKeepsOpen
  <2>3. /\ DOMAIN fate' = Sent
        /\ fate'[seq].outcome = "sent"
        /\ DOMAIN pending_procedures' = DOMAIN pending_procedures
        /\ \A s \in Sent \ {seq} : fate'[s] = fate[s]
        /\ \A s \in DOMAIN pending_procedures \ {seq} :
             pending_procedures'[s] = pending_procedures[s]
        /\ \A u \in DOMAIN clock \ {t} : u \in DOMAIN clock' /\ clock'[u] = clock[u]
    BY <1>11, <1>t, <2>0, <2>1 DEF RetryTimeOut, Sent
  <2>4. ASSUME NEW s \in Sent \ {seq}, OpenRequest(s)
        PROVE  OpenRequest(s)'
    <3>1. s \in Sent \cap DOMAIN pending_procedures /\ pending_procedures[s].retry_timer # 0
      BY <2>4 DEF OpenRequest
    <3>2. t # pending_procedures[s].retry_timer /\ t # pending_procedures[s].cleanup_timer
      BY <2>0, <2>1, <2>4, <3>1, TimersApart
    <3> QED
      BY <2>3, <2>4, <3>1, <3>2, OpenKept
  <2>5. OpenRequests'
    BY <2>2, <2>3, <2>4 DEF OpenRequests, Sent
  <2>6. ClosedRequests'
    BY <2>3 DEF ClosedRequests, Sent
  <2> QED
    BY <2>5, <2>6
<1>12. ASSUME NEW t, AbortTimeOut(t)
       PROVE  OpenRequests' /\ ClosedRequests'
  <2> PICK seq : seq = msg_out_retry_timers[t]
    OBVIOUS
  <2>0. /\ t \in DOMAIN msg_out_retry_timers /\ seq \in Sent
        /\ t \notin DOMAIN proc_cleanup_timers
    BY <1>12, <1>t DEF AbortTimeOut, NumbersApart
  <2>1. /\ DOMAIN fate' = Sent
        /\ fate'[seq].outcome = "failed"
        /\ DOMAIN pending_procedures' = DOMAIN pending_procedures \ {seq}
        /\ \A s \in Sent \ {seq} : fate'[s] = fate[s]
        /\ \A s \in DOMAIN pending_procedures \ {seq} :
             pending_procedures'[s] = pending_procedures[s]
        /\ \A u \in DOMAIN clock \ {t} : u \in DOMAIN clock' /\ clock'[u] = clock[u]
    BY <1>12, <2>0 DEF AbortTimeOut, Sent
  <2>2. ASSUME NEW s \in Sent \ {seq}, OpenRequest(s)
        PROVE  OpenRequest(s)'
    <3>1. s \in Sent \cap DOMAIN pending_procedures /\ pending_procedures[s].retry_timer # 0
      BY <2>2 DEF OpenRequest
    <3>2. t # pending_procedures[s].retry_timer /\ t # pending_procedures[s].cleanup_timer
      BY <2>0, <2>2, <3>1, TimersApart
    <3> QED
      BY <2>1, <2>2, <3>1, <3>2, OpenKept
  <2>3. OpenRequests'
    BY <2>1, <2>2 DEF OpenRequests, Sent
  <2>4. ClosedRequests'
    BY <2>1 DEF ClosedRequests, Sent
  <2> QED
    BY <2>3, <2>4
<1>13. ASSUME NEW t, CleanupTimeOut(t)
       PROVE  OpenRequests' /\ ClosedRequests'
  <2> PICK seq : seq = proc_cleanup_timers[t]
    OBVIOUS
  <2>0. /\ t \in DOMAIN proc_cleanup_timers /\ t \notin DOMAIN msg_out_retry_timers
        /\ TakeTimeOut(t)
    BY <1>13 DEF CleanupTimeOut
  <2>2. seq \in Sent => fate[seq].outcome # "sent"
    BY <1>13, CleanupFindsClosed
  <2>3. /\ fate' = fate
        /\ DOMAIN pending_procedures' = DOMAIN pending_procedures \ {seq}
        /\ \A s \in DOMAIN pending_procedures \ {seq} :
             pending_procedures'[s] = pending_procedures[s]
        /\ \A u \in DOMAIN clock \ {t} : u \in DOMAIN clock' /\ clock'[u] = clock[u]
    BY <1>13, <2>2 DEF CleanupTimeOut
  <2>4. ASSUME NEW s \in Sent, s # seq, OpenRequest(s)
        PROVE  OpenRequest(s)'
    <3>1. s \in Sent \cap DOMAIN pending_procedures /\ pending_procedures[s].retry_timer # 0
      BY <2>4 DEF OpenRequest
    <3>2. t # pending_procedures[s].retry_timer /\ t # pending_procedures[s].cleanup_timer
      BY <2>0, <2>4, <3>1, TimersApart
    <3> QED
      BY <2>3, <2>4, <3>1, <3>2, OpenKept
  <2>5. OpenRequests'
    BY <2>2, <2>3, <2>4 DEF OpenRequests, Sent
  <2>6. ClosedRequests'
    BY <2>3 DEF ClosedRequests, Sent
  <2> QED
    BY <2>5, <2>6
<1>14. ASSUME NEW t, StaleTimeOut(t)
       PROVE  OpenRequests' /\ ClosedRequests'
  <2>1. /\ UNCHANGED <<pending_procedures, fate>>
        /\ \A u \in DOMAIN clock \ {t} : u \in DOMAIN clock' /\ clock'[u] = clock[u]
    BY <1>14 DEF StaleTimeOut
  <2>2. ASSUME NEW s \in Sent \cap DOMAIN pending_procedures,
               pending_procedures[s].retry_timer # 0
        PROVE  t # pending_procedures[s].retry_timer /\ t # pending_procedures[s].cleanup_timer
    <3>1. t \in DOMAIN msg_out_retry_timers => msg_out_retry_timers[t] # s
      BY <1>14 DEF StaleTimeOut
    <3>2. t \notin DOMAIN proc_cleanup_timers
      BY <1>14, <1>t DEF StaleTimeOut, NumbersApart
    <3> QED
      BY <2>2, <3>1, <3>2, TimersApart
  <2> QED
    BY <1>k, <2>1, <2>2
<1>15. CASE TimerThread \/ App \/ (\E seq \in PeerSeqs : ReceiveEchoRequest(seq)) \/ UNCHANGED vars
  BY <1>2, <1>15 DEF vars, stack, TimerThread, Fire, App, AppSendInitial, AppSendTriggered,
                     ReceiveEchoRequest
<1>16. CASE Receive
  BY <1>5, <1>8, <1>15, <1>16 DEF Receive, ReceiveInitial, IgnoreEchoRequest
<1>17. CASE Task
  BY <1>9, <1>10, <1>11, <1>12, <1>13, <1>14, <1>17 DEF Task, TimeOut
<1> QED
  BY <1>1, <1>15, <1>16, <1>17 DEF Next

\* The parts of the inductive invariant that need no budget of time.
LEMMA BaseInit == Init => Base
<1> SUFFICES ASSUME Init PROVE Base
  OBVIOUS
<1> USE DEF Init, EmptyMap
<1>1. TypeOK
  BY SeqAssumption DEF TypeOK, ProceduresTyped, TxTyped, TimersTyped, MailboxTyped,
                       FateTyped, Sent
<1>2. MailboxOK
  BY DEF MailboxOK, NoDuplicates
<1>3. NumbersApart /\ ProcedureTimers /\ RetryTimerOwned /\ AnswerKeepsNumber /\ ClockOK
  BY DEF NumbersApart, ProcedureTimers, RetryTimerOwned, AnswerKeepsNumber, ClockOK, Sent
<1> QED
  BY <1>1, <1>2, <1>3 DEF Base

LEMMA BaseStep == Base /\ [Next]_vars => Base'
  BY TypeStep, MailboxStep, TablesStep, AnswerStep, ClockStep DEF Base

LEMMA BaseInvariant == Spec => []Base
  BY BaseInit, BaseStep, PTL DEF Spec

\* The tables of the stack stay well typed whatever the peer, the network,
\* the application and the timers do.
THEOREM TypeCorrect == Spec => []TypeOK
<1>1. Base => TypeOK
  BY DEF Base
<1> QED
  BY <1>1, BaseInvariant, PTL

\* time_out_event never takes a retry timer for a procedure that has no
\* message to repeat, or that another retry timer belongs to.
THEOREM RetryTimersAreOwned == Spec => []RetryTimerOwned
<1>1. Base => RetryTimerOwned
  BY DEF Base
<1> QED
  BY <1>1, BaseInvariant, PTL

\* send_triggered_message finds the sequence number of every answer that the
\* application owes.
THEOREM AnswersKeepNumbers == Spec => []AnswerKeepsNumber
<1>1. Base => AnswerKeepsNumber
  BY DEF Base
<1> QED
  BY <1>1, BaseInvariant, PTL

\* Within the budget of time the whole inductive invariant holds: an open
\* request is pending with its timers running, a closed one is not repeated.
THEOREM Invariance ==
  ASSUME TimeBudget
  PROVE  Spec => []IInv
<1>1. Init => IInv
  BY BaseInit DEF Init, IInv, Base, OpenRequests, ClosedRequests, Sent, EmptyMap
<1>2. IInv /\ [Next]_vars => IInv'
  <2> SUFFICES ASSUME IInv, [Next]_vars PROVE IInv'
    OBVIOUS
  <2>1. Base /\ Base'
    BY BaseStep DEF IInv, Base
  <2>2. OpenRequests' /\ ClosedRequests'
    BY <2>1, RequestsStep DEF IInv
  <2> QED
    BY <2>1, <2>2 DEF IInv, Base
<1> QED
  BY <1>1, <1>2, PTL DEF Spec

\* How a request of this node stands, as RequestReply sees it.
fateBar == [s \in Sent |-> [outcome |-> fate[s].outcome, tries |-> fate[s].tries]]

\* A step that gives one request a new outcome is seen as such a change.
LEMMA SeenChange ==
  ASSUME NEW s \in Sent, NEW outcome, NEW tries,
         DOMAIN fate' = Sent, \A r \in Sent \ {s} : fate'[r] = fate[r],
         fate'[s].outcome = outcome, fate'[s].tries = tries
  PROVE  RR!Becomes(s, outcome, tries)
  BY DEF RR!Becomes, Sent

\* Every step of the stack is a step of RequestReply or changes nothing there.
LEMMA StepImplements ==
  ASSUME Base, TimeBudget, OpenRequests, ClosedRequests, [Next]_vars
  PROVE  RR!Next \/ UNCHANGED fateBar
<1> USE DEF MapInsert, MapAssign, Fate, SetOutcome,
         NextSeq, NextTx, StartRetry, StartCleanup, RetriesLeft, Answered, Repeated
<1>t. /\ FateTyped /\ NumbersApart /\ ProcedureTimers
      /\ \A s \in Sent : s \in SeqNums
  BY DEF Base, TypeOK, FateTyped
<1>1. CASE fate' = fate
  BY <1>1 DEF fateBar, Sent
<1>2. CASE TaskSendInitial
  <2> PICK s : s = NextSeq
    OBVIOUS
  <2>1. /\ s \in SeqNums /\ s \notin Sent /\ Sent' = Sent \cup {s}
        /\ fate'[s] = [tx |-> Head(mailbox).id, outcome |-> "sent", tries |-> 0]
        /\ \A r \in Sent : fate'[r] = fate[r]
    BY <1>2, ConstantsTyped DEF TaskSendInitial, Base, TypeOK, Sent
  <2>2. RR!Send(s)
    BY <2>1 DEF RR!Send
  <2> QED
    BY <2>1, <2>2 DEF RR!Next
<1>3. ASSUME NEW type, NEW s \in Sent, ReceiveTriggered(type, s)
      PROVE  RR!Next \/ UNCHANGED fateBar
  <2>1. /\ s \in DOMAIN pending_procedures
        /\ fate' = SetOutcome(s, "answered")
    BY <1>3, <1>t DEF ReceiveTriggered, ProcedureTimers
  <2>2. /\ DOMAIN fate' = Sent /\ \A r \in Sent \ {s} : fate'[r] = fate[r]
        /\ fate'[s].outcome = "answered" /\ fate'[s].tries = fate[s].tries
    BY <2>1 DEF Sent
  <2>3. CASE fate[s].outcome = "sent"
    <3> PICK n : n = fate[s].tries
      OBVIOUS
    <3>1. RR!Becomes(s, "answered", n)
      BY <2>2, SeenChange
    <3>2. RR!Answer(s)
      BY <2>3, <3>1 DEF RR!Answer, RR!Open, RR!Becomes, Sent
    <3> QED
      BY <1>t, <3>2 DEF RR!Next, RR!Close
  <2>4. CASE fate[s].outcome # "sent"
    <3>1. fate[s].outcome = "answered"
      BY <2>1, <2>4 DEF ClosedRequests
    <3> QED
      BY <2>2, <3>1 DEF fateBar, Sent
  <2> QED
    BY <2>3, <2>4
<1>4. ASSUME NEW t, RetryTimeOut(t)
      PROVE  RR!Next
  <2> PICK s : s = msg_out_retry_timers[t]
    OBVIOUS
  <2>0. t \in DOMAIN msg_out_retry_timers /\ s \in DOMAIN pending_procedures
    BY <1>4 DEF RetryTimeOut
  <2>1. /\ s \in Sent /\ fate[s].outcome = "sent"
        /\ fate[s].tries = pending_procedures[s].retry_count
    BY <2>0, RetryIsOpen DEF OpenRequest
  <2>2. fate[s].tries < N3
    BY <1>4, <2>1 DEF RetryTimeOut
  <2>3. /\ DOMAIN fate' = Sent /\ \A r \in Sent \ {s} : fate'[r] = fate[r]
        /\ fate'[s].outcome = "sent" /\ fate'[s].tries = fate[s].tries + 1
    BY <1>4, <2>1 DEF RetryTimeOut, Sent
  <2> PICK n : n = fate[s].tries + 1
    OBVIOUS
  <2>4. RR!Becomes(s, "sent", n)
    BY <2>1, <2>3, SeenChange
  <2>5. RR!Repeat(s)
    BY <2>1, <2>2, <2>4 DEF RR!Repeat, RR!Open, RR!Becomes, Sent
  <2> QED
    BY <1>t, <2>1, <2>5 DEF RR!Next, RR!Close
<1>5. ASSUME NEW t, AbortTimeOut(t)
      PROVE  RR!Next
  <2> PICK s : s = msg_out_retry_timers[t]
    OBVIOUS
  <2>0. t \in DOMAIN msg_out_retry_timers /\ s \in DOMAIN pending_procedures
    BY <1>5 DEF AbortTimeOut
  <2>1. /\ s \in Sent /\ fate[s].outcome = "sent"
        /\ fate[s].tries = pending_procedures[s].retry_count
        /\ fate[s].tries <= N3
    BY <2>0, RetryIsOpen DEF OpenRequest
  <2>2. fate[s].tries = N3
    <3>1. fate[s].tries \in Nat
      BY <1>t, <2>1 DEF FateTyped
    <3>2. ~(fate[s].tries < N3)
      BY <1>5, <2>1 DEF AbortTimeOut
    <3> QED
      BY <2>1, <3>1, <3>2, TimingAssumption
  <2>3. /\ DOMAIN fate' = Sent /\ \A r \in Sent \ {s} : fate'[r] = fate[r]
        /\ fate'[s].outcome = "failed" /\ fate'[s].tries = N3
    BY <1>5, <2>1, <2>2 DEF AbortTimeOut, Sent
  <2>4. RR!Becomes(s, "failed", N3)
    BY <2>1, <2>3, SeenChange
  <2>5. RR!Fail(s)
    BY <2>1, <2>2, <2>4 DEF RR!Fail, RR!Open, Sent
  <2> QED
    BY <1>t, <2>1, <2>5 DEF RR!Next, RR!Close
<1>6. ASSUME NEW t, CleanupTimeOut(t)
      PROVE  fate' = fate
  BY <1>6, CleanupFindsClosed DEF CleanupTimeOut
<1>7. ASSUME NEW t, StaleTimeOut(t)
      PROVE  fate' = fate
  BY <1>7 DEF StaleTimeOut
<1>8. CASE Tick \/ TimerThread \/ App \/ UNCHANGED vars \/ TaskSendTriggered
  BY <1>1, <1>8 DEF vars, Tick, TimerThread, Fire, App, AppSendInitial,
                    AppSendTriggered, TaskSendTriggered
<1>9. CASE Receive
  BY <1>1, <1>3, <1>9 DEF Receive, ReceiveInitial, IgnoreEchoRequest,
                          NewPeerProcedure, ReceiveEchoRequest
<1>10. CASE Task
  BY <1>1, <1>2, <1>4, <1>5, <1>6, <1>7, <1>8, <1>10 DEF Task, TimeOut
<1> QED
  BY <1>8, <1>9, <1>10 DEF Next

\* The stack keeps the promise of RequestReply: every request is repeated at
\* most N3 times while it is open, ends once, answered or failed, and fails
\* only after all repetitions; the clean-up timer never ends one in silence.
THEOREM Implements ==
  ASSUME TimeBudget
  PROVE  Spec => RequestReplySafe
<1>1. Init => RR!Init
  BY DEF Init, RR!Init, EmptyMap, Sent
<1>2. IInv /\ [Next]_vars => [RR!Next]_fateBar
  BY StepImplements DEF IInv, Base
<1>3. fateBar = [s \in Sent |-> [outcome |-> fate[s].outcome, tries |-> fate[s].tries]]
  BY DEF fateBar
<1> QED
  BY <1>1, <1>2, <1>3, Invariance, PTL DEF Spec, RequestReplySafe, RR!Spec, fateBar

==============================================================================
