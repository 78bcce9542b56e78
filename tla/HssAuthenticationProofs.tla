------------------------ MODULE HssAuthenticationProofs ------------------------
(***************************************************************************)
(* Proofs about HssAuthentication for every number of requests, every       *)
(* "concurrent" option and every SQN of the UE.                             *)
(***************************************************************************)
EXTENDS HssAuthentication, FiniteSetTheorems, TLAPS

Indices(s) == 1 .. Len(s)

\* Processors exist for requests that arrived; the others are untouched.
ArrivalsOK ==
  /\ Len(request) \in 0 .. MaxRequests
  /\ live \subseteq Indices(request)
  /\ \A r \in Requests \ Indices(request) : next[r] = "phase1" /\ executed[r] = {}

Started == {r \in live : \A i \in 1 .. Len(queue) : queue[i] # r}

\* A queued processor was not touched by any thread. The slots that are free
\* and the processors that wait for one are matched by pending starts.
QueueOK ==
  /\ \A i, j \in Indices(queue) : queue[i] = queue[j] => i = j
  /\ \A i \in Indices(queue) : /\ queue[i] \in live \ locked
                               /\ next[queue[i]] = "phase1"
                               /\ msgs[queue[i]] = 0
  /\ active = Cardinality(Started)
  /\ starts + active >= Concurrent \/ starts >= Len(queue)

\* 1 while the callback of the operation has still to run.
Pending(r, o) == IF op[r][o] \in {"sent", "noted"} THEN 1 ELSE 0

\* The operations of a processor follow its phases; m_dbissued counts the
\* callbacks to come, m_dbexecuted holds the operations the database completed.
OpsOf(r) ==
  /\ next[r] \in {"phase1", "ulrFinal"} => op[r]["get"] = "none" /\ op[r]["update"] = "none"
  /\ next[r] = "phase2" => op[r]["get"] # "none" /\ op[r]["update"] = "none"
  /\ next[r] = "phase3" => op[r]["get"] \in {"noted", "done"} /\ op[r]["update"] # "none"
  /\ next[r] = "final" => op[r]["get"] \in {"noted", "done"} /\ op[r]["update"] # "sent"
  /\ r \in live => \A o \in Ops : o \in executed[r] <=> op[r][o] \in {"noted", "done"}
  /\ r \in live /\ op[r]["update"] # "none" => found[r]
  /\ issued[r] = Pending(r, "get") + Pending(r, "update")

OpsOK == \A r \in Requests : OpsOf(r)

\* A request is answered once, in its phase 2.
AnswersOK ==
  /\ \A i, j \in Indices(answers) : answers[i].req = answers[j].req => i = j
  /\ \A i \in Indices(answers) : next[answers[i].req] \in {"phase3", "final"}

\* The vector made for request x was given out with a SQN up to this one.
Overtaken(x, sqn) == \E i \in Indices(answers) : answers[i].req = x /\ answers[i].sqn <= sqn

\* What the UE refused, and what a resynchronisation names, it had overtaken.
UeOK ==
  /\ \A x \in ue.refused : Overtaken(x, ue.sqn)
  /\ \A r \in Indices(request) :
       request[r].kind = "resync" => Overtaken(request[r].rand, request[r].sqn)

Last == answers[Len(answers)]
Saving(q) == Between(q) /\ op[q]["update"] = "sent"

\* While every answer is saved before the row is read again: at most one
\* processor is between its reading and its update; before its answer it holds
\* the row, then the answer; otherwise the row is one step after the last answer.
RowOK ==
  unsaved \/
    /\ \A p, q \in Requests : Between(p) /\ Between(q) => p = q
    /\ \A q \in Requests : Between(q) /\ op[q]["update"] = "none" => sec[q] = row
    /\ \A q \in Requests : Saving(q) =>
         answers # <<>> /\ Last.req = q /\ sec[q] = [sqn |-> Last.sqn, rand |-> q]
    /\ (\A q \in Requests : ~Saving(q)) /\ answers # <<>> =>
         row = [sqn |-> Last.sqn + 1, rand |-> Last.req]

\* The part of the invariant about threads, and the part about the SQN.
Control == /\ TypeOK /\ ArrivalsOK /\ QueueOK /\ OpsOK
           /\ NothingDangling /\ NobodyStranded
Numbers == AnswersOK /\ UeOK /\ RowOK /\ SqnFresh

IInv == Control /\ Numbers

\* Putting an element at the end of a sequence leaves the others in their places.
LEMMA PutLast ==
  ASSUME NEW S, NEW s \in Seq(S), NEW e \in S
  PROVE  /\ Append(s, e) \in Seq(S) /\ Append(s, e) # <<>>
         /\ Len(s) \in Nat /\ Len(Append(s, e)) = Len(s) + 1
         /\ Append(s, e)[Len(s) + 1] = e
         /\ \A i \in Indices(s) : Append(s, e)[i] = s[i]
         /\ Indices(Append(s, e)) = Indices(s) \cup {Len(s) + 1}
  BY DEF Indices

LEMMA PutAny ==
  ASSUME NEW S, NEW s \in Seq(S), NEW e
  PROVE  /\ Append(s, e) # <<>>
         /\ Len(Append(s, e)) = Len(s) + 1
         /\ Append(s, e)[Len(s) + 1] = e
         /\ \A i \in Indices(s) : Append(s, e)[i] = s[i]
         /\ Indices(Append(s, e)) = Indices(s) \cup {Len(s) + 1}
  BY DEF Indices

LEMMA ElementTyped ==
  ASSUME NEW S, NEW s \in Seq(S), NEW i \in Indices(s)
  PROVE  s[i] \in S
  BY DEF Indices

\* Taking the first element shifts the others by one place.
LEMMA TakeFirst ==
  ASSUME NEW S, NEW s \in Seq(S), s # <<>>
  PROVE  /\ Head(s) \in S /\ Head(s) = s[1] /\ 1 \in Indices(s)
         /\ Tail(s) \in Seq(S)
         /\ Len(s) \in Nat /\ Len(Tail(s)) = Len(s) - 1
         /\ \A i \in Indices(Tail(s)) : i + 1 \in Indices(s) /\ i + 1 # 1 /\ Tail(s)[i] = s[i + 1]
  BY DEF Indices

LEMMA InvInit == Init => IInv
<1> SUFFICES ASSUME Init PROVE IInv
  OBVIOUS
<1> USE ConstantsAssumption DEF Init, Requests, Ops, NoRand
<1>1. TypeOK
  <2>1. queue \in Seq(Requests) /\ request \in Seq([kind : Kinds, rand : Requests \cup {NoRand}, sqn : Nat])
        /\ answers \in Seq([req : Requests, sqn : Nat])
    OBVIOUS
  <2>2. active \in 0 .. Concurrent /\ starts \in Nat /\ live \subseteq Requests /\ locked \subseteq live
    OBVIOUS
  <2>3. /\ next \in [Requests -> Phases]
        /\ msgs \in [Requests -> Nat]
        /\ issued \in [Requests -> Nat]
        /\ executed \in [Requests -> SUBSET Ops]
        /\ found \in [Requests -> BOOLEAN]
    BY DEF Phases
  <2>4. /\ op \in [Requests -> [Ops -> Opens]]
    BY DEF Opens
  <2>5. sec \in [Requests -> Sec] /\ row \in Sec
    BY DEF Sec
  <2>6. ue \in [sqn : Nat, refused : SUBSET Requests, seen : SUBSET Requests]
        /\ up \in BOOLEAN /\ unsaved \in BOOLEAN
    OBVIOUS
  <2> QED
    BY <2>1, <2>2, <2>3, <2>4, <2>5, <2>6 DEF TypeOK
<1>2. ArrivalsOK
  BY DEF ArrivalsOK, Indices
<1>3. QueueOK
  <2>1. Started = {}
    BY DEF Started
  <2> QED
    BY <2>1, FS_EmptySet DEF QueueOK, Indices
<1>4. OpsOK
  BY DEF OpsOK, OpsOf, Pending
<1>5. NothingDangling /\ NobodyStranded
  BY DEF NothingDangling, NobodyStranded, InFlight
<1>6. AnswersOK /\ UeOK /\ SqnFresh
  BY DEF AnswersOK, UeOK, SqnFresh, Indices
<1>7. RowOK
  BY DEF RowOK, Between, Saving
<1> QED
  BY <1>1, <1>2, <1>3, <1>4, <1>5, <1>6, <1>7 DEF IInv, Control, Numbers

\* Moving one database operation of one processor leaves the others alone.
LEMMA OpMoved ==
  ASSUME op \in [Requests -> [Ops -> Opens]], NEW r \in Requests, NEW o \in Ops, NEW v \in Opens,
         op' = [op EXCEPT ![r][o] = v]
  PROVE  /\ op' \in [Requests -> [Ops -> Opens]]
         /\ op'[r][o] = v
         /\ \A p \in Ops : p # o => op'[r][p] = op[r][p]
         /\ \A q \in Requests \ {r} : op'[q] = op[q]
  OBVIOUS

\* A processor that a worker runs was started.
LEMMA LockedStarted ==
  ASSUME TypeOK, QueueOK, NEW r \in locked
  PROVE  r \in Started /\ r \in live /\ r \in Requests
  BY ZenonT(60) DEF TypeOK, QueueOK, Started, Indices

LEMMA StartedFinite ==
  ASSUME TypeOK
  PROVE  IsFiniteSet(Started)
<1>1. IsFiniteSet(1 .. MaxRequests)
  BY ConstantsAssumption, FS_Interval
<1>2. Started \subseteq 1 .. MaxRequests
  BY DEF TypeOK, Started, Requests
<1> QED
  BY <1>1, <1>2, FS_Subset

\* m_active is not 0 while a worker runs a processor.
LEMMA ActivePositive ==
  ASSUME TypeOK, QueueOK, NEW r \in locked
  PROVE  active \in 1 .. Concurrent
<1>1. Cardinality(Started) # 0
  BY StartedFinite, LockedStarted, FS_EmptySet
<1> QED
  BY <1>1 DEF TypeOK, QueueOK

LEMMA TypeStep == Control /\ [Next]_vars => TypeOK'
<1> SUFFICES ASSUME Control, [Next]_vars PROVE TypeOK'
  OBVIOUS
<1>t. TypeOK /\ QueueOK /\ ArrivalsOK
  BY DEF Control
<1>f. /\ queue \in Seq(Requests) /\ answers \in Seq([req : Requests, sqn : Nat])
      /\ request \in Seq([kind : Kinds, rand : Requests \cup {NoRand}, sqn : Nat])
  BY <1>t DEF TypeOK
<1>g. /\ active \in 0 .. Concurrent /\ starts \in Nat
      /\ live \subseteq Requests /\ locked \subseteq live
      /\ msgs \in [Requests -> Nat] /\ issued \in [Requests -> Nat]
      /\ executed \in [Requests -> SUBSET Ops]
      /\ op \in [Requests -> [Ops -> Opens]]
      /\ sec \in [Requests -> Sec] /\ row \in Sec
  BY <1>t DEF TypeOK
<1> USE DEF queueVars, dbVars
<1>1. ASSUME NEW req \in [kind : Kinds, rand : Requests \cup {NoRand}, sqn : Nat], Receive(req),
             ue' \in [sqn : Nat, refused : SUBSET Requests, seen : SUBSET Requests]
      PROVE  TypeOK'
  <2> PICK r : r = Len(request) + 1
    OBVIOUS
  <2>1. r \in Requests
    BY <1>t, <1>1, ConstantsAssumption DEF Receive, ArrivalsOK, Requests
  <2>2. queue' \in Seq(Requests)
        /\ request' \in Seq([kind : Kinds, rand : Requests \cup {NoRand}, sqn : Nat])
    BY <1>t, <1>1, <2>1, PutLast DEF Receive, TypeOK
  <2>3. starts' \in Nat /\ live' \subseteq Requests /\ locked' \subseteq live'
    <3>1. starts' = starts + 1 /\ live' = live \cup {r} /\ locked' = locked
      BY <1>1 DEF Receive
    <3>2. starts + 1 \in Nat
      BY <1>g
    <3>3. live \cup {r} \subseteq Requests /\ locked \subseteq live \cup {r}
      BY <1>g, <2>1, Zenon
    <3> QED
      BY <3>1, <3>2, <3>3, Zenon
  <2> QED
    BY <1>t, <1>1, <2>2, <2>3 DEF Receive, TypeOK
<1>2. ASSUME NEW kind \in {"initial", "unknown", "refused"}, InitialRequest(kind)
      PROVE  TypeOK'
  <2>1. [kind |-> kind, rand |-> NoRand, sqn |-> 0]
          \in [kind : Kinds, rand : Requests \cup {NoRand}, sqn : Nat]
    BY DEF Kinds
  <2> QED
    BY <1>t, <1>1, <1>2, <2>1 DEF InitialRequest, TypeOK
<1>3. ASSUME NEW r \in Requests, ResyncRequest(r)
      PROVE  TypeOK'
  <2>1. [kind |-> "resync", rand |-> r, sqn |-> ue.sqn]
          \in [kind : Kinds, rand : Requests \cup {NoRand}, sqn : Nat]
    BY <1>t DEF Kinds, TypeOK
  <2>2. ue' \in [sqn : Nat, refused : SUBSET Requests, seen : SUBSET Requests]
    BY <1>t, <1>3 DEF ResyncRequest, TypeOK
  <2> QED
    BY <1>1, <1>3, <2>1, <2>2 DEF ResyncRequest
<1>4. CASE StartProcessor
  <2>1. CASE SlotFree /\ queue # <<>>
    <3>1. active' \in 0 .. Concurrent /\ starts' \in Nat
      BY <1>t, <1>4, <2>1, ConstantsAssumption DEF StartProcessor, SlotFree, TypeOK
    <3>a. queue' = Tail(queue) /\ msgs' = [msgs EXCEPT ![Head(queue)] = @ + 1]
      BY <1>4, <2>1 DEF StartProcessor, Trigger
    <3>2. queue' \in Seq(Requests) /\ Head(queue) \in Requests
      BY <1>f, <2>1, <3>a, TakeFirst
    <3>3. msgs' \in [Requests -> Nat]
      BY SMTT(60), <1>g, <3>2, <3>a
    <3> QED
      BY <1>t, <1>4, <3>1, <3>2, <3>3 DEF StartProcessor, TypeOK
  <2>2. CASE ~(SlotFree /\ queue # <<>>)
    BY SMTT(60), <1>t, <1>4, <2>2 DEF StartProcessor, TypeOK
  <2> QED
    BY <2>1, <2>2
<1>5. ASSUME NEW r \in Requests, TakeMessage(r)
      PROVE  TypeOK'
  <2>1. r \in live
    BY <1>t, <1>5 DEF TakeMessage, Control, NothingDangling, TypeOK
  <2>2. msgs' \in [Requests -> Nat]
    BY <1>t, <1>5 DEF TakeMessage, TypeOK
  <2> QED
    BY <1>t, <1>5, <2>1, <2>2 DEF TakeMessage, TypeOK
<1>6. ASSUME NEW r \in Requests, LeaveLoop(r)
      PROVE  TypeOK'
  BY <1>t, <1>6 DEF LeaveLoop, TypeOK
<1>7. ASSUME NEW r \in Requests, Phase1Refuse(r) \/ Phase2Unknown(r) \/ Phase3(r)
      PROVE  TypeOK'
  <2>1. next' \in [Requests -> Phases]
    BY <1>t, <1>7 DEF Phase1Refuse, Phase2Unknown, Phase3, Phases, TypeOK
  <2> QED
    BY <1>t, <1>7, <2>1 DEF Phase1Refuse, Phase2Unknown, Phase3, TypeOK
<1>8. ASSUME NEW r \in Requests, Phase1(r)
      PROVE  TypeOK'
  <2>0. /\ op' = [op EXCEPT ![r]["get"] = "sent"]
        /\ issued' = [issued EXCEPT ![r] = @ + 1]
        /\ op \in [Requests -> [Ops -> Opens]] /\ issued \in [Requests -> Nat]
    BY <1>t, <1>8 DEF Phase1, IssueOp, TypeOK
  <2>1. op' \in [Requests -> [Ops -> Opens]] /\ issued' \in [Requests -> Nat]
    <3>1. "get" \in Ops /\ "sent" \in Opens
      BY DEF Ops, Opens
    <3>2. op' \in [Requests -> [Ops -> Opens]]
      BY <2>0, <3>1, OpMoved
    <3>3. issued' \in [Requests -> Nat]
      BY <2>0
    <3> QED
      BY <3>2, <3>3
  <2>2. next' \in [Requests -> Phases]
    BY <1>t, <1>8 DEF Phase1, Phases, TypeOK
  <2> QED
    BY <1>t, <1>8, <2>1, <2>2 DEF Phase1, TypeOK
<1>9. ASSUME NEW r \in Requests, Phase2Answer(r)
      PROVE  TypeOK'
  <2> PICK sqn : sqn = IF request[r].kind = "resync" THEN request[r].sqn + 1 ELSE sec[r].sqn
    OBVIOUS
  <2>1. sqn \in Nat
    <3>1. r \in Indices(request)
      BY <1>t, <1>9, LockedStarted DEF Phase2Answer, RunsPhase, ArrivalsOK
    <3>2. request[r].sqn \in Nat
      <4>1. request[r] \in [kind : Kinds, rand : Requests \cup {NoRand}, sqn : Nat]
        BY <1>f, <3>1, ElementTyped
      <4> QED
        BY <4>1
    <3>3. sec[r].sqn \in Nat
      BY <1>g DEF Sec
    <3> QED
      BY <3>2, <3>3
  <2>2. op' \in [Requests -> [Ops -> Opens]] /\ issued' \in [Requests -> Nat]
    <3>1. "sent" \in Opens /\ "update" \in Ops
      BY DEF Opens, Ops
    <3>2. /\ op' = [op EXCEPT ![r]["update"] = "sent"]
          /\ issued' = [issued EXCEPT ![r] = @ + 1]
      BY <1>9 DEF Phase2Answer, IssueOp
    <3> QED
      BY <1>g, <3>1, <3>2, OpMoved
  <2>3. next' \in [Requests -> Phases]
    BY <1>t, <1>9 DEF Phase2Answer, Phases, TypeOK
  <2>4. sec' \in [Requests -> Sec]
    BY <1>t, <1>9, <2>1 DEF Phase2Answer, Sec, TypeOK
  <2>5. answers' \in Seq([req : Requests, sqn : Nat])
    BY <1>t, <1>9, <2>1, PutLast DEF Phase2Answer, TypeOK
  <2> QED
    BY <1>t, <1>9, <2>2, <2>3, <2>4, <2>5 DEF Phase2Answer, TypeOK
<1>10. ASSUME NEW r \in Requests, Phase2NullSqn(r)
       PROVE  TypeOK'
  BY <1>t, <1>10 DEF Phase2NullSqn, TypeOK
<1>11. ASSUME NEW r \in Requests, Finish(r)
       PROVE  TypeOK'
  <2>1. active' \in 0 .. Concurrent /\ starts' \in Nat
    BY <1>t, <1>11, ActivePositive, ConstantsAssumption DEF Finish, FinishProcessor, RunsPhase, TypeOK
  <2>2. sec' \in [Requests -> Sec]
    BY <1>t, <1>11 DEF Finish, Sec, TypeOK, NoRand
  <2>3. executed' \in [Requests -> SUBSET Ops] /\ found' \in [Requests -> BOOLEAN]
    BY <1>t, <1>11 DEF Finish, TypeOK
  <2> QED
    BY <1>t, <1>11, <2>1, <2>2, <2>3 DEF Finish, TypeOK
<1>12. ASSUME NEW r \in Requests, GetDone(r) \/ UpdateDone(r) \/ UpdateFails(r)
       PROVE  TypeOK'
  <2>1. op' \in [Requests -> [Ops -> Opens]]
    <3>1. "noted" \in Opens /\ "get" \in Ops /\ "update" \in Ops
      BY DEF Opens, Ops
    <3>2. \E o \in Ops : op' = [op EXCEPT ![r][o] = "noted"]
      BY <1>12, <3>1 DEF GetDone, UpdateDone, UpdateFails
    <3> QED
      BY <1>g, <3>1, <3>2, OpMoved
  <2>2. executed' \in [Requests -> SUBSET Ops]
    <3>1. \E o \in Ops : executed' = [executed EXCEPT ![r] = @ \cup {o}]
      BY <1>12 DEF GetDone, UpdateDone, UpdateFails, Ops
    <3> QED
      BY <1>g, <3>1
  <2>3. found' \in [Requests -> BOOLEAN]
    BY ZenonT(60), <1>t, <1>12 DEF GetDone, UpdateDone, UpdateFails, TypeOK
  <2>4. sec' \in [Requests -> Sec] /\ row' \in Sec
    <3>1. CASE GetDone(r)
      BY <1>g, <3>1 DEF GetDone
    <3>2. CASE UpdateDone(r)
      BY <1>g, <3>2 DEF UpdateDone, SavedRow, Sec
    <3>3. CASE UpdateFails(r)
      BY <1>g, <3>3 DEF UpdateFails
    <3> QED
      BY <1>12, <3>1, <3>2, <3>3
  <2>5. unsaved' \in BOOLEAN
    BY <1>t, <1>12 DEF GetDone, UpdateDone, UpdateFails, TypeOK
  <2>6. UNCHANGED <<queue, active, starts, request, live, next, msgs, locked, issued, answers, ue, up>>
    BY <1>12 DEF GetDone, UpdateDone, UpdateFails
  <2> QED
    BY <1>t, <2>1, <2>2, <2>3, <2>4, <2>5, <2>6 DEF TypeOK
<1>13. ASSUME NEW r \in Requests, NEW o \in Ops, Callback(r, o)
       PROVE  TypeOK'
  <2>1. op' \in [Requests -> [Ops -> Opens]] /\ msgs' \in [Requests -> Nat]
    BY <1>t, <1>13, OpMoved DEF Callback, Trigger, TypeOK, Opens
  <2>2. issued[r] - 1 \in Nat
    BY SMTT(60), <1>t, <1>13 DEF Callback, Control, OpsOK, OpsOf, Pending, Ops, TypeOK
  <2>3. issued' \in [Requests -> Nat]
    BY <1>t, <1>13, <2>2 DEF Callback, TypeOK
  <2> QED
    BY <1>t, <1>13, <2>1, <2>3 DEF Callback, TypeOK
<1>14. ASSUME NEW a \in [req : Requests, sqn : Nat], Challenge(a)
       PROVE  TypeOK'
  <2>1. ue' \in [sqn : Nat, refused : SUBSET Requests, seen : SUBSET Requests]
    BY <1>t, <1>14 DEF Challenge, TypeOK
  <2> QED
    BY <1>t, <1>14, <2>1 DEF Challenge, TypeOK
<1>15. \A i \in 1 .. Len(answers) : answers[i] \in [req : Requests, sqn : Nat]
  BY <1>f, ElementTyped DEF Indices
<1>16. CASE UNCHANGED vars
  BY <1>t, <1>16 DEF vars, TypeOK
<1>17. ASSUME NEW r \in Requests, WorkerStep(r) \/ DriverStep(r)
       PROVE  TypeOK'
  BY <1>5, <1>6, <1>7, <1>8, <1>9, <1>10, <1>11, <1>12, <1>13, <1>17 DEF WorkerStep, DriverStep
<1> QED
  BY <1>2, <1>3, <1>4, <1>14, <1>15, <1>16, <1>17 DEF Next

\* The tables of the processors, without the sequences.
LEMMA TablesTyped ==
  ASSUME TypeOK
  PROVE  /\ live \subseteq Requests /\ locked \subseteq live
         /\ next \in [Requests -> Phases]
         /\ msgs \in [Requests -> Nat] /\ issued \in [Requests -> Nat]
         /\ executed \in [Requests -> SUBSET Ops] /\ found \in [Requests -> BOOLEAN]
         /\ op \in [Requests -> [Ops -> Opens]]
         /\ starts \in Nat /\ active \in 0 .. Concurrent
         /\ "get" \in Ops /\ "update" \in Ops
         /\ {"none", "sent", "noted", "done"} = Opens
  BY DEF TypeOK, Ops, Opens

\* Only a processor that exists has an operation that the database works on.
LEMMA InFlightLive ==
  ASSUME NothingDangling, NEW r \in Requests, NEW o \in Ops, op[r][o] \in {"sent", "noted"}
  PROVE  r \in live
  BY DEF NothingDangling, InFlight

\* What a step can change of a processor, and of which one: of a new one, of one
\* that a worker runs, or of one with an operation in the database.
LEMMA TouchesOne ==
  ASSUME Control, NEW r \in Requests, WorkerStep(r) \/ DriverStep(r)
  PROVE  /\ r \in live /\ live' \subseteq live /\ request' = request /\ queue' = queue
         /\ \A q \in Requests \ {r} :
              /\ q \in live' <=> q \in live
              /\ q \in locked' <=> q \in locked
              /\ next'[q] = next[q] /\ msgs'[q] = msgs[q]
              /\ issued'[q] = issued[q] /\ executed'[q] = executed[q]
              /\ found'[q] = found[q] /\ op'[q] = op[q] /\ sec'[q] = sec[q]
<1> USE DEF queueVars, dbVars
<1>t. TypeOK /\ NothingDangling
  BY DEF Control
<1>1. ASSUME TakeMessage(r)
      PROVE  /\ r \in live
             /\ UNCHANGED <<live, request, queue, next, issued, executed, found, op, sec>>
             /\ locked' = locked \cup {r}
             /\ msgs' = [msgs EXCEPT ![r] = @ - 1]
  BY <1>t, <1>1, TablesTyped DEF TakeMessage, NothingDangling
<1>2. ASSUME LeaveLoop(r) \/ Phase1Refuse(r) \/ Phase2Unknown(r) \/ Phase3(r) \/ Phase2NullSqn(r)
      PROVE  /\ r \in live
             /\ UNCHANGED <<live, request, queue, msgs, issued, executed, found, op, sec>>
             /\ locked' = locked \/ locked' = locked \ {r}
             /\ next' = next \/ \E p : next' = [next EXCEPT ![r] = p]
  BY <1>t, <1>2, TablesTyped
     DEF LeaveLoop, Phase1Refuse, Phase2Unknown, Phase3, Phase2NullSqn, RunsPhase
<1>3. ASSUME Phase1(r) \/ Phase2Answer(r)
      PROVE  /\ r \in live
             /\ UNCHANGED <<live, request, queue, locked, msgs, executed, found>>
             /\ \E p : next' = [next EXCEPT ![r] = p]
             /\ issued' = [issued EXCEPT ![r] = @ + 1]
             /\ \E o \in Ops : op' = [op EXCEPT ![r][o] = "sent"]
             /\ sec' = sec \/ \E v : sec' = [sec EXCEPT ![r] = v]
  BY <1>t, <1>3, TablesTyped DEF Phase1, Phase2Answer, RunsPhase, IssueOp
<1>4. ASSUME Finish(r)
      PROVE  /\ r \in live /\ live' = live \ {r} /\ locked' = locked \ {r}
             /\ UNCHANGED <<request, queue, next, msgs, issued, op>>
             /\ executed' = [executed EXCEPT ![r] = {}] /\ found' = [found EXCEPT ![r] = TRUE]
             /\ \E v : sec' = [sec EXCEPT ![r] = v]
  BY <1>t, <1>4, TablesTyped DEF Finish, RunsPhase
<1>5. ASSUME GetDone(r) \/ UpdateDone(r) \/ UpdateFails(r)
      PROVE  /\ r \in live
             /\ UNCHANGED <<live, request, queue, next, msgs, issued, locked>>
             /\ \E o \in Ops : /\ op' = [op EXCEPT ![r][o] = "noted"]
                               /\ executed' = [executed EXCEPT ![r] = @ \cup {o}]
             /\ found' = found \/ found' = [found EXCEPT ![r] = FALSE]
             /\ sec' = sec \/ \E v : sec' = [sec EXCEPT ![r] = v]
  BY <1>t, <1>5, TablesTyped, InFlightLive DEF GetDone, UpdateDone, UpdateFails
<1>6. ASSUME NEW o \in Ops, Callback(r, o)
      PROVE  /\ r \in live
             /\ UNCHANGED <<live, request, queue, next, locked, executed, found, sec>>
             /\ op' = [op EXCEPT ![r][o] = "done"]
             /\ issued' = [issued EXCEPT ![r] = @ - 1] /\ msgs' = [msgs EXCEPT ![r] = @ + 1]
  BY <1>t, <1>6, TablesTyped, InFlightLive DEF Callback, Trigger
<1>o. ASSUME NEW o \in Ops, NEW v, op' = [op EXCEPT ![r][o] = v]
      PROVE  \A q \in Requests \ {r} : op'[q] = op[q]
  BY <1>t, <1>o, TablesTyped
<1>s. ASSUME NEW v, sec' = [sec EXCEPT ![r] = v]
      PROVE  \A q \in Requests \ {r} : sec'[q] = sec[q]
  BY <1>t, <1>s DEF TypeOK
<1>7. CASE TakeMessage(r)
  BY <1>1, <1>7, <1>t, TablesTyped
<1>8. CASE LeaveLoop(r) \/ Phase1Refuse(r) \/ Phase2Unknown(r) \/ Phase3(r) \/ Phase2NullSqn(r)
  BY <1>2, <1>8, <1>t, TablesTyped
<1>9. CASE Phase1(r) \/ Phase2Answer(r)
  BY <1>3, <1>9, <1>t, <1>o, <1>s, TablesTyped
<1>10. CASE Finish(r)
  BY <1>4, <1>10, <1>t, <1>s, TablesTyped
<1>11. CASE GetDone(r) \/ UpdateDone(r) \/ UpdateFails(r)
  BY ZenonT(60), <1>5, <1>11, <1>t, <1>o, <1>s, TablesTyped
<1>12. ASSUME NEW o \in Ops, Callback(r, o)
       PROVE  /\ r \in live /\ live' \subseteq live /\ request' = request /\ queue' = queue
         /\ \A q \in Requests \ {r} :
              /\ q \in live' <=> q \in live
              /\ q \in locked' <=> q \in locked
              /\ next'[q] = next[q] /\ msgs'[q] = msgs[q]
              /\ issued'[q] = issued[q] /\ executed'[q] = executed[q]
              /\ found'[q] = found[q] /\ op'[q] = op[q] /\ sec'[q] = sec[q]
  BY <1>6, <1>12, <1>t, <1>o, TablesTyped
<1> QED
  BY <1>7, <1>8, <1>9, <1>10, <1>11, <1>12 DEF WorkerStep, DriverStep

\* What the steps outside of the processors change.
LEMMA TouchesNone ==
  ASSUME Control,
         \/ \E kind \in {"initial", "unknown", "refused"} : InitialRequest(kind)
         \/ \E r \in Requests : ResyncRequest(r)
  PROVE  \E r \in Requests \ live :
           /\ r = Len(request) + 1
           /\ \E m : request' = Append(request, m)
           /\ live' = live \cup {r} /\ queue' = Append(queue, r) /\ starts' = starts + 1
           /\ UNCHANGED <<active, next, msgs, locked, dbVars, answers, up>>
<1> PICK r : r = Len(request) + 1
  OBVIOUS
<1>1. Len(request) \in 0 .. MaxRequests /\ live \subseteq Indices(request)
  BY DEF Control, ArrivalsOK
<1>2. \E m : Receive(m)
  BY DEF InitialRequest, ResyncRequest
<1>3. r \in Requests /\ r \notin live
  BY SMTT(60), <1>1, <1>2, ConstantsAssumption DEF Receive, Requests, Indices
<1> QED
  BY <1>2, <1>3 DEF Receive

LEMMA ArrivalsStep == Control /\ [Next]_vars => ArrivalsOK'
<1> SUFFICES ASSUME Control, [Next]_vars PROVE ArrivalsOK'
  OBVIOUS
<1>t. ArrivalsOK /\ TypeOK
  BY DEF Control
<1>1. CASE \/ \E kind \in {"initial", "unknown", "refused"} : InitialRequest(kind)
           \/ \E r \in Requests : ResyncRequest(r)
  <2> PICK r \in Requests \ live :
           /\ r = Len(request) + 1
           /\ \E m : request' = Append(request, m)
           /\ live' = live \cup {r} /\ queue' = Append(queue, r) /\ starts' = starts + 1
           /\ UNCHANGED <<active, next, msgs, locked, dbVars, answers, up>>
    BY <1>1, TouchesNone
  <2>1. Len(request') = r /\ r \in 0 .. MaxRequests /\ Len(request) \in Nat
    BY SMTT(60), <1>t, ConstantsAssumption DEF TypeOK, Requests
  <2>2. Indices(request') = Indices(request) \cup {r}
    BY <2>1 DEF Indices
  <2> QED
    BY <1>t, <2>1, <2>2 DEF ArrivalsOK, dbVars
<1>2. ASSUME NEW r \in Requests, WorkerStep(r) \/ DriverStep(r)
      PROVE  ArrivalsOK'
  <2>1. /\ r \in live /\ live' \subseteq live /\ request' = request
        /\ \A q \in Requests \ {r} : next'[q] = next[q] /\ executed'[q] = executed[q]
    BY <1>2, TouchesOne
  <2>2. r \in Indices(request)
    BY <1>t, <2>1 DEF ArrivalsOK
  <2> QED
    BY <1>t, <2>1, <2>2 DEF ArrivalsOK, Indices
<1>3. CASE UNCHANGED <<request, live, next, executed>>
  BY SMTT(60), <1>t, <1>3 DEF ArrivalsOK
<1> QED
  BY Zenon, <1>1, <1>2, <1>3 DEF Next, vars, dbVars, queueVars, StartProcessor, Challenge

\* The operations of a processor stay in step with its phases.
LEMMA OpsStep == Control /\ [Next]_vars => OpsOK'
<1> SUFFICES ASSUME Control, [Next]_vars PROVE OpsOK'
  OBVIOUS
<1> USE DEF queueVars, dbVars
<1>t. OpsOK /\ ArrivalsOK /\ TypeOK
  BY DEF Control
<1>k. ASSUME NEW q \in Requests,
             next'[q] = next[q], op'[q] = op[q], issued'[q] = issued[q],
             executed'[q] = executed[q], found'[q] = found[q], q \in live' => q \in live
      PROVE  OpsOf(q)'
  BY <1>t, <1>k DEF OpsOK, OpsOf, Pending
<1>1. CASE \/ \E kind \in {"initial", "unknown", "refused"} : InitialRequest(kind)
           \/ \E r \in Requests : ResyncRequest(r)
  <2> PICK r \in Requests \ live :
           /\ r = Len(request) + 1
           /\ \E m : request' = Append(request, m)
           /\ live' = live \cup {r} /\ queue' = Append(queue, r) /\ starts' = starts + 1
           /\ UNCHANGED <<active, next, msgs, locked, dbVars, answers, up>>
    BY <1>1, TouchesNone
  <2>1. next[r] = "phase1" /\ executed[r] = {}
    <3>1. r \notin Indices(request)
      BY <1>t DEF ArrivalsOK, Indices
    <3> QED
      BY <1>t, <3>1 DEF ArrivalsOK
  <2>2. OpsOf(r)'
    BY <1>t, <2>1 DEF OpsOK, OpsOf, Pending, Ops
  <2>3. \A q \in Requests \ {r} : OpsOf(q)'
    BY <1>k
  <2> QED
    BY <2>2, <2>3 DEF OpsOK
<1>2. ASSUME NEW r \in Requests, WorkerStep(r) \/ DriverStep(r)
      PROVE  OpsOf(r)'
  <2>t. OpsOf(r) /\ r \in live
    BY <1>t, <1>2, TouchesOne DEF OpsOK
  <2> USE TablesTyped
  <2>1. CASE TakeMessage(r) \/ LeaveLoop(r) \/ Phase2NullSqn(r)
    BY <1>k, <2>1 DEF TakeMessage, LeaveLoop, Phase2NullSqn
  <2>2. CASE Phase1Refuse(r)
    BY <1>t, <2>t, <2>2 DEF Phase1Refuse, RunsPhase, OpsOf, Pending
  <2>3. CASE Phase1(r)
    <3>1. /\ op'[r]["get"] = "sent" /\ op'[r]["update"] = op[r]["update"]
          /\ issued'[r] = issued[r] + 1 /\ next'[r] = "phase2" /\ next[r] = "phase1"
          /\ UNCHANGED <<executed, found, live>>
      BY <1>t, <2>3, OpMoved DEF Phase1, RunsPhase, IssueOp
    <3> QED
      BY <1>t, <2>t, <3>1 DEF OpsOf, Pending, Ops
  <2>4. CASE Phase2Unknown(r)
    <3>1. /\ next'[r] = "final" /\ next[r] = "phase2" /\ "get" \in executed[r]
          /\ UNCHANGED <<executed, found, live, op, issued>>
      BY <1>t, <2>4 DEF Phase2Unknown, RunsPhase, PhaseReady
    <3> QED
      BY <1>t, <2>t, <3>1 DEF OpsOf, Pending
  <2>5. CASE Phase2Answer(r)
    <3>1. /\ op'[r]["update"] = "sent" /\ op'[r]["get"] = op[r]["get"]
          /\ issued'[r] = issued[r] + 1 /\ next'[r] = "phase3" /\ next[r] = "phase2"
          /\ UNCHANGED <<executed, found, live>> /\ found[r]
      BY <1>t, <2>5, OpMoved DEF Phase2Answer, RunsPhase, IssueOp
    <3>2. "get" \in executed[r]
      BY <2>5 DEF Phase2Answer, RunsPhase, PhaseReady
    <3> QED
      BY <1>t, <2>t, <3>1, <3>2 DEF OpsOf, Pending, Ops
  <2>6. CASE Phase3(r)
    <3>1. /\ next'[r] = "final" /\ next[r] = "phase3" /\ "update" \in executed[r]
          /\ UNCHANGED <<executed, found, live, op, issued>>
      BY <1>t, <2>6 DEF Phase3, RunsPhase, PhaseReady
    <3> QED
      BY <1>t, <2>t, <3>1 DEF OpsOf, Pending
  <2>7. CASE Finish(r)
    BY <1>t, <2>t, <2>7 DEF Finish, OpsOf, Pending
  <2>8. CASE GetDone(r)
    <3>1. /\ op'[r]["get"] = "noted" /\ op'[r]["update"] = op[r]["update"]
          /\ op[r]["get"] = "sent"
          /\ executed'[r] = executed[r] \cup {"get"}
          /\ UNCHANGED <<issued, next, live>>
      BY <1>t, <2>8, OpMoved DEF GetDone
    <3>2. op[r]["update"] = "none"
      BY <1>t, <2>t, <3>1 DEF OpsOf, Phases
    <3> QED
      BY <1>t, <2>t, <3>1, <3>2 DEF OpsOf, Pending, Ops
  <2>9. CASE UpdateDone(r) \/ UpdateFails(r)
    <3>1. /\ op'[r]["update"] = "noted" /\ op'[r]["get"] = op[r]["get"]
          /\ op[r]["update"] = "sent"
          /\ executed'[r] = executed[r] \cup {"update"}
          /\ UNCHANGED <<issued, next, live, found>>
      BY <1>t, <2>9, OpMoved DEF UpdateDone, UpdateFails
    <3> QED
      BY <1>t, <2>t, <3>1 DEF OpsOf, Pending, Ops
  <2>10. ASSUME NEW o \in Ops, Callback(r, o)
         PROVE  OpsOf(r)'
    <3>1. /\ op'[r][o] = "done" /\ op[r][o] = "noted"
          /\ \A p \in Ops : p # o => op'[r][p] = op[r][p]
          /\ issued'[r] = issued[r] - 1
          /\ UNCHANGED <<executed, next, live, found>>
      BY <1>t, <2>10, OpMoved DEF Callback
    <3> QED
      BY <1>t, <2>t, <3>1 DEF OpsOf, Pending, Ops
  <2> QED
    BY <1>2, <2>1, <2>2, <2>3, <2>4, <2>5, <2>6, <2>7, <2>8, <2>9, <2>10 DEF WorkerStep, DriverStep
<1>3. ASSUME NEW r \in Requests, WorkerStep(r) \/ DriverStep(r)
      PROVE  OpsOK'
  <2>1. \A q \in Requests \ {r} : OpsOf(q)'
    BY <1>k, <1>3, TouchesOne
  <2> QED
    BY <1>2, <1>3, <2>1 DEF OpsOK
<1>4. CASE UNCHANGED <<live, next, issued, executed, found, op>>
  BY <1>k, <1>4 DEF OpsOK
<1> QED
  BY Zenon, <1>1, <1>3, <1>4 DEF Next, vars, StartProcessor, Challenge

\* Every step but the arrivals of requests, the start of a processor and the
\* answers of the UE is one of a processor that was started.
LEMMA StepOfStarted ==
  ASSUME Control, NEW r \in Requests, WorkerStep(r) \/ DriverStep(r)
  PROVE  r \in Started
<1>t. TypeOK /\ QueueOK /\ OpsOK /\ r \in live
  BY TouchesOne DEF Control
<1>1. CASE r \in locked
  BY <1>t, <1>1, LockedStarted
<1>2. CASE TakeMessage(r)
  <2>1. msgs[r] # 0
    BY <1>t, <1>2, TablesTyped DEF TakeMessage
  <2> QED
    BY <1>t, <2>1 DEF QueueOK, Indices, Started
<1>3. CASE DriverStep(r)
  <2>1. \E o \in Ops : op[r][o] \in {"sent", "noted"}
    BY <1>3 DEF DriverStep, GetDone, UpdateDone, UpdateFails, Callback, Ops
  <2>2. next[r] # "phase1"
    BY SMTT(60), <1>t, <2>1 DEF OpsOK, OpsOf, Ops
  <2> QED
    BY <1>t, <2>2 DEF QueueOK, Indices, Started
<1> QED
  BY <1>1, <1>2, <1>3
     DEF WorkerStep, LeaveLoop, Phase1Refuse, Phase1, Phase2Unknown, Phase2Answer,
         Phase2NullSqn, Phase3, Finish, RunsPhase

\* A deleted processor has nothing left that names it.
LEMMA DanglingStep == Control /\ [Next]_vars => NothingDangling'
<1> SUFFICES ASSUME Control, [Next]_vars PROVE NothingDangling'
  OBVIOUS
<1>t. NothingDangling /\ TypeOK /\ QueueOK
  BY DEF Control
<1> USE TablesTyped DEF queueVars, dbVars
<1>1. CASE \/ \E kind \in {"initial", "unknown", "refused"} : InitialRequest(kind)
           \/ \E r \in Requests : ResyncRequest(r)
  <2>1. live \subseteq live' /\ UNCHANGED <<msgs, op>>
    BY <1>1, TouchesNone
  <2> QED
    BY <1>t, <2>1 DEF NothingDangling, InFlight
<1>2. CASE StartProcessor
  <2>1. CASE SlotFree /\ queue # <<>>
    <3>1. Head(queue) \in live
      BY SMTT(60), <1>t, <2>1, TakeFirst DEF TypeOK, QueueOK
    <3>2. UNCHANGED <<live, op>> /\ msgs' = [msgs EXCEPT ![Head(queue)] = @ + 1]
      BY <1>2, <2>1 DEF StartProcessor, Trigger
    <3>3. \A r \in Requests \ live : msgs'[r] = msgs[r]
      BY <1>t, <3>1, <3>2
    <3> QED
      BY <1>t, <3>2, <3>3 DEF NothingDangling, InFlight
  <2>2. CASE ~(SlotFree /\ queue # <<>>)
    BY <1>t, <1>2, <2>2 DEF StartProcessor, NothingDangling, InFlight
  <2> QED
    BY <2>1, <2>2
<1>3. ASSUME NEW r \in Requests, WorkerStep(r) \/ DriverStep(r)
      PROVE  NothingDangling'
  <2>1. /\ r \in live
        /\ \A q \in Requests \ {r} :
             (q \in live' <=> q \in live) /\ msgs'[q] = msgs[q] /\ op'[q] = op[q]
    BY <1>3, TouchesOne
  <2>2. CASE r \in live'
    BY SMTT(60), <1>t, <2>1, <2>2 DEF NothingDangling, InFlight
  <2>3. CASE Finish(r)
    <3>1. next[r] = "final" /\ issued[r] = 0 /\ msgs[r] = 0 /\ UNCHANGED <<msgs, op>>
      BY <2>3 DEF Finish, RunsPhase, PhaseReady
    <3>2. \A o \in Ops : op[r][o] \notin {"sent", "noted"}
      BY <3>1 DEF Control, OpsOK, OpsOf, Pending, Ops
    <3> QED
      BY <1>t, <2>1, <3>1, <3>2 DEF NothingDangling, InFlight
  <2> QED
    BY <1>3, <2>1, <2>2, <2>3
       DEF WorkerStep, DriverStep, TakeMessage, LeaveLoop, Phase1Refuse, Phase1, Phase2Unknown,
           Phase2Answer, Phase2NullSqn, Phase3, GetDone, UpdateDone, UpdateFails, Callback
<1>4. CASE UNCHANGED <<live, msgs, op>>
  BY <1>t, <1>4 DEF NothingDangling, InFlight
<1> QED
  BY Zenon, <1>1, <1>2, <1>3, <1>4 DEF Next, vars, Challenge

\* Whoever leaves a processor has somebody else left to go on with it.
LEMMA StrandedStep == Control /\ [Next]_vars => NobodyStranded'
<1> SUFFICES ASSUME Control, [Next]_vars PROVE NobodyStranded'
  OBVIOUS
<1>t. NobodyStranded /\ TypeOK /\ QueueOK /\ OpsOK
  BY DEF Control
<1> USE TablesTyped DEF queueVars, dbVars
<1>1. CASE \/ \E kind \in {"initial", "unknown", "refused"} : InitialRequest(kind)
           \/ \E r \in Requests : ResyncRequest(r)
  <2> PICK r \in Requests \ live :
           /\ live' = live \cup {r} /\ queue' = Append(queue, r)
           /\ UNCHANGED <<active, next, msgs, locked, dbVars, answers, up>>
    BY <1>1, TouchesNone
  <2>1. /\ \A i \in 1 .. Len(queue) : i \in 1 .. Len(queue') /\ queue'[i] = queue[i]
        /\ \E i \in 1 .. Len(queue') : queue'[i] = r
    BY SMTT(60), <1>t, PutLast DEF TypeOK, Indices
  <2> QED
    BY SMTT(60), <1>t, <2>1 DEF NobodyStranded, WorkedOn, InFlight
<1>2. CASE StartProcessor
  <2>1. CASE SlotFree /\ queue # <<>>
    <3> PICK h : h = Head(queue)
      OBVIOUS
    <3>1. h \in Requests /\ \A i \in 1 .. Len(queue) :
            queue[i] # h => \E j \in 1 .. Len(Tail(queue)) : Tail(queue)[j] = queue[i]
      <4>1. /\ h = queue[1] /\ h \in Requests /\ Len(queue) \in Nat
            /\ Len(Tail(queue)) = Len(queue) - 1
            /\ \A j \in 1 .. Len(Tail(queue)) : Tail(queue)[j] = queue[j + 1]
        BY <1>t, <2>1, TakeFirst DEF TypeOK, Indices
      <4>2. ASSUME NEW i \in 1 .. Len(queue), queue[i] # h
            PROVE  i - 1 \in 1 .. Len(Tail(queue)) /\ Tail(queue)[i - 1] = queue[i]
        <5>1. i # 1
          BY <4>1, <4>2
        <5>2. i - 1 \in 1 .. Len(Tail(queue)) /\ (i - 1) + 1 = i
          BY <4>1, <5>1
        <5>3. Tail(queue)[i - 1] = queue[(i - 1) + 1]
          BY <4>1, <5>2
        <5> QED
          BY <5>2, <5>3
      <4> QED
        BY <4>1, <4>2
    <3>2. /\ UNCHANGED <<live, next, locked, op, up>>
          /\ queue' = Tail(queue) /\ msgs' = [msgs EXCEPT ![h] = @ + 1]
      BY <1>2, <2>1 DEF StartProcessor, Trigger
    <3>3. msgs'[h] > 0 /\ \A r \in Requests : r # h => msgs'[r] = msgs[r]
      BY <1>t, <3>1, <3>2
    <3>4. ASSUME NEW r \in live, up, r # h
          PROVE  WorkedOn(r)' \/ next'[r] = "ulrFinal"
      <4>1. WorkedOn(r) \/ next[r] = "ulrFinal"
        BY <1>t, <3>4 DEF NobodyStranded
      <4>2. r \in Requests
        BY <1>t, <3>4
      <4>3. (\E i \in 1 .. Len(queue) : queue[i] = r) => \E j \in 1 .. Len(queue') : queue'[j] = r
        BY <3>1, <3>2, <3>4
      <4>4. msgs'[r] = msgs[r]
        BY <3>3, <3>4, <4>2
      <4> QED
        BY <3>2, <4>1, <4>3, <4>4 DEF WorkedOn, InFlight
    <3> QED
      BY <3>2, <3>3, <3>4 DEF NobodyStranded, WorkedOn
  <2>2. CASE ~(SlotFree /\ queue # <<>>)
    BY <1>t, <1>2, <2>2 DEF StartProcessor, NobodyStranded, WorkedOn, InFlight
  <2> QED
    BY <2>1, <2>2
<1>3. ASSUME NEW r \in Requests, WorkerStep(r) \/ DriverStep(r)
      PROVE  r \in live' /\ up' => WorkedOn(r)' \/ next'[r] = "ulrFinal"
  <2>1. CASE r \in locked'
    BY <2>1 DEF WorkedOn
  <2>2. CASE LeaveLoop(r)
    <3>1. r \in locked /\ ~PhaseReady(r) /\ r \in live
          /\ UNCHANGED <<next, op, msgs>>
      BY <1>t, <2>2 DEF LeaveLoop
    <3>2. next[r] \in Phases /\ msgs[r] \in Nat /\ OpsOf(r)
      BY <1>t DEF OpsOK
    <3>3. next[r] = "ulrFinal" \/ msgs[r] > 0 \/ InFlight(r)
      <4>1. CASE next[r] = "phase1"
        BY <3>1, <4>1 DEF PhaseReady
      <4>2. CASE next[r] = "phase2"
        <5>1. "get" \notin executed[r]
          BY <3>1, <4>2 DEF PhaseReady
        <5>2. op[r]["get"] \notin {"noted", "done"} /\ op[r]["get"] # "none"
          BY <1>t, <3>1, <3>2, <4>2, <5>1 DEF OpsOf
        <5>3. op[r]["get"] \in {"none", "sent", "noted", "done"}
          BY <1>t
        <5> QED
          BY <1>t, <5>2, <5>3 DEF InFlight
      <4>3. CASE next[r] = "phase3"
        <5>1. "update" \notin executed[r]
          BY <3>1, <4>3 DEF PhaseReady
        <5>2. op[r]["update"] \notin {"noted", "done"} /\ op[r]["update"] # "none"
          BY <1>t, <3>1, <3>2, <4>3, <5>1 DEF OpsOf
        <5>3. op[r]["update"] \in {"none", "sent", "noted", "done"}
          BY <1>t
        <5> QED
          BY <1>t, <5>2, <5>3 DEF InFlight
      <4>4. CASE next[r] = "final"
        <5>1. issued[r] # 0 \/ msgs[r] # 0
          BY <3>1, <4>4 DEF PhaseReady
        <5>2. issued[r] # 0 => InFlight(r)
          BY <1>t, <3>2 DEF OpsOf, Pending, InFlight
        <5> QED
          BY <3>2, <5>1, <5>2
      <4> QED
        BY <3>2, <4>1, <4>2, <4>3, <4>4 DEF Phases
    <3> QED
      BY <3>1, <3>3 DEF WorkedOn, InFlight
  <2>3. CASE Finish(r)
    BY <2>3 DEF Finish
  <2>4. CASE GetDone(r) \/ UpdateDone(r) \/ UpdateFails(r)
    <3>1. \E o \in Ops : op' = [op EXCEPT ![r][o] = "noted"]
      BY <1>t, <2>4 DEF GetDone, UpdateDone, UpdateFails
    <3>2. \E o \in Ops : op'[r][o] = "noted"
      BY <1>t, <3>1, OpMoved
    <3> QED
      BY <3>2 DEF WorkedOn, InFlight
  <2>5. ASSUME NEW o \in Ops, Callback(r, o)
        PROVE  WorkedOn(r)'
    <3>1. msgs' = [msgs EXCEPT ![r] = @ + 1]
      BY <2>5 DEF Callback, Trigger
    <3>2. msgs'[r] > 0
      BY <1>t, <3>1
    <3> QED
      BY <3>2 DEF WorkedOn
  <2>6. CASE TakeMessage(r)
    BY <2>1, <2>6 DEF TakeMessage
  <2>7. CASE Phase1Refuse(r) \/ Phase1(r) \/ Phase2Unknown(r) \/ Phase2Answer(r) \/ Phase2NullSqn(r) \/ Phase3(r)
    <3>1. r \in locked'
      BY <2>7 DEF Phase1Refuse, Phase1, Phase2Unknown, Phase2Answer, Phase2NullSqn, Phase3, RunsPhase
    <3> QED
      BY <2>1, <3>1
  <2> QED
    BY <1>3, <2>2, <2>3, <2>4, <2>5, <2>6, <2>7 DEF WorkerStep, DriverStep
<1>4. ASSUME NEW r \in Requests, WorkerStep(r) \/ DriverStep(r)
      PROVE  NobodyStranded'
  <2>1. /\ queue' = queue
        /\ \A q \in Requests \ {r} :
             /\ q \in live' <=> q \in live
             /\ q \in locked' <=> q \in locked
             /\ next'[q] = next[q] /\ msgs'[q] = msgs[q] /\ op'[q] = op[q]
    BY <1>4, TouchesOne
  <2>2. up
    BY <1>4 DEF WorkerStep, DriverStep, TakeMessage, LeaveLoop, Phase1Refuse, Phase1,
         Phase2Unknown, Phase2Answer, Phase2NullSqn, Phase3, Finish, RunsPhase, GetDone,
         UpdateDone, UpdateFails, Callback
  <2>3. ASSUME NEW q \in live', q # r
        PROVE  WorkedOn(q)' \/ next'[q] = "ulrFinal"
    <3>1. q \in Requests \ {r} /\ q \in live
      BY <1>t, <1>4, <2>1, <2>3, TouchesOne
    <3>2. WorkedOn(q) \/ next[q] = "ulrFinal"
      BY <1>t, <2>2, <3>1 DEF NobodyStranded
    <3> QED
      BY <2>1, <3>1, <3>2 DEF WorkedOn, InFlight
  <2> QED
    BY <1>3, <1>4, <2>3 DEF NobodyStranded
<1>5. CASE UNCHANGED <<queue, live, next, msgs, locked, op, up>>
  BY <1>t, <1>5 DEF NobodyStranded, WorkedOn, InFlight
<1> QED
  BY Zenon, <1>1, <1>2, <1>4, <1>5 DEF Next, vars, Challenge

\* A start that finds a slot takes the processor that waited longest for one.
LEMMA QueueStarts ==
  ASSUME Control, StartProcessor, SlotFree, queue # <<>>
  PROVE  QueueOK'
<1> PICK h : h = Head(queue)
  OBVIOUS
<1>t. TypeOK /\ QueueOK
  BY DEF Control
<1>1. /\ h = queue[1] /\ h \in Requests /\ Len(queue) \in Nat /\ 1 \in Indices(queue)
      /\ Len(Tail(queue)) = Len(queue) - 1
      /\ \A i \in Indices(Tail(queue)) :
           i + 1 \in Indices(queue) /\ i + 1 # 1 /\ Tail(queue)[i] = queue[i + 1]
  BY <1>t, TakeFirst DEF TypeOK
<1>2. /\ queue' = Tail(queue) /\ active' = active + 1 /\ starts' = starts - 1
      /\ msgs' = [msgs EXCEPT ![h] = @ + 1]
      /\ UNCHANGED <<live, locked, next>>
  BY DEF StartProcessor, Trigger, queueVars, dbVars
<1>3. h \in live \ locked
  BY <1>t, <1>1 DEF QueueOK
<1>4. \A i \in Indices(queue') : queue'[i] # h
  BY <1>t, <1>1, <1>2 DEF QueueOK
<1>5. \A i, j \in Indices(queue') : queue'[i] = queue'[j] => i = j
  <2> SUFFICES ASSUME NEW i \in Indices(queue'), NEW j \in Indices(queue'), queue'[i] = queue'[j]
               PROVE  i = j
    OBVIOUS
  <2>1. i + 1 \in Indices(queue) /\ j + 1 \in Indices(queue) /\ queue[i + 1] = queue[j + 1]
    BY <1>1, <1>2
  <2>2. i + 1 = j + 1
    BY <1>t, <2>1 DEF QueueOK
  <2> QED
    BY <2>2 DEF Indices
<1>6. \A i \in Indices(queue') : /\ queue'[i] \in live' \ locked'
                                /\ next'[queue'[i]] = "phase1"
                                /\ msgs'[queue'[i]] = 0
  <2> SUFFICES ASSUME NEW i \in Indices(queue')
               PROVE  /\ queue'[i] \in live \ locked
                      /\ next[queue'[i]] = "phase1"
                      /\ msgs'[queue'[i]] = 0
    BY <1>2
  <2>1. i + 1 \in Indices(queue) /\ queue'[i] = queue[i + 1] /\ queue'[i] # h
    BY <1>1, <1>2, <1>4
  <2>2. /\ queue'[i] \in live \ locked /\ next[queue'[i]] = "phase1" /\ msgs[queue'[i]] = 0
    BY <1>t, <2>1 DEF QueueOK
  <2>3. queue'[i] \in Requests
    BY <1>t, <2>2, TablesTyped
  <2> QED
    BY <1>t, <1>1, <1>2, <2>1, <2>2, <2>3, TablesTyped
<1>7. Started' = Started \cup {h} /\ h \notin Started
  <2>1. h \notin Started
    BY <1>1 DEF Started, Indices
  <2>2. ASSUME NEW r \in live, r # h
        PROVE  (\A i \in 1 .. Len(queue) : queue[i] # r) <=> (\A i \in 1 .. Len(queue') : queue'[i] # r)
    <3>1. ASSUME NEW i \in 1 .. Len(queue), queue[i] = r
          PROVE  \E j \in 1 .. Len(queue') : queue'[j] = r
      <4>1. i # 1
        BY <1>1, <2>2, <3>1
      <4>2. i - 1 \in Indices(queue') /\ (i - 1) + 1 = i
        BY <1>1, <1>2, <4>1 DEF Indices
      <4>3. queue'[i - 1] = r
        BY <1>1, <1>2, <3>1, <4>2
      <4> QED
        BY <4>2, <4>3 DEF Indices
    <3>2. ASSUME NEW j \in 1 .. Len(queue'), queue'[j] = r
          PROVE  \E i \in 1 .. Len(queue) : queue[i] = r
      <4>1. j + 1 \in 1 .. Len(queue) /\ queue[j + 1] = r
        BY <1>1, <1>2, <3>2 DEF Indices
      <4> QED
        BY <4>1
    <3> QED
      BY <3>1, <3>2
  <2>3. h \in Started'
    BY <1>2, <1>3, <1>4 DEF Started, Indices
  <2>4. ASSUME NEW r \in live
        PROVE  r \in Started' <=> r \in Started \cup {h}
    BY <1>2, <2>2, <2>3 DEF Started
  <2>5. Started \subseteq live /\ Started' \subseteq live /\ h \in live
    BY <1>2, <1>3 DEF Started
  <2> QED
    BY <2>1, <2>4, <2>5
<1>8. active' = Cardinality(Started')
  BY <1>t, <1>2, <1>7, StartedFinite, FS_AddElement DEF QueueOK
<1>9. starts' + active' >= Concurrent \/ starts' >= Len(queue')
  BY SMTT(60), <1>t, <1>1, <1>2, TablesTyped, ConstantsAssumption DEF QueueOK
<1> QED
  BY <1>5, <1>6, <1>8, <1>9 DEF QueueOK

\* The queue, the slots and the pending starts stay matched.
LEMMA QueueStep == Control /\ [Next]_vars => QueueOK'
<1> SUFFICES ASSUME Control, [Next]_vars PROVE QueueOK'
  OBVIOUS
<1>t. TypeOK /\ QueueOK
  BY DEF Control
<1>q. /\ queue \in Seq(Requests) /\ Len(queue) \in Nat
      /\ active \in 0 .. Concurrent /\ starts \in Nat /\ Concurrent \in Nat
  BY <1>t, ConstantsAssumption DEF TypeOK
<1>1. CASE \/ \E kind \in {"initial", "unknown", "refused"} : InitialRequest(kind)
           \/ \E r \in Requests : ResyncRequest(r)
  <2> PICK r \in Requests \ live :
           /\ r = Len(request) + 1
           /\ \E m : request' = Append(request, m)
           /\ live' = live \cup {r} /\ queue' = Append(queue, r) /\ starts' = starts + 1
           /\ UNCHANGED <<active, next, msgs, locked, dbVars, answers, up>>
    BY <1>1, TouchesNone
  <2>1. /\ Len(queue') = Len(queue) + 1 /\ queue'[Len(queue) + 1] = r
        /\ \A i \in Indices(queue) : queue'[i] = queue[i]
        /\ Indices(queue') = Indices(queue) \cup {Len(queue) + 1}
    <3>1. queue' = Append(queue, r) /\ r \in Requests /\ queue \in Seq(Requests)
      BY <1>q
    <3>2. /\ Len(Append(queue, r)) = Len(queue) + 1 /\ Append(queue, r)[Len(queue) + 1] = r
          /\ \A i \in Indices(queue) : Append(queue, r)[i] = queue[i]
          /\ Indices(Append(queue, r)) = Indices(queue) \cup {Len(queue) + 1}
      BY <3>1 DEF Indices
    <3> QED
      BY <3>1, <3>2
  <2>2. \A i \in Indices(queue) : queue[i] # r
    BY <1>t DEF QueueOK
  <2>3. \A i, j \in Indices(queue') : queue'[i] = queue'[j] => i = j
    <3> SUFFICES ASSUME NEW i \in Indices(queue'), NEW j \in Indices(queue'), queue'[i] = queue'[j]
                 PROVE  i = j
      OBVIOUS
    <3>1. CASE i \in Indices(queue) /\ j \in Indices(queue)
      BY <1>t, <2>1, <3>1 DEF QueueOK
    <3>2. CASE i = Len(queue) + 1
      BY <2>1, <2>2, <3>2
    <3>3. CASE j = Len(queue) + 1
      BY <2>1, <2>2, <3>3
    <3> QED
      BY <2>1, <3>1, <3>2, <3>3
  <2>4. next[r] = "phase1" /\ msgs[r] = 0 /\ r \notin locked
    <3>1. r \notin Indices(request)
      BY <1>t DEF Indices, TypeOK
    <3> QED
      BY <1>t, <3>1, TablesTyped DEF Control, ArrivalsOK, NothingDangling
  <2>5. \A i \in Indices(queue') : /\ queue'[i] \in live' \ locked'
                                  /\ next'[queue'[i]] = "phase1"
                                  /\ msgs'[queue'[i]] = 0
    <3> SUFFICES ASSUME NEW i \in Indices(queue')
                 PROVE  /\ queue'[i] \in live' \ locked' /\ next'[queue'[i]] = "phase1"
                        /\ msgs'[queue'[i]] = 0
      OBVIOUS
    <3>1. next' = next /\ msgs' = msgs /\ locked' = locked /\ live' = live \cup {r}
      BY <1>q
    <3>2. CASE i \in Indices(queue)
      <4>1. queue'[i] = queue[i] /\ queue[i] \in live \ locked
            /\ next[queue[i]] = "phase1" /\ msgs[queue[i]] = 0
        BY <1>t, <2>1, <3>2 DEF QueueOK
      <4> QED
        BY <3>1, <4>1
    <3>3. CASE i = Len(queue) + 1
      BY <2>1, <2>4, <3>1, <3>3
    <3> QED
      BY <2>1, <3>2, <3>3
  <2>6. Started' = Started
    <3>1. r \notin Started' /\ r \notin Started
      BY <2>1 DEF Started, Indices
    <3>2. ASSUME NEW q \in live
          PROVE  (\A i \in 1 .. Len(queue) : queue[i] # q) <=> (\A i \in 1 .. Len(queue') : queue'[i] # q)
      BY <2>1, <3>2 DEF Indices
    <3> QED
      BY <3>1, <3>2 DEF Started
  <2>7. active' = Cardinality(Started')
    BY <1>t, <2>6 DEF QueueOK
  <2>8. starts' + active' >= Concurrent \/ starts' >= Len(queue')
    <3>1. starts + active >= Concurrent \/ starts >= Len(queue)
      BY <1>t DEF QueueOK
    <3>2. starts' = starts + 1 /\ active' = active /\ Len(queue') = Len(queue) + 1
      BY <2>1
    <3> QED
      BY <1>q, <3>1, <3>2
  <2> QED
    BY <2>3, <2>5, <2>7, <2>8 DEF QueueOK
<1>2. CASE StartProcessor
  <2>1. CASE ~(SlotFree /\ queue # <<>>)
    <3>1. /\ UNCHANGED <<queue, active, live, locked, next, msgs>>
          /\ starts' = starts - 1 /\ starts > 0
      BY <1>2, <2>1 DEF StartProcessor, queueVars, dbVars
    <3>2. starts' + active' >= Concurrent \/ starts' >= Len(queue')
      BY <1>q, <2>1, <3>1 DEF SlotFree
    <3> QED
      BY <1>t, <3>1, <3>2 DEF QueueOK, Started
  <2> QED
    BY <1>2, <2>1, QueueStarts
<1>3. ASSUME NEW r \in Requests, WorkerStep(r) \/ DriverStep(r)
      PROVE  QueueOK'
  <2>1. /\ queue' = queue /\ r \in live /\ live' \subseteq live
        /\ \A q \in Requests \ {r} :
             /\ q \in live' <=> q \in live
             /\ q \in locked' <=> q \in locked
             /\ next'[q] = next[q] /\ msgs'[q] = msgs[q]
    BY <1>3, TouchesOne
  <2>2. r \in Started /\ \A i \in Indices(queue) : queue[i] # r
    BY <1>3, StepOfStarted DEF Started, Indices
  <2>3. \A i \in Indices(queue) : queue[i] \in Requests \ {r}
    BY <1>q, <2>2, ElementTyped
  <2>4. /\ \A i, j \in Indices(queue') : queue'[i] = queue'[j] => i = j
        /\ \A i \in Indices(queue') : /\ queue'[i] \in live' \ locked'
                                      /\ next'[queue'[i]] = "phase1"
                                      /\ msgs'[queue'[i]] = 0
    BY <1>t, <2>1, <2>3 DEF QueueOK
  <2>5. CASE Finish(r)
    <3>1. live' = live \ {r} /\ active' = active - 1 /\ starts' = starts + 1
      BY <2>5 DEF Finish, FinishProcessor
    <3>2. Started' = Started \ {r}
      BY <2>1, <3>1 DEF Started
    <3>3. Cardinality(Started') = Cardinality(Started) - 1
      BY <1>t, <2>2, <3>2, StartedFinite, FS_RemoveElement
    <3>4. active' = Cardinality(Started')
      BY <1>t, <3>1, <3>3 DEF QueueOK
    <3>5. starts' + active' >= Concurrent \/ starts' >= Len(queue')
      BY SMTT(60), <1>t, <1>q, <2>1, <3>1 DEF QueueOK
    <3> QED
      BY <2>4, <3>4, <3>5 DEF QueueOK
  <2>6. CASE UNCHANGED <<live, active, starts>>
    <3>1. Started' = Started
      BY <2>1, <2>6 DEF Started
    <3> QED
      BY <1>t, <2>1, <2>4, <2>6, <3>1 DEF QueueOK
  <2> QED
    BY <1>3, <2>5, <2>6
       DEF WorkerStep, DriverStep, TakeMessage, LeaveLoop, Phase1Refuse, Phase1, Phase2Unknown,
           Phase2Answer, Phase2NullSqn, Phase3, GetDone, UpdateDone, UpdateFails, Callback,
           queueVars, dbVars
<1>4. CASE UNCHANGED <<queue, active, starts, live, next, msgs, locked>>
  BY <1>t, <1>4 DEF QueueOK, Started
<1> QED
  BY Zenon, <1>1, <1>2, <1>3, <1>4 DEF Next, vars, Challenge, queueVars, dbVars

LEMMA ControlInvariant == Spec => []Control
<1>1. Init => Control
  BY InvInit DEF IInv
<1>2. Control /\ [Next]_vars => Control'
  BY TypeStep, ArrivalsStep, QueueStep, OpsStep, DanglingStep, StrandedStep DEF Control
<1> QED
  BY <1>1, <1>2, PTL DEF Spec

\* The fields of the processors, the queue and the row stay well typed; m_active
\* never leaves 0 .. m_concurrent.
THEOREM TypeCorrect == Spec => []TypeOK
<1>1. Control => TypeOK
  BY DEF Control
<1> QED
  BY <1>1, ControlInvariant, PTL

\* processNextPhase deletes a processor only when no message in the work queue and
\* no database operation whose callback has still to run names it.
THEOREM NeverDangling == Spec => []NothingDangling
<1>1. Control => NothingDangling
  BY DEF Control
<1> QED
  BY <1>1, ControlInvariant, PTL

\* m_active counts the processors that were started and not deleted, and none
\* waits while a slot is free and nobody is about to start it.
THEOREM SlotsCounted == Spec => []SlotsAgree
<1>1. Control => SlotsAgree
  <2> SUFFICES ASSUME Control PROVE SlotsAgree
    OBVIOUS
  <2>1. active = Cardinality({r \in live : \A i \in 1 .. Len(queue) : queue[i] # r})
    BY DEF Control, QueueOK, Started
  <2>2. queue # <<>> => active = Concurrent \/ starts > 0
    <3>1. queue # <<>> => Len(queue) \in Nat \ {0}
      BY DEF Control, TypeOK
    <3> QED
      BY <3>1, TablesTyped, ConstantsAssumption DEF Control, QueueOK
  <2> QED
    BY <2>1, <2>2 DEF SlotsAgree
<1> QED
  BY <1>1, ControlInvariant, PTL

\* Between a worker that leaves because the next phase is not ready and the
\* callback that makes it ready no wake-up of a processor is lost.
THEOREM NeverStranded == Spec => []NobodyStranded
<1>1. Control => NobodyStranded
  BY DEF Control
<1> QED
  BY <1>1, ControlInvariant, PTL
-----------------------------------------------------------------------------
(* The SQN *)

\* The answers are typed one by one.
LEMMA AnswersTyped ==
  ASSUME TypeOK
  PROVE  /\ Len(answers) \in Nat
         /\ \A i \in Indices(answers) : answers[i].req \in Requests /\ answers[i].sqn \in Nat
         /\ answers # <<>> => Len(answers) \in Indices(answers)
         /\ answers = <<>> => Len(answers) = 0
<1>1. answers \in Seq([req : Requests, sqn : Nat])
  BY DEF TypeOK
<1>2. \A i \in Indices(answers) : answers[i] \in [req : Requests, sqn : Nat]
  BY <1>1, ElementTyped
<1>3. \A i \in Indices(answers) : answers[i].req \in Requests /\ answers[i].sqn \in Nat
  BY <1>2
<1>4. /\ Len(answers) \in Nat
      /\ answers # <<>> => Len(answers) \in Indices(answers)
      /\ answers = <<>> => Len(answers) = 0
  BY <1>1 DEF Indices
<1> QED
  BY <1>3, <1>4

LEMMA RequestsTyped ==
  ASSUME TypeOK, NEW r \in Indices(request)
  PROVE  /\ request[r].kind \in Kinds /\ request[r].rand \in Requests \cup {NoRand}
         /\ request[r].sqn \in Nat
<1>1. request \in Seq([kind : Kinds, rand : Requests \cup {NoRand}, sqn : Nat])
  BY DEF TypeOK
<1>2. request[r] \in [kind : Kinds, rand : Requests \cup {NoRand}, sqn : Nat]
  BY <1>1, ElementTyped
<1> QED
  BY <1>2

\* The SQN of the vector that phase2 makes for r.
NewSqn(r) == IF request[r].kind = "resync" THEN request[r].sqn + 1 ELSE sec[r].sqn

\* An answer is put behind the others.
LEMMA AnswerAdded ==
  ASSUME Control, NEW r \in Requests, Phase2Answer(r)
  PROVE  /\ Len(answers') = Len(answers) + 1
         /\ Indices(answers') = Indices(answers) \cup {Len(answers) + 1}
         /\ \A i \in Indices(answers) : answers'[i] = answers[i]
         /\ answers'[Len(answers) + 1].req = r /\ answers'[Len(answers) + 1].sqn = NewSqn(r)
         /\ answers' # <<>>
<1>1. PICK S : S = [req : Requests, sqn : Nat]
  OBVIOUS
<1>2. PICK e : e = [req |-> r, sqn |-> NewSqn(r)]
  OBVIOUS
<1>3. answers \in Seq(S)
  BY <1>1 DEF Control, TypeOK
<1>4. answers' = Append(answers, e)
  BY <1>2 DEF Phase2Answer, NewSqn
<1>5. /\ Len(answers') = Len(answers) + 1
      /\ Indices(answers') = Indices(answers) \cup {Len(answers) + 1}
      /\ \A i \in Indices(answers) : answers'[i] = answers[i]
      /\ answers'[Len(answers) + 1] = e
      /\ answers' # <<>>
  <2>1. /\ Append(answers, e) # <<>>
        /\ Len(Append(answers, e)) = Len(answers) + 1
        /\ Append(answers, e)[Len(answers) + 1] = e
        /\ \A i \in Indices(answers) : Append(answers, e)[i] = answers[i]
        /\ Indices(Append(answers, e)) = Indices(answers) \cup {Len(answers) + 1}
    BY <1>3, PutAny
  <2> QED
    BY <1>4, <2>1
<1>6. e.req = r /\ e.sqn = NewSqn(r)
  BY <1>2
<1> QED
  BY <1>5, <1>6

\* Who gives an answer read the row and did not save yet.
LEMMA ReadyAnswer ==
  ASSUME Control, NEW r \in Requests, RunsPhase(r, "phase2"), found[r]
  PROVE  /\ Between(r) /\ op[r]["update"] = "none" /\ r \in live
         /\ r \in Indices(request)
<1>1. r \in live /\ "get" \in executed[r] /\ next[r] = "phase2"
  BY TablesTyped DEF Control, RunsPhase, PhaseReady
<1>2. op[r]["get"] \in {"noted", "done"} /\ op[r]["update"] = "none"
  BY SMTT(60), <1>1, TablesTyped DEF Control, OpsOK, OpsOf
<1> QED
  BY <1>1, <1>2 DEF Between, Control, ArrivalsOK

LEMMA AnswersStep == Control /\ AnswersOK /\ [Next]_vars => AnswersOK'
<1> SUFFICES ASSUME Control, AnswersOK, [Next]_vars PROVE AnswersOK'
  OBVIOUS
<1> USE DEF queueVars, dbVars
<1>t. TypeOK
  BY DEF Control
<1>1. ASSUME NEW r \in Requests, Phase2Answer(r)
      PROVE  AnswersOK'
  <2>1. next[r] = "phase2" /\ next' = [next EXCEPT ![r] = "phase3"]
    BY <1>1 DEF Phase2Answer, RunsPhase
  <2>2. \A i \in Indices(answers) : answers'[i].req # r /\ answers'[i].req = answers[i].req
    BY <1>1, <2>1, AnswerAdded DEF AnswersOK
  <2>3. answers'[Len(answers) + 1].req = r
    BY <1>1, <1>t, AnswerAdded, AnswersTyped
  <2>4. \A i, j \in Indices(answers') : answers'[i].req = answers'[j].req => i = j
    <3> SUFFICES ASSUME NEW i \in Indices(answers'), NEW j \in Indices(answers'),
                        answers'[i].req = answers'[j].req
                 PROVE  i = j
      OBVIOUS
    <3>0. /\ i \in Indices(answers) \/ i = Len(answers) + 1
          /\ j \in Indices(answers) \/ j = Len(answers) + 1
      BY <1>1, <1>t, AnswerAdded, AnswersTyped
    <3>1. CASE i \in Indices(answers) /\ j \in Indices(answers)
      BY <2>2, <3>1 DEF AnswersOK
    <3>2. CASE i = Len(answers) + 1
      BY <2>2, <2>3, <3>0, <3>2
    <3>3. CASE j = Len(answers) + 1
      BY <2>2, <2>3, <3>0, <3>3
    <3> QED
      BY <3>0, <3>1, <3>2, <3>3
  <2>5. ASSUME NEW i \in Indices(answers')
        PROVE  next'[answers'[i].req] \in {"phase3", "final"}
    <3>1. CASE i \in Indices(answers)
      <4>1. next[answers[i].req] \in {"phase3", "final"} /\ answers[i].req \in Requests
        BY <1>t, <3>1, AnswersTyped DEF AnswersOK
      <4> QED
        BY <1>t, <2>1, <2>2, <3>1, <4>1, TablesTyped
    <3>2. CASE i = Len(answers) + 1
      BY <1>t, <2>1, <2>3, <3>2, TablesTyped
    <3> QED
      BY <1>1, <1>t, <2>5, <3>1, <3>2, AnswerAdded, AnswersTyped
  <2> QED
    BY <2>4, <2>5 DEF AnswersOK
<1>2. ASSUME NEW r \in Requests, answers' = answers,
             \A q \in Requests \ {r} : next'[q] = next[q],
             next[r] \in {"phase3", "final"} => next'[r] \in {"phase3", "final"}
      PROVE  AnswersOK'
  BY <1>t, <1>2, AnswersTyped DEF AnswersOK
<1>3. ASSUME NEW r \in Requests, WorkerStep(r) \/ DriverStep(r)
      PROVE  AnswersOK'
  <2>1. \A q \in Requests \ {r} : next'[q] = next[q]
    BY <1>3, TouchesOne
  <2>2. CASE next' = next /\ answers' = answers
    BY <1>2, <2>1, <2>2
  <2>3. CASE Phase1Refuse(r) \/ Phase1(r) \/ Phase2Unknown(r) \/ Phase3(r)
    <3>1. answers' = answers /\ (next[r] \in {"phase1", "phase2"} \/ next' = [next EXCEPT ![r] = "final"])
      BY <2>3 DEF Phase1Refuse, Phase1, Phase2Unknown, Phase3, RunsPhase
    <3> QED
      BY <1>t, <1>2, <2>1, <3>1, TablesTyped
  <2> QED
    BY <1>1, <1>3, <2>2, <2>3
       DEF WorkerStep, DriverStep, TakeMessage, LeaveLoop, Phase2NullSqn, Finish, GetDone,
           UpdateDone, UpdateFails, Callback
<1>4. CASE UNCHANGED <<next, answers>>
  BY <1>4 DEF AnswersOK
<1>5. CASE \/ \E kind \in {"initial", "unknown", "refused"} : InitialRequest(kind)
           \/ \E r \in Requests : ResyncRequest(r)
  BY <1>4, <1>5, TouchesNone
<1> QED
  BY Zenon, <1>3, <1>4, <1>5 DEF Next, vars, StartProcessor, Challenge

\* What was overtaken stays overtaken.
OvertakenNow(x, sqn) == \E i \in Indices(answers') : answers'[i].req = x /\ answers'[i].sqn <= sqn

LEMMA StaysOvertaken ==
  ASSUME Control, [Next]_vars
  PROVE  \A x, s, t : s \in Nat /\ t \in Nat /\ s <= t /\ Overtaken(x, s) => OvertakenNow(x, t)
<1> USE DEF queueVars, dbVars
<1>t. TypeOK
  BY Zenon DEF Control
<1>1. \A i \in Indices(answers) : i \in Indices(answers') /\ answers'[i] = answers[i]
  <2>1. CASE answers' = answers
    BY <2>1
  <2>2. ASSUME NEW r \in Requests, Phase2Answer(r)
        PROVE  \A i \in Indices(answers) : i \in Indices(answers') /\ answers'[i] = answers[i]
    BY <2>2, AnswerAdded
  <2>3. CASE \/ \E kind \in {"initial", "unknown", "refused"} : InitialRequest(kind)
             \/ \E r \in Requests : ResyncRequest(r)
    BY <2>1, <2>3, TouchesNone
  <2> QED
    BY ZenonT(60), <2>1, <2>2, <2>3
       DEF Next, vars, StartProcessor, Challenge, WorkerStep, DriverStep, TakeMessage, LeaveLoop,
           Phase1Refuse, Phase1, Phase2Unknown, Phase2NullSqn, Phase3, Finish, GetDone,
           UpdateDone, UpdateFails, Callback
<1> SUFFICES ASSUME NEW x, NEW s \in Nat, NEW t \in Nat, s <= t, Overtaken(x, s)
             PROVE  OvertakenNow(x, t)
  OBVIOUS
<1>2. PICK i \in Indices(answers) : answers[i].req = x /\ answers[i].sqn <= s
  BY DEF Overtaken
<1>3. answers[i].sqn <= t
  BY <1>t, <1>2, AnswersTyped
<1> QED
  BY <1>1, <1>2, <1>3 DEF OvertakenNow

LEMMA UeStep == Control /\ UeOK /\ [Next]_vars => UeOK'
<1> SUFFICES ASSUME Control, UeOK, [Next]_vars PROVE UeOK'
  OBVIOUS
<1> USE DEF queueVars, dbVars
<1>t. TypeOK
  BY DEF Control
<1>u. ue \in [sqn : Nat, refused : SUBSET Requests, seen : SUBSET Requests]
  BY <1>t DEF TypeOK
<1>r. /\ \A x \in ue.refused : OvertakenNow(x, ue.sqn)
      /\ \A r \in Indices(request) :
           request[r].kind = "resync" => OvertakenNow(request[r].rand, request[r].sqn)
  <2>1. \A r \in Indices(request) : request[r].sqn \in Nat /\ request[r].sqn <= request[r].sqn
    BY <1>t, RequestsTyped
  <2> QED
    BY <1>u, <2>1, StaysOvertaken DEF UeOK
<1>1. CASE request' = request /\ ue' = ue
  BY <1>r, <1>1 DEF UeOK, Overtaken, OvertakenNow
<1>2. ASSUME NEW m, request' = Append(request, m),
             m.kind = "resync" => OvertakenNow(m.rand, m.sqn),
             ue'.sqn = ue.sqn, ue'.refused \subseteq ue.refused
      PROVE  UeOK'
  <2>1. request \in Seq([kind : Kinds, rand : Requests \cup {NoRand}, sqn : Nat])
    BY <1>t DEF TypeOK
  <2>2. ASSUME NEW r \in Indices(request')
        PROVE  (r \in Indices(request) /\ request'[r] = request[r]) \/ request'[r] = m
    BY <1>2, <2>1, <2>2 DEF Indices
  <2>3. ASSUME NEW r \in Indices(request'), request'[r].kind = "resync"
        PROVE  OvertakenNow(request'[r].rand, request'[r].sqn)
    <3>1. CASE r \in Indices(request) /\ request'[r] = request[r]
      BY <1>r, <2>3, <3>1
    <3>2. CASE request'[r] = m
      BY <1>2, <2>3, <3>2
    <3> QED
      BY <2>2, <3>1, <3>2
  <2>4. ASSUME NEW x \in ue'.refused
        PROVE  OvertakenNow(x, ue'.sqn)
    BY <1>2, <1>r, <2>4
  <2> QED
    BY <2>3, <2>4 DEF UeOK, Overtaken, OvertakenNow
<1>3. ASSUME NEW kind \in {"initial", "unknown", "refused"}, InitialRequest(kind)
      PROVE  UeOK'
  BY <1>2, <1>3 DEF InitialRequest, Receive
<1>4. ASSUME NEW r \in Requests, ResyncRequest(r)
      PROVE  UeOK'
  <2>1. r \in ue.refused /\ ue' = [ue EXCEPT !.refused = @ \ {r}]
        /\ request' = Append(request, [kind |-> "resync", rand |-> r, sqn |-> ue.sqn])
    BY <1>4 DEF ResyncRequest, Receive
  <2>2. ue'.sqn = ue.sqn /\ ue'.refused \subseteq ue.refused
    BY <1>u, <2>1
  <2>3. OvertakenNow(r, ue.sqn)
    BY <1>r, <2>1
  <2> PICK m : m = [kind |-> "resync", rand |-> r, sqn |-> ue.sqn]
    OBVIOUS
  <2>4. OvertakenNow(m.rand, m.sqn)
    BY <2>3
  <2> QED
    BY <1>2, <2>1, <2>2, <2>4
<1>5. ASSUME NEW i \in 1 .. Len(answers), Challenge(answers[i])
      PROVE  UeOK'
  <2>1. request' = request /\ answers' = answers
    BY <1>5 DEF Challenge
  <2>2. answers[i].req \in Requests /\ answers[i].sqn \in Nat /\ i \in Indices(answers)
    BY <1>t, AnswersTyped DEF Indices
  <2>3. CASE answers[i].sqn > ue.sqn
    <3>1. ue'.sqn = answers[i].sqn /\ ue'.refused = ue.refused /\ ue.sqn <= answers[i].sqn
      BY <1>u, <1>5, <2>2, <2>3 DEF Challenge
    <3>2. \A x \in ue.refused : OvertakenNow(x, answers[i].sqn)
      <4>1. ue.sqn \in Nat
        BY <1>u
      <4> QED
        BY <2>2, <3>1, <4>1, StaysOvertaken DEF UeOK
    <3> QED
      BY <1>r, <2>1, <3>1, <3>2 DEF UeOK, Overtaken, OvertakenNow
  <2>4. CASE ~(answers[i].sqn > ue.sqn)
    <3>1. ue'.sqn = ue.sqn /\ ue'.refused = ue.refused \cup {answers[i].req} /\ answers[i].sqn <= ue.sqn
      BY <1>u, <1>5, <2>2, <2>4 DEF Challenge
    <3>2. Overtaken(answers[i].req, ue.sqn)
      BY <2>2, <3>1 DEF Overtaken
    <3> QED
      BY <1>r, <2>1, <3>1, <3>2 DEF UeOK, Overtaken, OvertakenNow
  <2> QED
    BY <2>3, <2>4
<1>6. ASSUME NEW r \in Requests, WorkerStep(r) \/ DriverStep(r)
      PROVE  request' = request /\ ue' = ue
  BY <1>6 DEF WorkerStep, DriverStep, TakeMessage, LeaveLoop, Phase1Refuse, Phase1, Phase2Answer,
           Phase2Unknown, Phase2NullSqn, Phase3, Finish, GetDone, UpdateDone, UpdateFails, Callback
<1> QED
  BY <1>1, <1>3, <1>4, <1>5, <1>6 DEF Next, vars, StartProcessor
\* A step that gives no answer, does not write the row and lets nobody start to
\* read it or leave while it saves keeps the row and the answers matched.
LEMMA RowKept ==
  ASSUME RowOK, UNCHANGED <<row, answers>>, unsaved => unsaved',
         \A q \in Requests :
           /\ Between(q)' => Between(q) /\ sec'[q] = sec[q] /\ op'[q]["update"] = op[q]["update"]
           /\ Saving(q) => Saving(q)'
  PROVE  RowOK'
<1>1. \A q \in Requests : Saving(q)' <=> Saving(q)
  BY DEF Saving
<1>2. CASE unsaved'
  BY <1>2 DEF RowOK
<1>3. CASE ~unsaved'
  <2>1. /\ \A p, q \in Requests : Between(p) /\ Between(q) => p = q
        /\ \A q \in Requests : Between(q) /\ op[q]["update"] = "none" => sec[q] = row
        /\ \A q \in Requests : Saving(q) =>
             answers # <<>> /\ Last.req = q /\ sec[q] = [sqn |-> Last.sqn, rand |-> q]
        /\ (\A q \in Requests : ~Saving(q)) /\ answers # <<>> =>
             row = [sqn |-> Last.sqn + 1, rand |-> Last.req]
    BY <1>3 DEF RowOK
  <2>2. Last' = Last
    BY DEF Last
  <2>3. \A p, q \in Requests : Between(p)' /\ Between(q)' => p = q
    BY <2>1
  <2>4. \A q \in Requests : Between(q)' /\ op'[q]["update"] = "none" => sec'[q] = row'
    BY <2>1
  <2>5. \A q \in Requests : Saving(q)' => sec'[q] = sec[q]
    BY DEF Saving
  <2>6. \A q \in Requests : Saving(q)' =>
          answers' # <<>> /\ Last'.req = q /\ sec'[q] = [sqn |-> Last'.sqn, rand |-> q]
    BY <1>1, <2>1, <2>2, <2>5
  <2>7. (\A q \in Requests : ~Saving(q)') /\ answers' # <<>> =>
          row' = [sqn |-> Last'.sqn + 1, rand |-> Last'.req]
    BY <1>1, <2>1, <2>2
  <2> QED
    BY <2>3, <2>4, <2>6, <2>7 DEF RowOK
<1> QED
  BY <1>2, <1>3

\* Without an answer the SQN given out stay as they are.
LEMMA FreshKept ==
  ASSUME SqnFresh, answers' = answers, unsaved => unsaved'
  PROVE  SqnFresh'
  BY DEF SqnFresh

\* The steps of the threads of one processor that leave the database alone.
LEMMA RowUnread ==
  ASSUME Control, RowOK, SqnFresh, NEW r \in Requests,
         \/ TakeMessage(r) \/ LeaveLoop(r) \/ Phase1Refuse(r) \/ Phase1(r)
         \/ Phase2Unknown(r) \/ Phase2NullSqn(r) \/ Phase3(r) \/ Finish(r)
         \/ \E o \in Ops : Callback(r, o)
  PROVE  RowOK' /\ SqnFresh'
<1> USE TablesTyped DEF queueVars, dbVars
<1>t. TypeOK /\ OpsOf(r)
  BY DEF Control, OpsOK
<1>1. UNCHANGED <<row, answers, unsaved>>
  BY DEF TakeMessage, LeaveLoop, Phase1Refuse, Phase1, Phase2Unknown, Phase2NullSqn, Phase3,
         Finish, Callback
<1>2. WorkerStep(r) \/ DriverStep(r)
  BY DEF WorkerStep, DriverStep
<1>3. ASSUME NEW q \in Requests, q # r
      PROVE  /\ Between(q)' => Between(q) /\ sec'[q] = sec[q] /\ op'[q]["update"] = op[q]["update"]
             /\ Saving(q) => Saving(q)'
  <2>1. /\ q \in live' <=> q \in live
        /\ found'[q] = found[q] /\ op'[q] = op[q] /\ sec'[q] = sec[q]
    BY <1>2, <1>3, TouchesOne
  <2> QED
    BY <2>1 DEF Between, Saving
<1>4. /\ Between(r)' => Between(r) /\ sec'[r] = sec[r] /\ op'[r]["update"] = op[r]["update"]
      /\ Saving(r) => Saving(r)'
  <2>1. CASE UNCHANGED <<op, found, live, sec>>
    BY <2>1 DEF Between, Saving
  <2>2. CASE Phase1(r)
    <3>1. next[r] = "phase1" /\ op'[r]["get"] = "sent"
      BY <1>t, <2>2, OpMoved DEF Phase1, RunsPhase, IssueOp
    <3>2. op[r]["get"] = "none"
      BY <1>t, <3>1 DEF OpsOf
    <3> QED
      BY <3>1, <3>2 DEF Between, Saving
  <2>3. CASE Finish(r)
    <3>1. next[r] = "final" /\ r \notin live'
      BY <2>3 DEF Finish, RunsPhase
    <3>2. op[r]["update"] # "sent"
      BY <1>t, <3>1 DEF OpsOf
    <3> QED
      BY <3>1, <3>2 DEF Between, Saving
  <2>4. ASSUME NEW o \in Ops, Callback(r, o)
        PROVE  /\ Between(r)' => Between(r) /\ sec'[r] = sec[r] /\ op'[r]["update"] = op[r]["update"]
               /\ Saving(r) => Saving(r)'
    <3>1. /\ op[r][o] = "noted" /\ op'[r][o] = "done"
          /\ \A p \in Ops : p # o => op'[r][p] = op[r][p]
          /\ UNCHANGED <<found, live, sec>>
      BY <1>t, <2>4, OpMoved DEF Callback
    <3>2. CASE o = "get"
      <4>1. /\ op[r]["get"] = "noted" /\ op'[r]["get"] = "done"
            /\ op'[r]["update"] = op[r]["update"]
        BY <1>t, <3>1, <3>2
      <4> QED
        BY <3>1, <4>1 DEF Between, Saving
    <3>3. CASE o = "update"
      BY <3>1, <3>3 DEF Between, Saving
    <3> QED
      BY <3>2, <3>3 DEF Ops
  <2> QED
    BY <2>1, <2>2, <2>3, <2>4
       DEF TakeMessage, LeaveLoop, Phase1Refuse, Phase2Unknown, Phase2NullSqn, Phase3
<1> QED
  BY <1>1, <1>3, <1>4, RowKept, FreshKept

\* The vector of an answer has a SQN above every one given out before, and its
\* processor is then the one that saves.
LEMMA RowAnswered ==
  ASSUME Control, RowOK, UeOK, AnswersOK, SqnFresh, NEW r \in Requests, Phase2Answer(r)
  PROVE  RowOK' /\ SqnFresh'
<1> USE TablesTyped DEF queueVars, dbVars
<1>t. TypeOK
  BY DEF Control
<1>1. CASE unsaved
  BY <1>1 DEF Phase2Answer, RowOK, SqnFresh
<1>2. CASE ~unsaved
  <2>1. Between(r) /\ op[r]["update"] = "none" /\ r \in live /\ r \in Indices(request)
    BY ReadyAnswer DEF Phase2Answer
  <2>2. /\ \A q \in Requests : Between(q) => q = r
        /\ sec[r] = row
        /\ answers # <<>> => row.sqn = Last.sqn + 1 /\ row.rand = Last.req
    BY <1>2, <2>1 DEF RowOK, Saving
  <2>3. answers # <<>> => NewSqn(r) > Last.sqn
    <3> SUFFICES ASSUME answers # <<>>
                 PROVE  NewSqn(r) > Last.sqn
      OBVIOUS
    <3>1. Len(answers) \in Indices(answers) /\ Last.sqn \in Nat /\ Last.req \in Requests
      BY <1>t, AnswersTyped DEF Last
    <3>2. CASE request[r].kind # "resync"
      <4>1. NewSqn(r) = sec[r].sqn
        BY <3>2 DEF NewSqn
      <4> QED
        BY <2>2, <3>1, <4>1
    <3>3. CASE request[r].kind = "resync"
      <4>1. NewSqn(r) = request[r].sqn + 1 /\ request[r].sqn \in Nat
        BY <1>t, <2>1, <3>3, RequestsTyped DEF NewSqn
      <4>2. request[r].rand = Last.req
        BY <2>2, <3>3 DEF Phase2Answer, AutsVerifies
      <4>3. Overtaken(Last.req, request[r].sqn)
        BY <2>1, <3>3, <4>2 DEF UeOK
      <4>4. Last.sqn <= request[r].sqn
        BY <3>1, <4>3 DEF Overtaken, AnswersOK, Last
      <4> QED
        BY <3>1, <4>1, <4>4
    <3> QED
      BY <3>2, <3>3
  <2>4. \A i \in Indices(answers) : answers[i].sqn < NewSqn(r)
    <3> SUFFICES ASSUME NEW i \in Indices(answers)
                 PROVE  answers[i].sqn < NewSqn(r)
      OBVIOUS
    <3>1. answers # <<>> /\ Len(answers) \in Nat /\ i \in 1 .. Len(answers)
      BY <1>t, AnswersTyped DEF Indices
    <3>2. Len(answers) \in Indices(answers) /\ Last.sqn \in Nat /\ answers[i].sqn \in Nat
      BY <1>t, <3>1, AnswersTyped DEF Last
    <3>3. answers[i].sqn <= Last.sqn
      <4>1. CASE i = Len(answers)
        BY <3>2, <4>1 DEF Last
      <4>2. CASE i < Len(answers)
        <5>1. answers[i].sqn < answers[Len(answers)].sqn
          BY <1>2, <3>1, <3>2, <4>2 DEF SqnFresh, Indices
        <5> QED
          BY <3>2, <5>1 DEF Last
      <4> QED
        BY <3>1, <4>1, <4>2
    <3>4. NewSqn(r) \in Nat
      <4>1. request[r].sqn \in Nat
        BY <1>t, <2>1, RequestsTyped
      <4>2. sec[r].sqn \in Nat
        BY <1>t DEF TypeOK, Sec
      <4> QED
        BY <4>1, <4>2 DEF NewSqn
    <3> QED
      BY <2>3, <3>1, <3>2, <3>3, <3>4
  <2>5. SqnFresh'
    <3> SUFFICES ASSUME NEW i \in Indices(answers'), NEW j \in Indices(answers'), i < j
                 PROVE  answers'[i].sqn < answers'[j].sqn
      BY DEF SqnFresh, Indices
    <3>1. /\ i \in Indices(answers) \/ i = Len(answers) + 1
          /\ j \in Indices(answers) \/ j = Len(answers) + 1
          /\ Len(answers) \in Nat
      BY <1>t, AnswerAdded, AnswersTyped
    <3>2. i \in Indices(answers)
      BY <3>1 DEF Indices
    <3>3. CASE j \in Indices(answers)
      BY <1>2, <3>2, <3>3, AnswerAdded DEF SqnFresh, Indices
    <3>4. CASE j = Len(answers) + 1
      BY <2>4, <3>2, <3>4, AnswerAdded
    <3> QED
      BY <3>1, <3>3, <3>4
  <2>6. RowOK'
    <3>1. /\ op' = [op EXCEPT ![r]["update"] = "sent"]
          /\ sec' = [sec EXCEPT ![r] = [sqn |-> NewSqn(r), rand |-> r]]
          /\ UNCHANGED <<live, found>>
      BY DEF Phase2Answer, IssueOp, NewSqn
    <3>2. /\ op'[r]["update"] = "sent" /\ op'[r]["get"] = op[r]["get"]
          /\ \A q \in Requests \ {r} : op'[q] = op[q]
      BY <1>t, <3>1, OpMoved
    <3>3. sec'[r].sqn = NewSqn(r) /\ sec'[r] = [sqn |-> NewSqn(r), rand |-> r]
      BY <1>t, <3>1 DEF TypeOK
    <3>4. Saving(r)' /\ \A q \in Requests : Between(q)' => q = r
      BY <2>1, <2>2, <3>1, <3>2 DEF Between, Saving
    <3>5. answers' # <<>> /\ Last'.req = r /\ Last'.sqn = NewSqn(r)
      BY AnswerAdded DEF Last
    <3>6. sec'[r] = [sqn |-> Last'.sqn, rand |-> r]
      BY <3>3, <3>5
    <3>7. \A q \in Requests : Between(q)' => op'[q]["update"] # "none"
      BY <3>2, <3>4
    <3>8. \A q \in Requests : Saving(q)' => Between(q)'
      BY DEF Saving
    <3> QED
      BY <3>4, <3>5, <3>6, <3>7, <3>8 DEF RowOK
  <2> QED
    BY <2>5, <2>6
<1> QED
  BY <1>1, <1>2

\* A processor that reads the row holds it, or knows that an answer is not saved.
LEMMA RowRead ==
  ASSUME Control, RowOK, NEW r \in Requests, GetDone(r)
  PROVE  RowOK'
<1> USE TablesTyped DEF queueVars, dbVars
<1>t. TypeOK /\ OpsOf(r)
  BY DEF Control, OpsOK
<1>1. /\ op[r]["get"] = "sent" /\ op'[r]["get"] = "noted" /\ op'[r]["update"] = op[r]["update"]
      /\ \A q \in Requests \ {r} : op'[q] = op[q]
      /\ UNCHANGED <<live, row, answers>>
  BY <1>t, OpMoved DEF GetDone
<1>2. op[r]["update"] = "none" /\ ~Between(r)
  BY <1>t, <1>1 DEF OpsOf, Phases, Between
<1>3. CASE request[r].kind = "unknown"
  <2>1. ~found'[r] /\ UNCHANGED <<sec, unsaved>> /\ \A q \in Requests \ {r} : found'[q] = found[q]
    BY <1>t, <1>3 DEF GetDone
  <2> QED
    BY <1>1, <1>2, <2>1, RowKept DEF Between, Saving
<1>4. CASE request[r].kind # "unknown"
  <2>1. /\ sec' = [sec EXCEPT ![r] = row]
        /\ unsaved' = (unsaved \/ \E q \in Requests \ {r} : Between(q)) /\ found' = found
    BY <1>4 DEF GetDone
  <2>2. CASE unsaved'
    BY <2>2 DEF RowOK
  <2>3. CASE ~unsaved'
    <3>1. ~unsaved /\ \A q \in Requests : ~Between(q)
      BY <1>2, <2>1, <2>3
    <3>2. \A q \in Requests : Between(q)' => q = r
      BY <1>1, <2>1, <3>1 DEF Between
    <3>3. sec'[r] = row'
      BY <1>t, <1>1, <2>1 DEF TypeOK
    <3>4. \A q \in Requests : ~Saving(q) /\ ~Saving(q)'
      BY <1>1, <1>2, <3>1, <3>2 DEF Saving
    <3> QED
      BY <1>1, <3>1, <3>2, <3>3, <3>4 DEF RowOK, Last
  <2> QED
    BY <2>2, <2>3
<1> QED
  BY <1>3, <1>4

\* The update of the last answer puts the next SQN and its RAND into the row.
LEMMA RowSaved ==
  ASSUME Control, RowOK, NEW r \in Requests, UpdateDone(r)
  PROVE  RowOK'
<1> USE TablesTyped DEF queueVars, dbVars
<1>t. TypeOK /\ OpsOf(r)
  BY DEF Control, OpsOK
<1>1. /\ op[r]["update"] = "sent" /\ op'[r]["update"] = "noted" /\ op'[r]["get"] = op[r]["get"]
      /\ \A q \in Requests \ {r} : op'[q] = op[q]
      /\ UNCHANGED <<live, found, sec, unsaved, answers>>
      /\ row' = [sqn |-> sec[r].sqn + 1, rand |-> sec[r].rand]
  BY <1>t, OpMoved DEF UpdateDone, SavedRow
<1>2. Between(r) /\ Saving(r)
  <2>1. r \in live
    BY <1>1, InFlightLive DEF Control
  <2>2. found[r] /\ op[r]["get"] \in {"noted", "done"}
    BY <1>t, <1>1, <2>1 DEF OpsOf, Phases
  <2> QED
    BY <1>1, <2>1, <2>2 DEF Between, Saving
<1>3. CASE ~unsaved
  <2>1. /\ \A q \in Requests : Between(q) => q = r
        /\ answers # <<>> /\ Last.req = r /\ sec[r] = [sqn |-> Last.sqn, rand |-> r]
    BY <1>2, <1>3 DEF RowOK
  <2>2. sec[r].sqn = Last.sqn /\ sec[r].rand = Last.req
    BY <2>1
  <2>3. row' = [sqn |-> Last'.sqn + 1, rand |-> Last'.req]
    BY <1>1, <2>2 DEF Last
  <2>4. \A q \in Requests : ~Between(q)'
    <3> TAKE q \in Requests
    <3>1. CASE q = r
      BY <1>1, <3>1 DEF Between
    <3>2. CASE q # r
      <4>1. op'[q] = op[q] /\ live' = live /\ found' = found /\ ~Between(q)
        BY <1>1, <2>1, <3>2
      <4> QED
        BY <4>1 DEF Between
    <3> QED
      BY <3>1, <3>2
  <2> QED
    BY <2>3, <2>4 DEF RowOK, Saving
<1> QED
  BY <1>1, <1>3 DEF RowOK

LEMMA RowStep ==
  Control /\ Numbers /\ [Next]_vars => RowOK' /\ SqnFresh'
<1> SUFFICES ASSUME Control, Numbers, [Next]_vars PROVE RowOK' /\ SqnFresh'
  OBVIOUS
<1> USE TablesTyped DEF queueVars, dbVars
<1>t. TypeOK /\ RowOK /\ SqnFresh
  BY DEF Control, Numbers
<1>1. CASE UNCHANGED <<op, found, live, sec, row, answers, unsaved>>
  BY <1>t, <1>1, RowKept, FreshKept DEF Between, Saving
<1>2. CASE \/ \E kind \in {"initial", "unknown", "refused"} : InitialRequest(kind)
           \/ \E r \in Requests : ResyncRequest(r)
  <2> PICK r \in Requests \ live :
           /\ r = Len(request) + 1
           /\ live' = live \cup {r}
           /\ UNCHANGED <<active, next, msgs, locked, dbVars, answers, up>>
    BY <1>2, TouchesNone
  <2>1. op[r]["get"] = "none"
    <3>1. r \notin Indices(request)
      BY <1>t DEF Indices, TypeOK
    <3> QED
      BY <3>1 DEF Control, ArrivalsOK, OpsOK, OpsOf
  <2>2. \A q \in Requests : Between(q)' <=> Between(q)
    BY <2>1 DEF Between
  <2> QED
    BY <1>t, <2>2, RowKept, FreshKept DEF Saving
<1>3. ASSUME NEW r \in Requests, GetDone(r) \/ UpdateDone(r) \/ UpdateFails(r)
      PROVE  RowOK' /\ SqnFresh'
  <2>1. answers' = answers /\ (unsaved => unsaved')
    <3>1. CASE GetDone(r)
      <4>1. unsaved' = unsaved \/ unsaved' = (unsaved \/ \E q \in Requests \ {r} : Between(q))
        BY <3>1 DEF GetDone
      <4>2. unsaved => unsaved'
        BY <4>1, Zenon
      <4> QED
        BY <3>1, <4>2 DEF GetDone
    <3>2. CASE UpdateDone(r) \/ UpdateFails(r)
      BY <3>2 DEF UpdateDone, UpdateFails
    <3> QED
      BY <1>3, <3>1, <3>2
  <2>2. CASE UpdateFails(r)
    BY <2>2 DEF UpdateFails, RowOK, SqnFresh
  <2> QED
    BY <1>t, <1>3, <2>1, <2>2, RowRead, RowSaved, FreshKept
<1>4. ASSUME NEW r \in Requests, WorkerStep(r) \/ DriverStep(r)
      PROVE  RowOK' /\ SqnFresh'
  BY <1>t, <1>3, <1>4, RowUnread, RowAnswered DEF WorkerStep, DriverStep, Numbers
<1> QED
  BY Zenon, <1>1, <1>2, <1>4 DEF Next, vars, StartProcessor, Challenge

\* The threads keep Control; what they do to the row and the answers keeps Numbers.
THEOREM Invariance == Spec => []IInv
<1>1. IInv /\ [Next]_vars => IInv'
  BY TypeStep, ArrivalsStep, QueueStep, OpsStep, DanglingStep, StrandedStep, AnswersStep, UeStep,
     RowStep DEF IInv, Control, Numbers
<1> QED
  BY InvInit, <1>1, PTL DEF Spec

\* Two vectors of a subscriber get the same SQN, or a later one gets a lower SQN,
\* only after updateRandSqn failed or a row was read between the answer of another
\* processor and its update.
THEOREM SqnNeverRepeats == Spec => []SqnFresh
<1>1. IInv => SqnFresh
  BY DEF IInv, Numbers
<1> QED
  BY <1>1, Invariance, PTL

\* The AUTS for the vector given out last verifies as long as every answer was
\* saved: the NULL SQN of phase2 ends the process only for an older vector.
THEOREM LastAutsVerifies == Spec => LastResyncVerifies
<1>1. IInv /\ [Next]_vars =>
        \/ up' = up \/ unsaved
        \/ \E r \in locked : /\ request[r].kind = "resync"
                             /\ request[r].rand # answers[Len(answers)].req
  <2> SUFFICES ASSUME IInv, [Next]_vars, up' # up, ~unsaved
               PROVE  \E r \in locked : /\ request[r].kind = "resync"
                                        /\ request[r].rand # answers[Len(answers)].req
    BY Zenon
  <2> USE DEF queueVars, dbVars
  <2>1. PICK r \in Requests : Phase2NullSqn(r)
    <3>1. ~(\/ \E kind \in {"initial", "unknown", "refused"} : InitialRequest(kind)
            \/ \E r \in Requests : ResyncRequest(r))
      BY TouchesNone DEF IInv
    <3> QED
      BY ZenonT(60), <3>1 DEF Next, vars, StartProcessor, Challenge, WorkerStep, DriverStep, TakeMessage,
           LeaveLoop, Phase1Refuse, Phase1, Phase2Answer, Phase2Unknown, Phase3, Finish, GetDone,
           UpdateDone, UpdateFails, Callback
  <2>2. /\ Between(r) /\ op[r]["update"] = "none" /\ r \in Indices(request) /\ r \in locked
        /\ request[r].kind = "resync" /\ request[r].rand # sec[r].rand
    BY <2>1, ReadyAnswer DEF Phase2NullSqn, AutsVerifies, RunsPhase, IInv
  <2>3. \E i \in Indices(answers) : answers[i].req = request[r].rand
    BY <2>2 DEF IInv, Numbers, UeOK, Overtaken
  <2>4. answers # <<>>
    BY <2>3, AnswersTyped DEF IInv, Control, Indices
  <2>5. sec[r] = row /\ row = [sqn |-> Last.sqn + 1, rand |-> Last.req]
    <3>1. \A q \in Requests : ~Saving(q)
      BY <2>2 DEF IInv, Numbers, RowOK, Saving
    <3> QED
      BY <2>2, <2>4, <3>1 DEF IInv, Numbers, RowOK
  <2> QED
    BY <2>2, <2>5 DEF Last
<1> QED
  BY <1>1, Invariance, PTL DEF Spec, LastResyncVerifies
==============================================================================
