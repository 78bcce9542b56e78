---------------------------- MODULE EmmAttachProofs ----------------------------
(***************************************************************************)
(* Proofs about EmmAttach for every value of its counters and every number  *)
(* of attach requests; those about the state machine for the number of      *)
(* resynchronisations the code allows.                                      *)
(***************************************************************************)
EXTENDS EmmAttach, FiniteSetTheorems, TLAPS

Indices(s) == 1 .. Len(s)

MessageTypes ==
  {"attach", "response", "synch", "mac", "smcComplete", "smcReject", "complete",
   "esmAccept", "esmReject", "t_attach", "t_auth", "t_smc", "t_info", "vector", "error", "detach"}

Messages == [type : MessageTypes, ue : 0 .. MaxAttach, good : BOOLEAN]
ToUeMessages == [type : {"challenge", "smc", "accept"}, ue : 0 .. MaxAttach, good : BOOLEAN]
Timers == [id : Nat \ {0}, proc : Procs, ue : UeIds]

\* The types TypeOK leaves open, and the bound on the ue_ids.
QueuesOK ==
  /\ mailbox \in Seq(Messages) /\ air \in Seq(ToUeMessages)
  /\ s6a \in Seq({"initial", "resync"})
  /\ running \subseteq Timers /\ IsFiniteSet(running)

\* A context is the one of the last attach of the UE.
ContextOK ==
  /\ emm = NoContext \/ (emm.ue = ue.id /\ emm.ue # 0)
  /\ esm \subseteq 1 .. ue.id
  /\ \A i \in Indices(mailbox) : mailbox[i].ue <= ue.id
  /\ \A i \in Indices(air) : air[i].ue \in 1 .. ue.id

\* The attach request of a new ue_id is the only thing about that ue_id.
AttachFirst ==
  \A i \in Indices(mailbox) : mailbox[i].type = "attach" =>
    /\ emm = NoContext /\ mailbox[i].ue = ue.id /\ ue.id # 0 /\ ue.id \notin esm
    /\ \A j \in Indices(mailbox) : mailbox[j].ue = ue.id => j = i
    /\ \A j \in Indices(air) : air[j].ue # ue.id

HasContext == emm.ue # 0

\* The attach accept was sent, and perhaps completed.
Accepted == "attach" \in emm.procs => emm.count["attach"] > 0

\* Before the security mode is complete neither ESM nor the attach accept is
\* under way; the procedures follow each other.
StagesOK ==
  HasContext =>
    /\ "auth" \in emm.procs => "smc" \notin emm.procs
    /\ "auth" \in emm.procs \/ "smc" \in emm.procs =>
         "attach" \in emm.procs /\ emm.count["attach"] = 0 /\ emm.ue \notin esm
    /\ emm.ue \in esm /\ "attach" \in emm.procs => emm.count["attach"] = 0

EsmTypes == {"esmAccept", "esmReject"}

\* What a message in the mailbox says about the context it is for.
MailOK(m) ==
  HasContext /\ m.ue = emm.ue =>
    /\ m.type \in {"t_attach", "complete"} => Accepted
    /\ m.type \in EsmTypes =>
         /\ "auth" \notin emm.procs /\ "smc" \notin emm.procs /\ emm.ue \notin esm
         /\ "attach" \in emm.procs => emm.count["attach"] = 0

EvidenceOK ==
  /\ \A i \in Indices(mailbox) : MailOK(mailbox[i])
  /\ \A i, j \in Indices(mailbox) :
       /\ mailbox[i].type \in EsmTypes /\ mailbox[j].type \in EsmTypes
       /\ HasContext /\ mailbox[i].ue = emm.ue /\ mailbox[j].ue = emm.ue
       => i = j
  /\ \A i \in Indices(air) : HasContext /\ air[i].ue = emm.ue /\ air[i].type = "accept" => Accepted
  /\ \A t \in running : t.proc = "attach" => Accepted

\* The part of the invariant about timers, counters and stages.
Base == TypeOK /\ QueuesOK /\ ContextOK /\ AttachFirst /\ TimersOwned /\ StagesOK /\ EvidenceOK

\* EMM_AUTHENTICATION_SYNC_FAILURE_MAX of the code: one resynchronisation.
OneResynchronisation == EMM_AUTHENTICATION_SYNC_FAILURE_MAX = 2

\* The first vector is not here yet.
Early == "info" \in emm.procs /\ emm.synch = 0

\* The procedures of a context determine its state.
StateOK ==
  HasContext =>
    /\ \A p \in Commons : emm.prev[p] = "deregistered"
    /\ emm.synch \in {0, 1}
    /\ "info" \in emm.procs => "auth" \in emm.procs
    /\ "auth" \in emm.procs => emm.fsm = IF Early THEN "deregistered" ELSE "common"
    /\ "smc" \in emm.procs => emm.fsm = "common"
    /\ emm.procs = {"attach"} => emm.fsm = IF emm.count["attach"] > 0 THEN "common" ELSE "deregistered"
    /\ "attach" \notin emm.procs => emm.procs = {} /\ emm.fsm = "registered"

\* Challenges that were made from one vector only, the one in the context.
OneVector == "auth" \in emm.procs /\ (emm.synch = 0 \/ "info" \in emm.procs)

AuthTypes == {"response", "synch", "mac", "t_auth"}

\* The UE answers a challenge according to the vector it was made from. While
\* new vectors are awaited every challenge was made from a vector it refuses.
VectorsOK ==
  HasContext =>
    /\ OneVector /\ emm.synch > 0 => ~emm.good
    /\ \A i \in Indices(air) : air[i].ue = emm.ue /\ air[i].type = "challenge" =>
         ~Early /\ (OneVector => air[i].good = emm.good)
    /\ \A i \in Indices(mailbox) : mailbox[i].ue = emm.ue =>
         /\ mailbox[i].type \in AuthTypes => ~Early
         /\ mailbox[i].type = "response" => (OneVector => emm.good)
         /\ mailbox[i].type = "synch" => (OneVector => ~emm.good)
    /\ \A t \in running : t.proc = "auth" => ~Early

IInv == Base /\ StateOK /\ VectorsOK
LEMMA NewContextTyped ==
  ASSUME NEW u \in 0 .. MaxAttach
  PROVE  /\ NewContext(u) \in Context
         /\ NewContext(u).ue = u /\ NewContext(u).fsm = "deregistered"
         /\ NewContext(u).procs = {"attach", "auth"}
         /\ NewContext(u).timer = [p \in Procs |-> INACTIVE]
         /\ NewContext(u).count = [p \in Procs |-> 0]
         /\ NewContext(u).prev = [p \in Commons |-> "deregistered"]
         /\ NewContext(u).synch = 0 /\ NewContext(u).good = FALSE
  BY CountersAssumption DEF NewContext, Context, States, Procs, INACTIVE

LEMMA NoContextTyped ==
  /\ NoContext \in Context
  /\ NoContext.procs = {} /\ NoContext.ue = 0 /\ NoContext.fsm = "deregistered"
  /\ NoContext.timer = [p \in Procs |-> INACTIVE] /\ NoContext.count = [p \in Procs |-> 0]
<1> PICK e : e = NewContext(0)
  OBVIOUS
<1>1. /\ e \in Context /\ e.ue = 0 /\ e.fsm = "deregistered"
      /\ e.timer = [p \in Procs |-> INACTIVE] /\ e.count = [p \in Procs |-> 0]
  <2>1. 0 \in 0 .. MaxAttach
    BY CountersAssumption
  <2> QED
    BY <2>1, NewContextTyped
<1>2. NoContext = [e EXCEPT !.procs = {}]
  BY DEF NoContext
<1> QED
  BY <1>1, <1>2 DEF Context

\* A context that differs at most in its timers.
SameBut(f, e) ==
  /\ f.ue = e.ue /\ f.fsm = e.fsm /\ f.count = e.count /\ f.prev = e.prev
  /\ f.synch = e.synch /\ f.good = e.good

LEMMA Forgotten ==
  ASSUME NEW e \in Context, NEW ps \in SUBSET Procs
  PROVE  /\ Forget(e, ps) \in Context /\ SameBut(Forget(e, ps), e) /\ Forget(e, ps).procs = e.procs
         /\ \A p \in Procs : Forget(e, ps).timer[p] = IF p \in ps THEN INACTIVE ELSE e.timer[p]
  BY DEF Forget, Context, SameBut, INACTIVE

LEMMA Deleted ==
  ASSUME NEW e \in Context, NEW ps \in SUBSET Procs
  PROVE  /\ Delete(e, ps) \in Context /\ SameBut(Delete(e, ps), e) /\ Delete(e, ps).procs = e.procs \ ps
         /\ \A p \in Procs : Delete(e, ps).timer[p] = IF p \in ps THEN INACTIVE ELSE e.timer[p]
<1>1. PICK f : f = Forget(e, ps)
  OBVIOUS
<1>2. /\ f \in Context /\ SameBut(f, e) /\ f.procs = e.procs
      /\ \A p \in Procs : f.timer[p] = IF p \in ps THEN INACTIVE ELSE e.timer[p]
  BY <1>1, Forgotten
<1>3. Delete(e, ps) = [f EXCEPT !.procs = @ \ ps]
  BY <1>1 DEF Delete
<1> QED
  BY <1>2, <1>3 DEF Context, SameBut

LEMMA ImageFinite ==
  ASSUME NEW S, IsFiniteSet(S), NEW f
  PROVE  IsFiniteSet({f[x] : x \in S})
<1> DEFINE T == {f[x] : x \in S}
           g == [x \in S |-> f[x]]
<1>1. g \in Surjection(S, T)
  BY DEF Surjection
<1> QED
  BY <1>1, FS_Surjection

LEMMA ProcsFinite == IsFiniteSet(Procs)
<1>1. IsFiniteSet({})
  BY FS_EmptySet
<1>2. IsFiniteSet({} \cup {"attach"})
  BY <1>1, FS_AddElement
<1>3. IsFiniteSet({} \cup {"attach"} \cup {"auth"})
  BY <1>2, FS_AddElement
<1>4. IsFiniteSet({} \cup {"attach"} \cup {"auth"} \cup {"smc"})
  BY <1>3, FS_AddElement
<1>5. IsFiniteSet({} \cup {"attach"} \cup {"auth"} \cup {"smc"} \cup {"info"})
  BY <1>4, FS_AddElement
<1>6. Procs = {} \cup {"attach"} \cup {"auth"} \cup {"smc"} \cup {"info"}
  BY DEF Procs
<1> QED
  BY <1>5, <1>6

\* There is an id that no timer and no procedure has: fewer ids are used than
\* there are candidates.
LEMMA FreshIdUnused ==
  ASSUME NEW r, IsFiniteSet(r), NEW e
  PROVE  LET used == {t.id : t \in r} \cup {e.timer[p] : p \in Procs}
         IN  FreshId(r, e) \in Nat \ {0} /\ FreshId(r, e) \notin used
<1> DEFINE used == {t.id : t \in r} \cup {e.timer[p] : p \in Procs}
<1>1. IsFiniteSet(used)
  <2>1. IsFiniteSet({t.id : t \in r})
    <3> DEFINE f == [t \in r |-> t.id]
    <3>1. IsFiniteSet({f[t] : t \in r})
      BY ImageFinite
    <3>2. {f[t] : t \in r} = {t.id : t \in r}
      OBVIOUS
    <3> QED
      BY <3>1, <3>2
  <2>3. IsFiniteSet({e.timer[p] : p \in Procs})
    BY ProcsFinite, ImageFinite
  <2> QED
    BY <2>1, <2>3, FS_Union
<1>2. Cardinality(used) \in Nat
  BY <1>1, FS_CardinalityType
<1>3. \E i \in 1 .. (Cardinality(used) + 1) : i \notin used
  <2> SUFFICES ASSUME 1 .. (Cardinality(used) + 1) \subseteq used
               PROVE  FALSE
    OBVIOUS
  <2>1. Cardinality(1 .. (Cardinality(used) + 1)) <= Cardinality(used)
    BY <1>1, FS_Subset
  <2>2. Cardinality(1 .. (Cardinality(used) + 1)) = Cardinality(used) + 1
    BY <1>2, FS_Interval
  <2> QED
    BY <1>2, <2>1, <2>2
<1>4. FreshId(r, e) = CHOOSE i \in 1 .. (Cardinality(used) + 1) : i \notin used
  BY DEF FreshId
<1>5. FreshId(r, e) \in 1 .. (Cardinality(used) + 1) /\ FreshId(r, e) \notin used
  BY <1>3, <1>4
<1> QED
  BY <1>2, <1>5

\* Starting a timer changes the context in its timers only.
LEMMA Restarted ==
  ASSUME NEW e \in Context, NEW r \in SUBSET Timers, IsFiniteSet(r), NEW p \in Procs,
         e.ue \in UeIds, Restart(e, r, p)
  PROVE  /\ emm' \in Context /\ SameBut(emm', e) /\ emm'.procs = e.procs
         /\ running' \in SUBSET Timers /\ IsFiniteSet(running')
         /\ \A q \in Procs : q # p => emm'.timer[q] = e.timer[q]
         /\ \A t \in running' : \/ t \in r /\ t.id # e.timer[p]
                                \/ t.ue = e.ue /\ t.proc = p /\ t.id = emm'.timer[p]
<1> DEFINE r1 == Stop(r, e, p)
           e1 == Forget(e, {p})
           id == FreshId(r1, e1)
<1>1. emm' = [e1 EXCEPT !.timer[p] = id] /\ running' = r1 \cup {[id |-> id, proc |-> p, ue |-> e.ue]}
  BY DEF Restart
<1>2. r1 \subseteq r /\ \A t \in r1 : t.id # e.timer[p]
  BY DEF Stop
<1>3. IsFiniteSet(r1)
  BY <1>2, FS_Subset
<1>4. id \in Nat \ {0}
  BY <1>3, FreshIdUnused
<1>5. /\ e1 \in Context /\ SameBut(e1, e) /\ e1.procs = e.procs
      /\ \A q \in Procs : q # p => e1.timer[q] = e.timer[q]
  BY Forgotten
<1> HIDE DEF r1, e1, id
<1>6. /\ emm' \in Context /\ SameBut(emm', e1) /\ emm'.procs = e1.procs
      /\ emm'.timer[p] = id /\ \A q \in Procs : q # p => emm'.timer[q] = e1.timer[q]
  BY <1>1, <1>4, <1>5 DEF Context, SameBut
<1>7. [id |-> id, proc |-> p, ue |-> e.ue] \in Timers
  BY <1>4 DEF Timers
<1>8. IsFiniteSet(running')
  <2>1. \A x : IsFiniteSet(r1 \cup {x})
    BY <1>3, FS_AddElement
  <2> QED
    BY <1>1, <2>1
<1>9. \A t \in running' : \/ t \in r /\ t.id # e.timer[p]
                          \/ t.ue = e.ue /\ t.proc = p /\ t.id = emm'.timer[p]
  BY <1>1, <1>2, <1>6
<1>10. SameBut(emm', e)
  BY <1>5, <1>6 DEF SameBut
<1>11. running' \in SUBSET Timers
  BY <1>1, <1>2, <1>7
<1> QED
  BY <1>5, <1>6, <1>8, <1>9, <1>10, <1>11

\* Taking a message from a queue, and putting one into it.
LEMMA TailOf ==
  ASSUME NEW S, NEW s \in Seq(S), s # <<>>
  PROVE  /\ Tail(s) \in Seq(S) /\ Head(s) \in S /\ Head(s) = s[1] /\ 1 \in Indices(s)
         /\ \A i \in Indices(Tail(s)) : i + 1 \in Indices(s) /\ i + 1 # 1 /\ Tail(s)[i] = s[i + 1]
  BY DEF Indices

LEMMA AppendOf ==
  ASSUME NEW S, NEW s \in Seq(S), NEW e \in S
  PROVE  /\ Append(s, e) \in Seq(S)
         /\ \A i \in Indices(Append(s, e)) :
           \/ i \in Indices(s) /\ Append(s, e)[i] = s[i]
           \/ i = Len(s) + 1 /\ Append(s, e)[i] = e
  BY DEF Indices
-----------------------------------------------------------------------------
(* What the handlers do *)

LEMMA ContextTyped ==
  ASSUME Base
  PROVE  /\ emm \in Context /\ ue.id \in 0 .. MaxAttach /\ ue \in [id : 0 .. MaxAttach, synched : BOOLEAN, key : BOOLEAN]
         /\ HasContext => emm.ue = ue.id /\ emm.ue \in UeIds
         /\ ~HasContext <=> emm = NoContext
         /\ emm = NoContext => running = {}
         /\ running \in SUBSET Timers /\ IsFiniteSet(running)
         /\ esm \subseteq UeIds /\ MaxAttach \in Nat
<1>1. emm \in Context /\ ue \in [id : 0 .. MaxAttach, synched : BOOLEAN, key : BOOLEAN] /\ esm \subseteq UeIds
  BY DEF Base, TypeOK
<1>2. emm = NoContext => emm.ue = 0 /\ emm.procs = {}
  BY NoContextTyped
<1>3. emm = NoContext \/ (emm.ue = ue.id /\ emm.ue # 0)
  BY DEF Base, ContextOK
<1>4. running \in SUBSET Timers /\ IsFiniteSet(running)
  BY DEF Base, QueuesOK
<1>5. emm = NoContext => running = {}
  BY <1>2 DEF Base, TimersOwned
<1>6. ue.id \in 0 .. MaxAttach /\ MaxAttach \in Nat
  BY <1>1, CountersAssumption
<1> QED
  BY <1>1, <1>2, <1>3, <1>4, <1>5, <1>6 DEF HasContext, UeIds

\* Timers that run after a step are owned, and are old or of these procedures.
RunningTo(ps) ==
  /\ running' \in SUBSET Timers /\ IsFiniteSet(running') /\ TimersOwned'
  /\ \A t \in running' : t \in running \/ t.proc \in ps

LEMMA RestartOwned ==
  ASSUME Base, NEW e \in Context, NEW r \in SUBSET running, NEW p \in Procs,
         e.ue \in UeIds, p \in e.procs, Restart(e, r, p),
         \A t \in r : t.id # e.timer[p] =>
            t.ue = e.ue /\ t.proc \in e.procs /\ e.timer[t.proc] = t.id
  PROVE  RunningTo({p}) /\ emm' \in Context /\ SameBut(emm', e) /\ emm'.procs = e.procs
<1>1. r \in SUBSET Timers /\ IsFiniteSet(r)
  BY ContextTyped, FS_Subset
<1>2. /\ emm' \in Context /\ SameBut(emm', e) /\ emm'.procs = e.procs
      /\ running' \in SUBSET Timers /\ IsFiniteSet(running')
      /\ \A q \in Procs : q # p => emm'.timer[q] = e.timer[q]
      /\ \A t \in running' : \/ t \in r /\ t.id # e.timer[p]
                             \/ t.ue = e.ue /\ t.proc = p /\ t.id = emm'.timer[p]
  BY <1>1, Restarted
<1>3. TimersOwned'
  <2> SUFFICES ASSUME NEW t \in running'
               PROVE  t.ue = emm'.ue /\ t.proc \in emm'.procs /\ emm'.timer[t.proc] = t.id
    BY DEF TimersOwned
  <2>1. CASE t \in r /\ t.id # e.timer[p]
    <3>1. t.ue = e.ue /\ t.proc \in e.procs /\ e.timer[t.proc] = t.id
      BY <2>1
    <3>2. t.proc \in Procs /\ t.proc # p
      BY <2>1, <3>1 DEF Context
    <3> QED
      BY <1>2, <3>1, <3>2 DEF SameBut
  <2>2. CASE t.ue = e.ue /\ t.proc = p /\ t.id = emm'.timer[p]
    BY <1>2, <2>2 DEF SameBut
  <2> QED
    BY <1>2, <2>1, <2>2
<1>4. \A t \in running' : t \in running \/ t.proc \in {p}
  BY <1>2
<1> QED
  BY <1>2, <1>3, <1>4 DEF RunningTo

\* The first message is taken.
Taken == mailbox # <<>> /\ mailbox' = Tail(mailbox)

LEMMA TakenTail ==
  ASSUME Base, Taken
  PROVE  /\ mailbox' \in Seq(Messages) /\ Head(mailbox) \in Messages
         /\ Head(mailbox) = mailbox[1] /\ 1 \in Indices(mailbox)
         /\ \A i \in Indices(mailbox') :
              i + 1 \in Indices(mailbox) /\ i + 1 # 1 /\ mailbox'[i] = mailbox[i + 1]
  BY TailOf DEF Base, QueuesOK, Taken

LEMMA HandlesContext ==
  ASSUME Base, NEW type, NEW p, Handles(type, p)
  PROVE  /\ Taken /\ Head(mailbox).type = type /\ Head(mailbox).ue = emm.ue
         /\ p \in emm.procs /\ HasContext
<1>1. emm # NoContext
  BY NoContextTyped DEF Handles
<1> QED
  BY <1>1, ContextTyped DEF Handles, Message, Taken

\* A handler that ends the attach leaves no context and no timer.
Ended == /\ Taken /\ emm' = NoContext /\ running' = {}
         /\ UNCHANGED <<air, s6a, esm, ue>>

LEMMA EndsAll ==
  ASSUME Base, Taken, Ends
  PROVE  Ended
<1>1. running' = {t \in running : \A p \in emm.procs : t.id # emm.timer[p]}
  BY DEF Ends, ClearContext, StopAll
<1>2. \A t \in running : t.proc \in emm.procs /\ t.id = emm.timer[t.proc]
  BY SMTT(60) DEF Base, TimersOwned
<1> QED
  BY <1>1, <1>2 DEF Ended, Ends, ClearContext

AttachRequestDone ==
  /\ emm = NoContext /\ ue.id # 0
  /\ Taken /\ Head(mailbox).type = "attach" /\ Head(mailbox).ue = ue.id
  /\ emm' \in Context /\ emm'.ue = ue.id /\ emm'.fsm = "deregistered" /\ emm'.synch = 0
  /\ emm'.procs = {"attach", "auth", "info"}
  /\ emm'.count = [p \in Procs |-> 0] /\ emm'.prev = [p \in Commons |-> "deregistered"]
  /\ RunningTo({"info"})
  /\ s6a' = Append(s6a, "initial") /\ UNCHANGED <<air, esm, ue>>

LEMMA AttachRequestEffect ==
  ASSUME Base, AttachRequest
  PROVE  AttachRequestDone
<1> PICK u : u = Head(mailbox).ue
  OBVIOUS
<1> PICK e : e = [NewContext(u) EXCEPT !.procs = @ \cup {"info"}]
  OBVIOUS
<1>1. Taken /\ Head(mailbox).type = "attach" /\ emm = NoContext
  BY DEF AttachRequest, Message, Taken
<1>2. u = ue.id /\ ue.id # 0 /\ u \in UeIds /\ u \in 0 .. MaxAttach
  BY SMTT(60), <1>1, TakenTail, ContextTyped DEF Base, AttachFirst, UeIds
<1>3. /\ e \in Context /\ e.ue = u /\ e.fsm = "deregistered" /\ e.synch = 0
      /\ e.procs = {"attach", "auth", "info"}
      /\ e.count = [p \in Procs |-> 0] /\ e.prev = [p \in Commons |-> "deregistered"]
  <2> PICK c : c = NewContext(u)
    OBVIOUS
  <2>1. e = [c EXCEPT !.procs = @ \cup {"info"}]
    OBVIOUS
  <2>2. /\ c \in Context /\ c.ue = u /\ c.fsm = "deregistered" /\ c.synch = 0
        /\ c.procs = {"attach", "auth"} /\ "info" \in Procs
        /\ c.count = [p \in Procs |-> 0] /\ c.prev = [p \in Commons |-> "deregistered"]
    BY <1>2, NewContextTyped DEF Procs
  <2> QED
    BY <2>1, <2>2 DEF Context
<1>4. Restart(e, running, "info") /\ s6a' = Append(s6a, "initial") /\ UNCHANGED <<air, esm, ue>>
  BY DEF AttachRequest, RequestVectors
<1>5. running = {} /\ running \in SUBSET running /\ "info" \in Procs
  BY <1>1, ContextTyped DEF Procs
<1>6. RunningTo({"info"}) /\ emm' \in Context /\ SameBut(emm', e) /\ emm'.procs = e.procs
  BY ZenonT(60), <1>2, <1>3, <1>4, <1>5, RestartOwned
<1> QED
  BY <1>1, <1>2, <1>3, <1>4, <1>6 DEF AttachRequestDone, SameBut

\* A message to the UE of the context.
Sent(type, good) == air' = Append(air, [type |-> type, ue |-> emm.ue, good |-> good])

\* The fields of the context, for the steps that keep it.
Becomes(fsm, procs, count, prev, synch, good) ==
  /\ emm' \in Context /\ emm'.ue = emm.ue /\ emm'.fsm = fsm /\ emm'.procs = procs
  /\ emm'.count = count /\ emm'.prev = prev /\ emm'.synch = synch /\ emm'.good = good

\* The timer of q is stopped and that of p started; the other procedures of the
\* context keep theirs.
LEMMA RestartAfterStop ==
  ASSUME Base, HasContext, NEW e \in Context, e.ue = emm.ue, NEW p \in Procs, NEW q \in Procs,
         p \in e.procs, emm.procs \ {q} \subseteq e.procs,
         \A o \in Procs : o # q => e.timer[o] = emm.timer[o],
         Restart(e, Stop(running, emm, q), p)
  PROVE  RunningTo({p}) /\ emm' \in Context /\ SameBut(emm', e) /\ emm'.procs = e.procs
<1> PICK r : r = Stop(running, emm, q)
  OBVIOUS
<1>1. r \in SUBSET running /\ \A t \in r : t.id # emm.timer[q]
  BY DEF Stop
<1>2. \A t \in running : t.ue = emm.ue /\ t.proc \in emm.procs /\ emm.timer[t.proc] = t.id
  BY DEF Base, TimersOwned
<1>3. emm.procs \subseteq Procs /\ emm.ue \in UeIds
  BY ContextTyped DEF Context
<1>4. \A t \in r : t.id # e.timer[p] => t.ue = e.ue /\ t.proc \in e.procs /\ e.timer[t.proc] = t.id
  BY <1>1, <1>2, <1>3
<1>5. Restart(e, r, p) /\ e.ue \in UeIds
  BY <1>3
<1> QED
  BY <1>1, <1>4, <1>5, RestartOwned

\* The timer of p is started again; the procedures keep theirs.
LEMMA RestartOnly ==
  ASSUME Base, HasContext, NEW e \in Context, e.ue = emm.ue, NEW p \in Procs,
         p \in e.procs, e.procs = emm.procs, e.timer = emm.timer, Restart(e, running, p)
  PROVE  RunningTo({p}) /\ emm' \in Context /\ SameBut(emm', e) /\ emm'.procs = e.procs
<1>1. \A t \in running : t.ue = emm.ue /\ t.proc \in emm.procs /\ emm.timer[t.proc] = t.id
  BY DEF Base, TimersOwned
<1>2. e.ue \in UeIds /\ running \in SUBSET running
  BY ContextTyped
<1>3. \A t \in running : t.id # e.timer[p] => t.ue = e.ue /\ t.proc \in e.procs /\ e.timer[t.proc] = t.id
  BY <1>1
<1> QED
  BY <1>2, <1>3, RestartOwned

AuthInfoAnswerDone ==
  /\ Taken /\ HasContext /\ "info" \in emm.procs /\ "auth" \in emm.procs
  /\ Head(mailbox).good \in BOOLEAN
  /\ Becomes("common", emm.procs \ {"info"}, [emm.count EXCEPT !["auth"] = 0],
             [emm.prev EXCEPT !["auth"] = PreviousOfChallenge(emm)],
             emm.synch, Head(mailbox).good)
  /\ RunningTo({"auth"}) /\ Sent("challenge", Head(mailbox).good)
  /\ UNCHANGED <<s6a, esm, ue>>

LEMMA AuthInfoAnswerEffect ==
  ASSUME Base, AuthInfoAnswer
  PROVE  AuthInfoAnswerDone
<1> PICK good : good = Head(mailbox).good
  OBVIOUS
<1> PICK d : d = Delete(emm, {"info"})
  OBVIOUS
<1> PICK e : e = [d EXCEPT !.good = good, !.fsm = "common", !.count["auth"] = 0,
                           !.prev["auth"] = PreviousOfChallenge(emm)]
  OBVIOUS
<1>1. /\ Taken /\ "info" \in emm.procs /\ "auth" \in emm.procs
      /\ Restart(e, Stop(running, emm, "info"), "auth")
      /\ Sent("challenge", good) /\ UNCHANGED <<s6a, esm, ue>>
  BY DEF AuthInfoAnswer, Message, Taken, Sent, ToUe
<1>2. emm \in Context /\ HasContext /\ good \in BOOLEAN
  <2>1. emm # NoContext
    BY <1>1, NoContextTyped
  <2>2. Head(mailbox) \in Messages
    BY <1>1, TakenTail
  <2> QED
    BY <2>1, <2>2, ContextTyped DEF Messages
<1>3. PreviousOfChallenge(emm) \in States
  BY <1>2 DEF PreviousOfChallenge, Context, Commons
<1>4. /\ d \in Context /\ SameBut(d, emm) /\ d.procs = emm.procs \ {"info"}
      /\ \A o \in Procs : o # "info" => d.timer[o] = emm.timer[o]
  <2>1. {"info"} \in SUBSET Procs
    BY DEF Procs
  <2> QED
    BY <1>2, <2>1, Deleted
<1>5. /\ e \in Context /\ e.ue = emm.ue /\ e.fsm = "common" /\ e.procs = emm.procs \ {"info"}
      /\ e.count = [emm.count EXCEPT !["auth"] = 0]
      /\ e.prev = [emm.prev EXCEPT !["auth"] = PreviousOfChallenge(emm)]
      /\ e.synch = emm.synch /\ e.good = good /\ e.timer = d.timer
  BY ZenonT(60), <1>2, <1>3, <1>4 DEF Context, SameBut, States
<1>6. RunningTo({"auth"}) /\ emm' \in Context /\ SameBut(emm', e) /\ emm'.procs = e.procs
  <2>1. "auth" \in Procs /\ "info" \in Procs /\ "auth" \in e.procs
    BY <1>1, <1>5 DEF Procs
  <2>2. \A o \in Procs : o # "info" => e.timer[o] = emm.timer[o]
    BY <1>4, <1>5
  <2>3. emm.procs \ {"info"} \subseteq e.procs
    BY <1>5
  <2>4. Restart(e, Stop(running, emm, "info"), "auth") /\ HasContext /\ e \in Context /\ e.ue = emm.ue
    BY <1>1, <1>2, <1>5
  <2> QED
    BY ZenonT(60), <2>1, <2>2, <2>3, <2>4, RestartAfterStop
<1>7. Becomes("common", emm.procs \ {"info"}, [emm.count EXCEPT !["auth"] = 0],
              [emm.prev EXCEPT !["auth"] = PreviousOfChallenge(emm)], emm.synch, good)
  BY <1>5, <1>6 DEF Becomes, SameBut
<1> QED
  BY <1>1, <1>2, <1>6, <1>7 DEF AuthInfoAnswerDone

AuthenticationCompleteDone ==
  /\ Taken /\ HasContext /\ Head(mailbox).type = "response" /\ Head(mailbox).ue = emm.ue
  /\ "auth" \in emm.procs /\ emm.fsm = "common"
  /\ Becomes("common", (emm.procs \ {"auth"}) \cup {"smc"}, [emm.count EXCEPT !["smc"] = 0],
             [emm.prev EXCEPT !["smc"] = emm.prev["auth"]], emm.synch, emm.good)
  /\ RunningTo({"smc"}) /\ Sent("smc", TRUE)
  /\ UNCHANGED <<s6a, esm, ue>>

LEMMA AuthenticationCompleteEffect ==
  ASSUME Base, AuthenticationComplete
  PROVE  AuthenticationCompleteDone
<1> PICK d : d = Delete(emm, {"auth"})
  OBVIOUS
<1> PICK e : e = [d EXCEPT !.procs = @ \cup {"smc"}, !.count["smc"] = 0,
                           !.prev["smc"] = emm.prev["auth"], !.fsm = "common"]
  OBVIOUS
<1>1. /\ Handles("response", "auth") /\ emm.fsm = "common"
      /\ Restart(e, Stop(running, emm, "auth"), "smc")
      /\ Sent("smc", TRUE) /\ UNCHANGED <<s6a, esm, ue>>
  BY DEF AuthenticationComplete, Sent, ToUe
<1>2. /\ Taken /\ HasContext /\ Head(mailbox).type = "response" /\ Head(mailbox).ue = emm.ue
      /\ "auth" \in emm.procs
  BY <1>1, HandlesContext
<1>3. emm \in Context
  BY ContextTyped
<1>4. /\ d \in Context /\ SameBut(d, emm) /\ d.procs = emm.procs \ {"auth"}
      /\ \A o \in Procs : o # "auth" => d.timer[o] = emm.timer[o]
  <2>1. {"auth"} \in SUBSET Procs
    BY DEF Procs
  <2> QED
    BY <1>3, <2>1, Deleted
<1>5. /\ e \in Context /\ e.ue = emm.ue /\ e.fsm = "common"
      /\ e.procs = (emm.procs \ {"auth"}) \cup {"smc"}
      /\ e.count = [emm.count EXCEPT !["smc"] = 0]
      /\ e.prev = [emm.prev EXCEPT !["smc"] = emm.prev["auth"]]
      /\ e.synch = emm.synch /\ e.good = emm.good /\ e.timer = d.timer
  <2>1. /\ d.ue = emm.ue /\ d.count = emm.count /\ d.prev = emm.prev
        /\ d.synch = emm.synch /\ d.good = emm.good
    BY <1>4 DEF SameBut
  <2>2. "smc" \in Procs /\ "smc" \in Commons /\ "auth" \in Commons /\ "common" \in States
    BY DEF Procs, Commons, States
  <2>3. emm.prev["auth"] \in States
    BY <1>3, <2>2 DEF Context
  <2>4. d \in Context /\ DOMAIN d.count = Procs /\ DOMAIN d.prev = Commons
    BY <1>4 DEF Context
  <2>5. /\ e \in Context /\ e.ue = d.ue /\ e.fsm = "common" /\ e.procs = d.procs \cup {"smc"}
        /\ e.synch = d.synch /\ e.good = d.good /\ e.timer = d.timer
    BY ZenonT(60), <2>2, <2>3, <2>4 DEF Context
  <2>6. /\ e.count = [d.count EXCEPT !["smc"] = 0]
        /\ e.prev = [d.prev EXCEPT !["smc"] = emm.prev["auth"]]
    BY <2>4 DEF Context
  <2> QED
    BY <1>4, <2>1, <2>5, <2>6
<1>6. RunningTo({"smc"}) /\ emm' \in Context /\ SameBut(emm', e) /\ emm'.procs = e.procs
  <2>1. "auth" \in Procs /\ "smc" \in Procs /\ "smc" \in e.procs
    BY <1>5 DEF Procs
  <2>2. \A o \in Procs : o # "auth" => e.timer[o] = emm.timer[o]
    BY <1>4, <1>5
  <2>3. emm.procs \ {"auth"} \subseteq e.procs
    BY <1>5
  <2>4. Restart(e, Stop(running, emm, "auth"), "smc") /\ HasContext /\ e \in Context /\ e.ue = emm.ue
    BY <1>1, <1>2, <1>5
  <2> QED
    BY ZenonT(60), <2>1, <2>2, <2>3, <2>4, RestartAfterStop
<1> QED
  BY ZenonT(60), <1>1, <1>2, <1>5, <1>6 DEF AuthenticationCompleteDone, Becomes, SameBut

ResynchroniseDone ==
  /\ Taken /\ HasContext /\ Head(mailbox).type = "synch" /\ Head(mailbox).ue = emm.ue
  /\ "auth" \in emm.procs /\ "info" \notin emm.procs
  /\ emm.synch + 1 < EMM_AUTHENTICATION_SYNC_FAILURE_MAX
  /\ Becomes(emm.fsm, emm.procs \cup {"info"}, emm.count, emm.prev, emm.synch + 1, emm.good)
  /\ RunningTo({"info"}) /\ s6a' = Append(s6a, "resync")
  /\ UNCHANGED <<air, esm, ue>>

LEMMA ResynchroniseEffect ==
  ASSUME Base, Resynchronise
  PROVE  ResynchroniseDone
<1> PICK d : d = Forget(emm, {"auth"})
  OBVIOUS
<1> PICK c : c = [d EXCEPT !.synch = @ + 1]
  OBVIOUS
<1> PICK e : e = [c EXCEPT !.procs = @ \cup {"info"}]
  OBVIOUS
<1>1. /\ Handles("synch", "auth") /\ "info" \notin emm.procs
      /\ emm.synch + 1 < EMM_AUTHENTICATION_SYNC_FAILURE_MAX
      /\ Restart(e, Stop(running, emm, "auth"), "info")
      /\ s6a' = Append(s6a, "resync") /\ UNCHANGED <<air, esm, ue>>
  BY DEF Resynchronise, RequestVectors
<1>2. /\ Taken /\ HasContext /\ Head(mailbox).type = "synch" /\ Head(mailbox).ue = emm.ue
      /\ "auth" \in emm.procs
  BY <1>1, HandlesContext
<1>3. emm \in Context
  BY ContextTyped
<1>4. /\ d \in Context /\ SameBut(d, emm) /\ d.procs = emm.procs
      /\ \A o \in Procs : o # "auth" => d.timer[o] = emm.timer[o]
  <2>1. {"auth"} \in SUBSET Procs
    BY DEF Procs
  <2> QED
    BY <1>3, <2>1, Forgotten
<1>5. /\ e \in Context /\ e.ue = emm.ue /\ e.fsm = emm.fsm
      /\ e.procs = emm.procs \cup {"info"} /\ e.count = emm.count /\ e.prev = emm.prev
      /\ e.synch = emm.synch + 1 /\ e.good = emm.good /\ e.timer = d.timer
  <2>1. /\ c \in Context /\ c.ue = d.ue /\ c.fsm = d.fsm /\ c.procs = d.procs
        /\ c.count = d.count /\ c.prev = d.prev
        /\ c.synch = d.synch + 1 /\ c.good = d.good /\ c.timer = d.timer
    BY <1>4 DEF Context
  <2>2. "info" \in Procs
    BY DEF Procs
  <2>3. /\ e \in Context /\ e.ue = c.ue /\ e.fsm = c.fsm /\ e.procs = c.procs \cup {"info"}
        /\ e.count = c.count /\ e.prev = c.prev /\ e.synch = c.synch /\ e.good = c.good
        /\ e.timer = c.timer
    BY ZenonT(60), <2>1, <2>2 DEF Context
  <2>4. /\ d.ue = emm.ue /\ d.fsm = emm.fsm /\ d.procs = emm.procs /\ d.count = emm.count
        /\ d.prev = emm.prev /\ d.synch = emm.synch /\ d.good = emm.good
    BY <1>4 DEF SameBut
  <2> QED
    BY <2>1, <2>3, <2>4
<1>6. RunningTo({"info"}) /\ emm' \in Context /\ SameBut(emm', e) /\ emm'.procs = e.procs
  <2>1. "auth" \in Procs /\ "info" \in Procs /\ "info" \in e.procs
    BY <1>5 DEF Procs
  <2>2. \A o \in Procs : o # "auth" => e.timer[o] = emm.timer[o]
    BY <1>4, <1>5
  <2>3. emm.procs \ {"auth"} \subseteq e.procs
    BY <1>5
  <2>4. Restart(e, Stop(running, emm, "auth"), "info") /\ HasContext /\ e \in Context /\ e.ue = emm.ue
    BY <1>1, <1>2, <1>5
  <2> QED
    BY ZenonT(60), <2>1, <2>2, <2>3, <2>4, RestartAfterStop
<1> QED
  BY <1>1, <1>2, <1>5, <1>6 DEF ResynchroniseDone, Becomes, SameBut

RepeatDone(p) ==
  /\ Taken /\ HasContext /\ Head(mailbox).type = TimeOutOf[p] /\ Head(mailbox).ue = emm.ue
  /\ p \in emm.procs /\ emm.count[p] + 1 < CounterMax[p]
  /\ Becomes(emm.fsm, emm.procs, [emm.count EXCEPT ![p] = @ + 1], emm.prev, emm.synch, emm.good)
  /\ RunningTo({p}) /\ UNCHANGED <<s6a, esm, ue>>
  /\ \/ p = "auth" /\ Sent("challenge", emm.good)
     \/ p = "smc" /\ Sent("smc", TRUE)
     \/ p = "attach" /\ Sent("accept", TRUE)

LEMMA RepeatEffect ==
  ASSUME Base, NEW p \in {"attach", "auth", "smc"}, NEW type, NEW good,
         Handles(TimeOutOf[p], p), ~LastExpiry(p), Repeat(p, type, good),
         \/ p = "auth" /\ type = "challenge" /\ good = emm.good
         \/ p = "smc" /\ type = "smc" /\ good = TRUE
         \/ p = "attach" /\ type = "accept" /\ good = TRUE
  PROVE  RepeatDone(p)
<1> PICK e : e = [emm EXCEPT !.count[p] = @ + 1]
  OBVIOUS
<1>1. /\ Restart(e, running, p) /\ Sent(type, good) /\ UNCHANGED <<s6a, esm, ue>>
  BY DEF Repeat, Sent, ToUe
<1>2. /\ Taken /\ HasContext /\ Head(mailbox).type = TimeOutOf[p] /\ Head(mailbox).ue = emm.ue
      /\ p \in emm.procs
  BY HandlesContext
<1>3. emm \in Context /\ p \in Procs
  BY ContextTyped DEF Procs
<1>4. /\ e \in Context /\ e.ue = emm.ue /\ e.fsm = emm.fsm
      /\ e.procs = emm.procs /\ e.count = [emm.count EXCEPT ![p] = @ + 1] /\ e.prev = emm.prev
      /\ e.synch = emm.synch /\ e.good = emm.good /\ e.timer = emm.timer
  BY SMTT(60), <1>3 DEF Context
<1>5. RunningTo({p}) /\ emm' \in Context /\ SameBut(emm', e) /\ emm'.procs = e.procs
  BY <1>1, <1>2, <1>3, <1>4, RestartOnly
<1>6. CounterMax[p] \in Nat /\ emm.count[p] \in Nat
  BY <1>3, CountersAssumption DEF CounterMax, Context
<1>7. emm.count[p] + 1 < CounterMax[p]
  BY <1>6 DEF LastExpiry
<1>8. Becomes(emm.fsm, emm.procs, [emm.count EXCEPT ![p] = @ + 1], emm.prev, emm.synch, emm.good)
  BY <1>4, <1>5 DEF Becomes, SameBut
<1> QED
  BY <1>1, <1>2, <1>5, <1>7, <1>8 DEF RepeatDone
SecurityModeCompleteDone ==
  /\ Taken /\ HasContext /\ Head(mailbox).type = "smcComplete" /\ Head(mailbox).ue = emm.ue
  /\ "smc" \in emm.procs
  /\ Becomes(emm.prev["smc"], emm.procs \ {"smc"}, emm.count, emm.prev, emm.synch, emm.good)
  /\ RunningTo({}) /\ esm' = esm \cup {emm.ue}
  /\ UNCHANGED <<air, s6a, ue>>

AttachCompleteDone ==
  /\ Taken /\ HasContext /\ Head(mailbox).type = "complete" /\ Head(mailbox).ue = emm.ue
  /\ emm.fsm \in {"common", "registered"}
  /\ Becomes("registered", emm.procs \ {"attach"}, emm.count, emm.prev, emm.synch, emm.good)
  /\ RunningTo({}) /\ UNCHANGED <<air, s6a, esm, ue>>

\* A procedure ends: its timer is stopped with it.
LEMMA ProcedureEnds ==
  ASSUME Base, HasContext, NEW q \in Procs, NEW fsm \in States,
         emm' = [Delete(emm, {q}) EXCEPT !.fsm = fsm], running' = Stop(running, emm, q)
  PROVE  /\ Becomes(fsm, emm.procs \ {q}, emm.count, emm.prev, emm.synch, emm.good)
         /\ RunningTo({})
<1> PICK d : d = Delete(emm, {q})
  OBVIOUS
<1>1. emm \in Context /\ {q} \in SUBSET Procs
  BY ContextTyped
<1>2. /\ d \in Context /\ SameBut(d, emm) /\ d.procs = emm.procs \ {q}
      /\ \A o \in Procs : o # q => d.timer[o] = emm.timer[o]
  BY <1>1, Deleted
<1>3. /\ Becomes(fsm, emm.procs \ {q}, emm.count, emm.prev, emm.synch, emm.good)
      /\ emm'.timer = d.timer
  BY <1>2 DEF Becomes, Context, SameBut
<1>4. running' \in SUBSET Timers /\ IsFiniteSet(running')
  <2>1. running' \subseteq running
    BY DEF Stop
  <2> QED
    BY <2>1, ContextTyped, FS_Subset
<1>5. \A t \in running' : t.ue = emm'.ue /\ t.proc \in emm'.procs /\ emm'.timer[t.proc] = t.id
  <2>1. \A t \in running : t.ue = emm.ue /\ t.proc \in emm.procs /\ emm.timer[t.proc] = t.id
    BY DEF Base, TimersOwned
  <2>2. \A t \in running' : t \in running /\ t.id # emm.timer[q]
    BY DEF Stop
  <2>3. emm.procs \subseteq Procs
    BY <1>1 DEF Context
  <2>4. emm'.ue = emm.ue /\ emm'.procs = emm.procs \ {q}
    BY <1>3 DEF Becomes
  <2> SUFFICES ASSUME NEW t \in running'
               PROVE  t.ue = emm'.ue /\ t.proc \in emm'.procs /\ emm'.timer[t.proc] = t.id
    OBVIOUS
  <2>5. t.ue = emm.ue /\ t.proc \in emm.procs /\ t.proc \in Procs /\ t.proc # q
        /\ emm.timer[t.proc] = t.id
    BY <2>1, <2>2, <2>3
  <2> QED
    BY <1>2, <1>3, <2>4, <2>5
<1>6. \A t \in running' : t \in running
  BY DEF Stop
<1> QED
  BY <1>3, <1>4, <1>5, <1>6 DEF RunningTo, TimersOwned

LEMMA SecurityModeCompleteEffect ==
  ASSUME Base, SecurityModeComplete
  PROVE  SecurityModeCompleteDone
<1>1. Handles("smcComplete", "smc") /\ esm' = esm \cup {emm.ue} /\ UNCHANGED <<air, s6a, ue>>
  BY DEF SecurityModeComplete
<1>2. emm' = [Delete(emm, {"smc"}) EXCEPT !.fsm = emm.prev["smc"]] /\ running' = Stop(running, emm, "smc")
  BY DEF SecurityModeComplete, SmcTimerStopped
<1>3. /\ Taken /\ HasContext /\ Head(mailbox).type = "smcComplete" /\ Head(mailbox).ue = emm.ue
      /\ "smc" \in emm.procs
  BY <1>1, HandlesContext
<1>4. "smc" \in Procs /\ emm.prev["smc"] \in States
  BY ContextTyped DEF Context, Procs, Commons
<1> QED
  BY <1>1, <1>2, <1>3, <1>4, ProcedureEnds DEF SecurityModeCompleteDone

LEMMA AttachCompleteEffect ==
  ASSUME Base, AttachComplete
  PROVE  AttachCompleteDone \/ Ended
<1>1. Taken /\ Head(mailbox).type = "complete" /\ Head(mailbox).ue = emm.ue /\ UNCHANGED <<air, s6a, esm, ue>>
  BY DEF AttachComplete, Message, Taken
<1>2. CASE emm.fsm \in {"common", "registered"}
  <2>1. emm' = [Delete(emm, {"attach"}) EXCEPT !.fsm = "registered"] /\ running' = Stop(running, emm, "attach")
    BY <1>2 DEF AttachComplete
  <2>2. HasContext
    BY <1>2, ContextTyped, NoContextTyped
  <2>3. "attach" \in Procs /\ "registered" \in States
    BY DEF Procs, States
  <2> QED
    BY <1>1, <1>2, <2>1, <2>2, <2>3, ProcedureEnds DEF AttachCompleteDone
<1>3. CASE emm.fsm \notin {"common", "registered"}
  <2>1. Ends
    BY <1>1, <1>3 DEF AttachComplete, Ends
  <2> QED
    BY <1>1, <2>1, EndsAll
<1> QED
  BY <1>2, <1>3

AttachAcceptDone ==
  /\ Taken /\ HasContext /\ Head(mailbox).type = "esmAccept" /\ Head(mailbox).ue = emm.ue
  /\ "attach" \in emm.procs
  /\ Becomes("common", emm.procs, [emm.count EXCEPT !["attach"] = @ + 1], emm.prev, emm.synch, emm.good)
  /\ RunningTo({"attach"}) /\ Sent("accept", TRUE)
  /\ UNCHANGED <<s6a, esm, ue>>

LEMMA AttachAcceptEffect ==
  ASSUME Base, AttachAccept
  PROVE  AttachAcceptDone
<1> PICK e : e = [emm EXCEPT !.count["attach"] = @ + 1, !.fsm = "common"]
  OBVIOUS
<1>1. /\ Handles("esmAccept", "attach") /\ Restart(e, running, "attach")
      /\ Sent("accept", TRUE) /\ UNCHANGED <<s6a, esm, ue>>
  BY DEF AttachAccept, Sent, ToUe
<1>2. /\ Taken /\ HasContext /\ Head(mailbox).type = "esmAccept" /\ Head(mailbox).ue = emm.ue
      /\ "attach" \in emm.procs
  BY <1>1, HandlesContext
<1>3. emm \in Context /\ "attach" \in Procs
  BY ContextTyped DEF Procs
<1>4. /\ e \in Context /\ e.ue = emm.ue /\ e.fsm = "common"
      /\ e.procs = emm.procs /\ e.count = [emm.count EXCEPT !["attach"] = @ + 1] /\ e.prev = emm.prev
      /\ e.synch = emm.synch /\ e.good = emm.good /\ e.timer = emm.timer
  <2>1. e.count = [emm.count EXCEPT !["attach"] = @ + 1]
    BY <1>3 DEF Context
  <2>2. e.count \in [Procs -> Nat]
    <3>1. emm.count \in [Procs -> Nat]
      BY <1>3 DEF Context
    <3> QED
      BY <1>3, <2>1, <3>1
  <2>3. e = [emm EXCEPT !.count = e.count, !.fsm = "common"]
    BY <1>3, <2>1 DEF Context
  <2> QED
    BY <1>3, <2>1, <2>2, <2>3 DEF Context, States
<1>5. RunningTo({"attach"}) /\ emm' \in Context /\ SameBut(emm', e) /\ emm'.procs = e.procs
  BY <1>1, <1>2, <1>3, <1>4, RestartOnly
<1> QED
  BY <1>1, <1>2, <1>4, <1>5 DEF AttachAcceptDone, Becomes, SameBut

Discarded == Taken /\ UNCHANGED <<emm, running, air, s6a, esm, ue>>

\* What a handler of the task does.
TaskStep ==
  \/ AttachRequestDone \/ AuthInfoAnswerDone \/ AuthenticationCompleteDone \/ ResynchroniseDone
  \/ \E p \in {"attach", "auth", "smc"} : RepeatDone(p)
  \/ SecurityModeCompleteDone \/ AttachAcceptDone \/ AttachCompleteDone
  \/ Ended \/ Discarded

LEMMA TaskSteps ==
  ASSUME Base, EmmTask
  PROVE  TaskStep
<1> USE DEF TaskStep
<1>1. CASE AttachRequest
  BY <1>1, AttachRequestEffect
<1>2. CASE AuthInfoAnswer
  BY <1>2, AuthInfoAnswerEffect
<1>3. CASE AuthInfoFailure
  <2>1. Taken /\ Ends
    BY <1>3 DEF AuthInfoFailure, Message, Handles, Taken
  <2> QED
    BY <2>1, EndsAll
<1>4. CASE AuthenticationComplete
  BY <1>4, AuthenticationCompleteEffect
<1>5. CASE Resynchronise
  BY <1>5, ResynchroniseEffect
<1>6. CASE AuthenticationFailure
  <2>1. Taken /\ Ends
    BY <1>6 DEF AuthenticationFailure, Message, Handles, Taken
  <2> QED
    BY <2>1, EndsAll
<1>7. CASE T3460Authentication
  <2>1. Handles("t_auth", "auth") /\ Handles(TimeOutOf["auth"], "auth")
    BY <1>7 DEF T3460Authentication, TimeOutOf
  <2>2. CASE LastExpiry("auth")
    BY <1>7, <2>1, <2>2, HandlesContext, EndsAll DEF T3460Authentication
  <2>3. CASE ~LastExpiry("auth")
    <3>1. Repeat("auth", "challenge", emm.good)
      BY <1>7, <2>3 DEF T3460Authentication
    <3>2. RepeatDone("auth")
      BY <2>1, <2>3, <3>1, RepeatEffect
    <3> QED
      BY <3>2
  <2> QED
    BY <2>2, <2>3
<1>8. CASE T3460Security
  <2>1. Handles("t_smc", "smc") /\ Handles(TimeOutOf["smc"], "smc")
    BY <1>8 DEF T3460Security, TimeOutOf
  <2>2. CASE LastExpiry("smc")
    BY <1>8, <2>1, <2>2, HandlesContext, EndsAll DEF T3460Security
  <2>3. CASE ~LastExpiry("smc")
    <3>1. Repeat("smc", "smc", TRUE)
      BY Zenon, <1>8, <2>3 DEF T3460Security
    <3>2. RepeatDone("smc")
      BY <2>1, <2>3, <3>1, RepeatEffect
    <3> QED
      BY <3>2
  <2> QED
    BY <2>2, <2>3
<1>9. CASE T3450
  <2>1. Handles("t_attach", "attach") /\ Handles(TimeOutOf["attach"], "attach")
    BY <1>9 DEF T3450, TimeOutOf
  <2>2. CASE LastExpiry("attach")
    BY <1>9, <2>1, <2>2, HandlesContext, EndsAll DEF T3450
  <2>3. CASE ~LastExpiry("attach")
    <3>1. Repeat("attach", "accept", TRUE)
      BY Zenon, <1>9, <2>3 DEF T3450
    <3>2. RepeatDone("attach")
      BY <2>1, <2>3, <3>1, RepeatEffect
    <3> QED
      BY <3>2
  <2> QED
    BY <2>2, <2>3
<1>10. CASE SecurityModeComplete
  BY <1>10, SecurityModeCompleteEffect
<1>11. CASE SecurityModeReject
  BY <1>11, HandlesContext, EndsAll DEF SecurityModeReject
<1>12. CASE AttachAccept
  BY <1>12, AttachAcceptEffect
<1>13. CASE EsmReject
  BY <1>13, HandlesContext, EndsAll DEF EsmReject
<1>14. CASE AttachComplete
  BY <1>14, AttachCompleteEffect
<1>15. CASE ImplicitDetach
  <2>1. Taken /\ Ends
    BY <1>15 DEF ImplicitDetach, Message, Taken
  <2> QED
    BY <2>1, EndsAll
<1>16. CASE Discard
  BY <1>16 DEF Discard, Discarded, Taken
<1> QED
  BY <1>1, <1>2, <1>3, <1>4, <1>5, <1>6, <1>7, <1>8, <1>9, <1>10, <1>11, <1>12, <1>13, <1>14,
     <1>15, <1>16 DEF EmmTask
-----------------------------------------------------------------------------
(* What the surroundings of the task do *)

Posts(type, u) ==
  \E m \in Messages : m.type = type /\ m.ue = u /\ mailbox' = Append(mailbox, m)

LEMMA ToEmmPosts ==
  ASSUME NEW type \in MessageTypes, NEW u \in 0 .. MaxAttach, NEW good \in BOOLEAN,
         ToEmm(type, u, good)
  PROVE  Posts(type, u)
<1> PICK m : m = [type |-> type, ue |-> u, good |-> good]
  OBVIOUS
<1>1. m \in Messages /\ m.type = type /\ m.ue = u
  BY DEF Messages
<1>2. mailbox' = Append(mailbox, m)
  BY DEF ToEmm
<1> QED
  BY <1>1, <1>2 DEF Posts

LEMMA Posted ==
  ASSUME Base, NEW m \in Messages, mailbox' = Append(mailbox, m)
  PROVE  /\ mailbox' \in Seq(Messages)
         /\ \A i \in Indices(mailbox') : \/ i \in Indices(mailbox) /\ mailbox'[i] = mailbox[i]
                                         \/ i = Len(mailbox) + 1 /\ mailbox'[i] = m
<1>1. mailbox \in Seq(Messages)
  BY DEF Base, QueuesOK
<1>2. Append(mailbox, m) \in Seq(Messages)
  BY <1>1, AppendOf
<1>3. \A i \in Indices(Append(mailbox, m)) :
           \/ i \in Indices(mailbox) /\ Append(mailbox, m)[i] = mailbox[i]
           \/ i = Len(mailbox) + 1 /\ Append(mailbox, m)[i] = m
  BY <1>1, AppendOf
<1> QED
  BY <1>2, <1>3

LEMMA SentOne ==
  ASSUME Base, HasContext, NEW type \in {"challenge", "smc", "accept"}, NEW good \in BOOLEAN,
         Sent(type, good)
  PROVE  /\ air' \in Seq(ToUeMessages)
         /\ \A i \in Indices(air') :
              \/ i \in Indices(air) /\ air'[i] = air[i]
              \/ air'[i].type = type /\ air'[i].ue = emm.ue /\ air'[i].good = good
<1> PICK m : m = [type |-> type, ue |-> emm.ue, good |-> good]
  OBVIOUS
<1>1. air \in Seq(ToUeMessages) /\ m \in ToUeMessages
  <2>1. emm.ue \in 0 .. MaxAttach
    BY ContextTyped
  <2> QED
    BY <2>1 DEF Base, QueuesOK, ToUeMessages
<1>2. Append(air, m) \in Seq(ToUeMessages)
  BY <1>1, AppendOf
<1>3. \A i \in Indices(Append(air, m)) :
           \/ i \in Indices(air) /\ Append(air, m)[i] = air[i]
           \/ i = Len(air) + 1 /\ Append(air, m)[i] = m
  BY <1>1, AppendOf
<1>4. air' = Append(air, m) /\ m.type = type /\ m.ue = emm.ue /\ m.good = good
  BY DEF Sent
<1> QED
  BY <1>2, <1>3, <1>4

Expired(t) ==
  /\ running' = running \ {t} /\ Posts(TimeOutOf[t.proc], t.ue)
  /\ UNCHANGED <<emm, air, s6a, esm, ue>>

UeAttachDone ==
  /\ emm = NoContext /\ ue.id + 1 <= MaxAttach
  /\ \A i \in Indices(mailbox) : mailbox[i].type # "attach"
  /\ ue' \in [id : 0 .. MaxAttach, synched : BOOLEAN, key : BOOLEAN] /\ ue'.id = ue.id + 1
  /\ Posts("attach", ue.id + 1) /\ UNCHANGED <<emm, running, air, s6a, esm>>

AirTaken == air # <<>> /\ air' = Tail(air)

\* How the UE answers a message.
AnswerOf(m, type) ==
  \/ /\ m.type = "challenge"
     /\ \/ type = "mac"
        \/ type = "response" /\ m.good
        \/ type = "synch" /\ ~m.good
  \/ m.type = "smc" /\ type \in {"smcComplete", "smcReject"}
  \/ m.type = "accept" /\ type = "complete"

UeAnswerDone(type) ==
  /\ AirTaken /\ Head(air).ue = ue.id /\ AnswerOf(Head(air), type)
  /\ Posts(type, ue.id) /\ UNCHANGED <<emm, running, s6a, esm, ue>>

Lost == AirTaken /\ UNCHANGED <<emm, running, mailbox, s6a, esm, ue>>

HssDone ==
  /\ s6a' \in Seq({"initial", "resync"})
  /\ ue' \in [id : 0 .. MaxAttach, synched : BOOLEAN, key : BOOLEAN] /\ ue'.id = ue.id
  /\ Posts("vector", 0) \/ Posts("error", 0) \/ UNCHANGED mailbox
  /\ UNCHANGED <<emm, running, air, esm>>

EsmAnswered(u) ==
  /\ esm' = esm \ {u} /\ (Posts("esmAccept", u) \/ Posts("esmReject", u))
  /\ UNCHANGED <<emm, running, air, s6a, ue>>

Detaching ==
  /\ HasContext /\ Posts("detach", emm.ue) /\ UNCHANGED <<emm, running, air, s6a, esm, ue>>

LEMMA ExpireEffect ==
  ASSUME Base, NEW t \in running, Expire(t)
  PROVE  Expired(t)
<1>1. t \in Timers
  BY ContextTyped
<1>2. TimeOutOf[t.proc] \in MessageTypes /\ t.ue \in 0 .. MaxAttach
  BY <1>1, ContextTyped DEF Timers, Procs, TimeOutOf, MessageTypes, UeIds
<1>3. ToEmm(TimeOutOf[t.proc], t.ue, FALSE) /\ FALSE \in BOOLEAN
  BY DEF Expire
<1> QED
  <2>1. Posts(TimeOutOf[t.proc], t.ue)
    BY <1>2, <1>3, ToEmmPosts
  <2> QED
    BY <2>1 DEF Expire, Expired

LEMMA UeAttachEffect ==
  ASSUME Base, UeAttach
  PROVE  UeAttachDone
<1>1. ToEmm("attach", ue.id + 1, FALSE) /\ FALSE \in BOOLEAN /\ "attach" \in MessageTypes
  BY DEF UeAttach, MessageTypes
<1>2. ue.id + 1 \in 0 .. MaxAttach /\ ue.id + 1 <= MaxAttach
  BY ContextTyped DEF UeAttach
<1>3. ue' \in [id : 0 .. MaxAttach, synched : BOOLEAN, key : BOOLEAN] /\ ue'.id = ue.id + 1
  BY <1>2, ContextTyped DEF UeAttach
<1> QED
  <2>1. Posts("attach", ue.id + 1)
    BY <1>1, <1>2, ToEmmPosts
  <2> QED
    BY <1>2, <1>3, <2>1 DEF UeAttach, UeAttachDone, Indices

LEMMA UeAnswerEffect ==
  ASSUME Base, NEW type \in UeTypes, UeAnswer(type)
  PROVE  UeAnswerDone(type)
<1> PICK m : m = Head(air)
  OBVIOUS
<1>1. AirTaken /\ m.ue = ue.id /\ UNCHANGED <<emm, running, s6a, esm, ue>>
  BY DEF UeAnswer, AirTaken
<1>2. m \in ToUeMessages
  BY <1>1, TailOf DEF Base, QueuesOK, AirTaken
<1>3. ToEmm(type, ue.id, FALSE) /\ FALSE \in BOOLEAN /\ type \in MessageTypes /\ ue.id \in 0 .. MaxAttach
  BY ContextTyped DEF UeAnswer, UeTypes, MessageTypes
<1>4. Posts(type, ue.id)
  BY <1>3, ToEmmPosts
<1>5. AnswerOf(m, type)
  <2>1. CASE m.type = "challenge"
    <3>1. type = "mac" \/ (m.good /\ type = "response") \/ (~m.good /\ type = "synch")
      BY <2>1 DEF UeAnswer
    <3> QED
      BY <2>1, <3>1, Zenon DEF AnswerOf
  <2>2. CASE m.type = "smc"
    <3>1. type \in {"smcComplete", "smcReject"}
      BY <2>2 DEF UeAnswer
    <3> QED
      BY <2>2, <3>1 DEF AnswerOf
  <2>3. CASE m.type = "accept"
    <3>1. type = "complete"
      BY <2>3 DEF UeAnswer
    <3> QED
      BY <2>3, <3>1 DEF AnswerOf
  <2> QED
    BY <1>2, <2>1, <2>2, <2>3 DEF ToUeMessages
<1> QED
  BY <1>1, <1>4, <1>5 DEF UeAnswerDone

LEMMA TakeS6aTyped ==
  ASSUME Base, NEW i \in Indices(s6a), TakeS6a(i)
  PROVE  s6a' \in Seq({"initial", "resync"})
<1> PICK S : S = {"initial", "resync"}
  OBVIOUS
<1>1. s6a \in Seq(S) /\ i \in 1 .. Len(s6a)
  BY DEF Base, QueuesOK, Indices
<1>2. SubSeq(s6a, 1, i - 1) \in Seq(S) /\ SubSeq(s6a, i + 1, Len(s6a)) \in Seq(S)
  BY <1>1
<1> QED
  BY <1>2 DEF TakeS6a

LEMMA HssAnswerEffect ==
  ASSUME Base, NEW i \in Indices(s6a), HssAnswer(i)
  PROVE  HssDone
<1>1. s6a' \in Seq({"initial", "resync"}) /\ UNCHANGED <<emm, running, air, esm>>
  BY TakeS6aTyped DEF HssAnswer
<1>2. 0 \in 0 .. MaxAttach /\ "vector" \in MessageTypes /\ "error" \in MessageTypes
  BY ContextTyped DEF MessageTypes
<1>3. CASE ue' = [ue EXCEPT !.synched = @ \/ s6a[i] = "resync"] /\ ToEmm("vector", 0, ue'.synched)
  <2>1. ue' \in [id : 0 .. MaxAttach, synched : BOOLEAN, key : BOOLEAN] /\ ue'.id = ue.id
    BY <1>3, ContextTyped
  <2>2. ue'.synched \in BOOLEAN
    BY <2>1
  <2>3. Posts("vector", 0)
    BY <1>2, <1>3, <2>2, ToEmmPosts
  <2> QED
    BY <1>1, <2>1, <2>3 DEF HssDone
<1>4. CASE UNCHANGED ue /\ ToEmm("error", 0, FALSE)
  <2>1. ue' \in [id : 0 .. MaxAttach, synched : BOOLEAN, key : BOOLEAN] /\ ue'.id = ue.id
    BY <1>4, ContextTyped
  <2>2. FALSE \in BOOLEAN
    OBVIOUS
  <2>3. Posts("error", 0)
    BY <1>2, <1>4, <2>2, ToEmmPosts
  <2> QED
    BY <1>1, <2>1, <2>3 DEF HssDone
<1> QED
  BY <1>3, <1>4 DEF HssAnswer

LEMMA EsmAnswerEffect ==
  ASSUME Base, NEW u \in esm, EsmAnswer(u)
  PROVE  EsmAnswered(u)
<1>1. PICK type \in {"esmAccept", "esmReject"} : ToEmm(type, u, FALSE)
  BY DEF EsmAnswer
<1>2. u \in 0 .. MaxAttach /\ type \in MessageTypes /\ FALSE \in BOOLEAN
  BY ContextTyped DEF MessageTypes, UeIds
<1>3. Posts(type, u)
  BY <1>1, <1>2, ToEmmPosts
<1> QED
  BY <1>3 DEF EsmAnswer, EsmAnswered

SurroundingsStep ==
  \/ \E t \in running : Expired(t)
  \/ UeAttachDone \/ Lost \/ HssDone \/ Detaching
  \/ \E type \in UeTypes : UeAnswerDone(type)
  \/ \E u \in esm : EsmAnswered(u)
  \/ UNCHANGED vars

LEMMA Steps ==
  ASSUME Base, [Next]_vars
  PROVE  TaskStep \/ SurroundingsStep
<1> USE DEF SurroundingsStep
<1>1. CASE EmmTask
  BY <1>1, TaskSteps
<1>2. ASSUME NEW t \in running, Expire(t)
      PROVE  SurroundingsStep
  BY <1>2, ExpireEffect
<1>3. CASE UeAttach
  BY <1>3, UeAttachEffect
<1>4. CASE Lose
  BY <1>4 DEF Lose, Lost, AirTaken
<1>5. ASSUME NEW type \in UeTypes, UeAnswer(type)
      PROVE  SurroundingsStep
  BY <1>5, UeAnswerEffect
<1>6. ASSUME NEW i \in 1 .. Len(s6a), HssAnswer(i)
      PROVE  SurroundingsStep
  BY <1>6, HssAnswerEffect DEF Indices
<1>7. ASSUME NEW i \in 1 .. Len(s6a), HssSilent(i)
      PROVE  SurroundingsStep
  <2>1. s6a' \in Seq({"initial", "resync"})
    BY <1>7, TakeS6aTyped DEF HssSilent, Indices
  <2>2. UNCHANGED <<emm, running, mailbox, air, esm, ue>>
    BY <1>7 DEF HssSilent
  <2>3. HssDone
    BY <2>1, <2>2, ContextTyped DEF HssDone
  <2> QED
    BY <2>3
<1>8. ASSUME NEW u \in esm, EsmAnswer(u)
      PROVE  SurroundingsStep
  BY <1>8, EsmAnswerEffect
<1>9. CASE MmeAppDetach
  <2>1. HasContext /\ emm.ue \in 0 .. MaxAttach
    BY <1>9, ContextTyped DEF MmeAppDetach
  <2>2. ToEmm("detach", emm.ue, FALSE) /\ "detach" \in MessageTypes /\ FALSE \in BOOLEAN
    BY <1>9 DEF MmeAppDetach, MessageTypes
  <2>3. Posts("detach", emm.ue)
    BY <2>1, <2>2, ToEmmPosts
  <2> QED
    BY <1>9, <2>1, <2>3 DEF MmeAppDetach, Detaching
<1>10. CASE UNCHANGED vars
  BY <1>10
<1> QED
  BY <1>1, <1>2, <1>3, <1>4, <1>5, <1>6, <1>7, <1>8, <1>9, <1>10 DEF Next
-----------------------------------------------------------------------------
(* The types, and the timers *)

\* What becomes of the message queues and of the timers in a step.
LEMMA QueueSteps ==
  ASSUME Base, TaskStep \/ SurroundingsStep
  PROVE  /\ Taken \/ UNCHANGED mailbox \/ \E type, u : Posts(type, u)
         /\ \/ UNCHANGED air \/ AirTaken
            \/ HasContext /\ \E type \in {"challenge", "smc", "accept"}, good \in BOOLEAN : Sent(type, good)
         /\ s6a' = s6a \/ s6a' = Append(s6a, "initial") \/ s6a' = Append(s6a, "resync")
              \/ s6a' \in Seq({"initial", "resync"})
         /\ running' \subseteq running \/ \E ps : RunningTo(ps)
<1> USE DEF TaskStep, SurroundingsStep
<1>1. Taken \/ UNCHANGED mailbox \/ \E type, u : Posts(type, u)
  BY DEF AttachRequestDone, AuthInfoAnswerDone, AuthenticationCompleteDone, ResynchroniseDone,
         RepeatDone, SecurityModeCompleteDone, AttachAcceptDone, AttachCompleteDone, Ended, Discarded,
         Expired, UeAttachDone, Lost, HssDone, Detaching, UeAnswerDone, EsmAnswered, vars
<1>2. \/ UNCHANGED air \/ AirTaken
      \/ HasContext /\ \E type \in {"challenge", "smc", "accept"}, good \in BOOLEAN : Sent(type, good)
  <2>1. emm.good \in BOOLEAN /\ TRUE \in BOOLEAN
    BY ContextTyped DEF Context
  <2> QED
    BY <2>1, Zenon DEF AttachRequestDone, AuthInfoAnswerDone, AuthenticationCompleteDone, ResynchroniseDone,
         RepeatDone, SecurityModeCompleteDone, AttachAcceptDone, AttachCompleteDone, Ended, Discarded,
         Expired, UeAttachDone, Lost, HssDone, Detaching, UeAnswerDone, EsmAnswered, vars
<1>3. s6a' = s6a \/ s6a' = Append(s6a, "initial") \/ s6a' = Append(s6a, "resync")
        \/ s6a' \in Seq({"initial", "resync"})
  BY DEF AttachRequestDone, AuthInfoAnswerDone, AuthenticationCompleteDone, ResynchroniseDone,
         RepeatDone, SecurityModeCompleteDone, AttachAcceptDone, AttachCompleteDone, Ended, Discarded,
         Expired, UeAttachDone, Lost, HssDone, Detaching, UeAnswerDone, EsmAnswered, vars
<1>4. running' \subseteq running \/ \E ps : RunningTo(ps)
  BY DEF AttachRequestDone, AuthInfoAnswerDone, AuthenticationCompleteDone, ResynchroniseDone,
         RepeatDone, SecurityModeCompleteDone, AttachAcceptDone, AttachCompleteDone, Ended, Discarded,
         Expired, UeAttachDone, Lost, HssDone, Detaching, UeAnswerDone, EsmAnswered, vars
<1> QED
  BY <1>1, <1>2, <1>3, <1>4

LEMMA QueuesKept ==
  ASSUME Base, TaskStep \/ SurroundingsStep
  PROVE  QueuesOK'
<1>1. mailbox' \in Seq(Messages)
  <2>1. CASE Taken
    BY <2>1, TakenTail
  <2>2. CASE UNCHANGED mailbox
    BY <2>2 DEF Base, QueuesOK
  <2>3. ASSUME NEW type, NEW u, Posts(type, u)
        PROVE  mailbox' \in Seq(Messages)
    BY <2>3, Posted DEF Posts
  <2> QED
    BY <2>1, <2>2, <2>3, QueueSteps
<1>2. air' \in Seq(ToUeMessages)
  <2>1. CASE UNCHANGED air
    BY <2>1 DEF Base, QueuesOK
  <2>2. CASE AirTaken
    BY <2>2, TailOf DEF Base, QueuesOK, AirTaken
  <2>3. ASSUME HasContext, NEW type \in {"challenge", "smc", "accept"}, NEW good \in BOOLEAN, Sent(type, good)
        PROVE  air' \in Seq(ToUeMessages)
    BY <2>3, SentOne
  <2> QED
    BY <2>1, <2>2, <2>3, QueueSteps
<1>3. s6a' \in Seq({"initial", "resync"})
  <2> PICK S : S = {"initial", "resync"}
    OBVIOUS
  <2>1. s6a \in Seq(S) /\ "initial" \in S /\ "resync" \in S
    BY DEF Base, QueuesOK
  <2>2. Append(s6a, "initial") \in Seq(S) /\ Append(s6a, "resync") \in Seq(S)
    BY <2>1, AppendOf
  <2> QED
    BY <2>1, <2>2, QueueSteps
<1>4. running' \subseteq Timers /\ IsFiniteSet(running')
  <2>1. CASE running' \subseteq running
    BY <2>1, ContextTyped, FS_Subset
  <2>2. CASE \E ps : RunningTo(ps)
    BY <2>2 DEF RunningTo
  <2> QED
    BY <2>1, <2>2, QueueSteps
<1> QED
  BY <1>1, <1>2, <1>3, <1>4 DEF QueuesOK

LEMMA TimersOwnedKept ==
  ASSUME Base, TaskStep \/ SurroundingsStep
  PROVE  TimersOwned'
<1>1. CASE \E ps : RunningTo(ps)
  BY <1>1 DEF RunningTo
<1>2. CASE emm' = emm /\ running' \subseteq running
  BY <1>2 DEF Base, TimersOwned
<1>3. CASE running' = {}
  BY <1>3 DEF TimersOwned
<1> QED
  BY <1>1, <1>2, <1>3
     DEF TaskStep, SurroundingsStep,
         AttachRequestDone, AuthInfoAnswerDone, AuthenticationCompleteDone, ResynchroniseDone,
         RepeatDone, SecurityModeCompleteDone, AttachAcceptDone, AttachCompleteDone, Ended, Discarded,
         Expired, UeAttachDone, Lost, HssDone, Detaching, UeAnswerDone, EsmAnswered, vars

\* The limit of the counters is one at least, so that the first request is not
\* counted above it; a handler that repeats a request looks at the counter first.
LEMMA TypesKept ==
  ASSUME Base, TaskStep \/ SurroundingsStep
  PROVE  TypeOK'
<1> USE DEF TaskStep, SurroundingsStep
<1>1. emm' \in Context
  BY ContextTyped, NoContextTyped
     DEF AttachRequestDone, AuthInfoAnswerDone, AuthenticationCompleteDone, ResynchroniseDone,
         RepeatDone, SecurityModeCompleteDone, AttachAcceptDone, AttachCompleteDone, Ended, Discarded,
         Expired, UeAttachDone, Lost, HssDone, Detaching, UeAnswerDone, EsmAnswered, vars, Becomes
<1>2. \A p \in DOMAIN CounterMax : emm'.count[p] <= CounterMax[p]
  <2>1. DOMAIN CounterMax = {"attach", "auth", "smc"} /\ \A p \in DOMAIN CounterMax : CounterMax[p] \in Nat \ {0}
    BY CountersAssumption DEF CounterMax
  <2>2. emm.count \in [Procs -> Nat] /\ DOMAIN CounterMax \subseteq Procs
    BY <2>1, ContextTyped DEF Context, Procs
  <2>3. \A p \in DOMAIN CounterMax : emm.count[p] <= CounterMax[p]
    BY DEF Base, TypeOK
  <2>4. CASE emm'.count = emm.count
    BY <2>3, <2>4
  <2>5. CASE emm'.count = [p \in Procs |-> 0]
    BY <2>1, <2>2, <2>5
  <2>6. ASSUME NEW q \in {"auth", "smc"}, emm'.count = [emm.count EXCEPT ![q] = 0]
        PROVE  \A p \in DOMAIN CounterMax : emm'.count[p] <= CounterMax[p]
    BY <2>1, <2>2, <2>3, <2>6
  <2>7. ASSUME NEW q \in {"attach", "auth", "smc"}, RepeatDone(q)
        PROVE  \A p \in DOMAIN CounterMax : emm'.count[p] <= CounterMax[p]
    <3>1. emm'.count = [emm.count EXCEPT ![q] = @ + 1] /\ emm.count[q] + 1 < CounterMax[q]
      BY <2>7 DEF RepeatDone, Becomes
    <3> QED
      BY <2>1, <2>2, <2>3, <3>1
  <2>8. CASE AttachAcceptDone
    <3>1. emm'.count = [emm.count EXCEPT !["attach"] = @ + 1]
      BY <2>8 DEF AttachAcceptDone, Becomes
    <3>2. emm.count["attach"] = 0
      BY <2>8, TakenTail DEF AttachAcceptDone, Base, EvidenceOK, MailOK, EsmTypes
    <3> QED
      BY <2>1, <2>2, <2>3, <3>1, <3>2
  <2>9. NoContext.count = [p \in Procs |-> 0]
    BY NoContextTyped
  <2>10. CASE TaskStep
    <3>1. CASE AttachRequestDone
      BY <2>5, <3>1 DEF AttachRequestDone
    <3>2. CASE AuthInfoAnswerDone
      BY <2>6, <3>2 DEF AuthInfoAnswerDone, Becomes
    <3>3. CASE AuthenticationCompleteDone
      BY <2>6, <3>3 DEF AuthenticationCompleteDone, Becomes
    <3>4. CASE Ended
      BY <2>5, <2>9, <3>4 DEF Ended
    <3>5. CASE ResynchroniseDone \/ SecurityModeCompleteDone \/ AttachCompleteDone \/ Discarded
      BY <2>4, <3>5 DEF ResynchroniseDone, SecurityModeCompleteDone, AttachCompleteDone, Discarded, Becomes
    <3> QED
      BY <2>7, <2>8, <2>10, <3>1, <3>2, <3>3, <3>4, <3>5
  <2>11. CASE SurroundingsStep
    BY <2>4, <2>11 DEF Expired, UeAttachDone, Lost, HssDone, Detaching, UeAnswerDone, EsmAnswered, vars
  <2> QED
    BY <2>10, <2>11
<1>3. esm' \subseteq UeIds
  BY ContextTyped
     DEF AttachRequestDone, AuthInfoAnswerDone, AuthenticationCompleteDone, ResynchroniseDone,
         RepeatDone, SecurityModeCompleteDone, AttachAcceptDone, AttachCompleteDone, Ended, Discarded,
         Expired, UeAttachDone, Lost, HssDone, Detaching, UeAnswerDone, EsmAnswered, vars
<1>4. ue' \in [id : 0 .. MaxAttach, synched : BOOLEAN, key : BOOLEAN]
  BY ContextTyped
     DEF AttachRequestDone, AuthInfoAnswerDone, AuthenticationCompleteDone, ResynchroniseDone,
         RepeatDone, SecurityModeCompleteDone, AttachAcceptDone, AttachCompleteDone, Ended, Discarded,
         Expired, UeAttachDone, Lost, HssDone, Detaching, UeAnswerDone, EsmAnswered, vars
<1>5. QueuesOK'
  BY QueuesKept
<1>6. \A t \in running' : t.id \in Nat \ {0} /\ t.proc \in Procs /\ t.ue \in UeIds
  BY <1>5 DEF QueuesOK, Timers
<1>7. \A i \in 1 .. Len(mailbox') : mailbox'[i].ue \in 0 .. MaxAttach
  <2>1. \A i \in 1 .. Len(mailbox') : mailbox'[i] \in Messages
    BY <1>5 DEF QueuesOK
  <2> QED
    BY <2>1 DEF Messages
<1>8. \A i \in 1 .. Len(air') : air'[i].type \in {"challenge", "smc", "accept"}
  <2>1. \A i \in 1 .. Len(air') : air'[i] \in ToUeMessages
    BY <1>5 DEF QueuesOK
  <2> QED
    BY <2>1 DEF ToUeMessages
<1>9. \A i \in 1 .. Len(s6a') : s6a'[i] \in {"initial", "resync"}
  BY <1>5 DEF QueuesOK
<1> QED
  BY <1>1, <1>2, <1>3, <1>4, <1>6, <1>7, <1>8, <1>9 DEF TypeOK
-----------------------------------------------------------------------------
(* Contexts, ue_ids and the first message of an attach *)

LEMMA AirTail ==
  ASSUME Base, AirTaken
  PROVE  /\ Head(air) = air[1] /\ 1 \in Indices(air) /\ Head(air) \in ToUeMessages
         /\ \A i \in Indices(air') : i + 1 \in Indices(air) /\ air'[i] = air[i + 1]
  BY TailOf DEF Base, QueuesOK, AirTaken

LEMMA ContextKept ==
  ASSUME Base, TaskStep \/ SurroundingsStep
  PROVE  ContextOK'
<1> USE DEF TaskStep, SurroundingsStep
<1>0. /\ emm = NoContext \/ (emm.ue = ue.id /\ emm.ue # 0)
      /\ HasContext => emm.ue = ue.id /\ emm.ue \in 1 .. ue.id
      /\ ue.id \in Nat
      /\ esm \subseteq 1 .. ue.id
      /\ \A i \in Indices(mailbox) : mailbox[i].ue \in 0 .. ue.id
      /\ \A i \in Indices(air) : air[i].ue \in 1 .. ue.id
  <2>1. ue.id \in Nat
    BY ContextTyped
  <2>2. HasContext => emm.ue = ue.id /\ emm.ue \in 1 .. ue.id
    BY <2>1, ContextTyped DEF HasContext
  <2>3. \A i \in Indices(mailbox) : mailbox[i].ue \in Nat
    <3>1. \A i \in Indices(mailbox) : mailbox[i] \in Messages
      BY DEF Base, QueuesOK, Indices
    <3> QED
      BY <3>1 DEF Messages
  <2>4. \A i \in Indices(mailbox) : mailbox[i].ue <= ue.id
    BY DEF Base, ContextOK
  <2>5. \A i \in Indices(mailbox) : mailbox[i].ue \in 0 .. ue.id
    BY <2>1, <2>3, <2>4
  <2> QED
    BY <2>1, <2>2, <2>5 DEF Base, ContextOK
<1>1. ue'.id \in Nat /\ ue'.id >= ue.id /\ (ue'.id = ue.id \/ UeAttachDone)
  <2>1. ue' = ue \/ ue'.id = ue.id \/ UeAttachDone
    BY DEF AttachRequestDone, AuthInfoAnswerDone, AuthenticationCompleteDone, ResynchroniseDone,
         RepeatDone, SecurityModeCompleteDone, AttachAcceptDone, AttachCompleteDone, Ended, Discarded,
         Expired, Lost, HssDone, Detaching, UeAnswerDone, EsmAnswered, vars
  <2>2. CASE UeAttachDone
    BY <1>0, <2>2 DEF UeAttachDone
  <2>3. CASE ue'.id = ue.id
    BY <1>0, <2>3
  <2> QED
    BY <2>1, <2>2, <2>3
<1>6. 0 .. ue.id \subseteq 0 .. ue'.id /\ 1 .. ue.id \subseteq 1 .. ue'.id
  BY <1>0, <1>1
<1>2. emm' = NoContext \/ (emm'.ue = ue'.id /\ emm'.ue # 0)
  <2>1. CASE AttachRequestDone
    BY <2>1 DEF AttachRequestDone
  <2>2. CASE HasContext /\ emm'.ue = emm.ue /\ ue' = ue
    BY <1>0, <2>2
  <2>3. CASE emm' = emm /\ (ue'.id = ue.id \/ emm = NoContext)
    BY <1>0, <2>3
  <2>4. CASE emm' = NoContext
    BY <2>4
  <2> QED
    BY <1>1, <2>1, <2>2, <2>3, <2>4
       DEF AuthInfoAnswerDone, AuthenticationCompleteDone, ResynchroniseDone,
         RepeatDone, SecurityModeCompleteDone, AttachAcceptDone, AttachCompleteDone, Ended, Discarded,
         Expired, UeAttachDone, Lost, HssDone, Detaching, UeAnswerDone, EsmAnswered, vars, Becomes
<1>3. esm' \subseteq 1 .. ue'.id
  <2>1. esm' \subseteq esm \/ (HasContext /\ esm' = esm \cup {emm.ue})
    BY DEF AttachRequestDone, AuthInfoAnswerDone, AuthenticationCompleteDone, ResynchroniseDone,
         RepeatDone, SecurityModeCompleteDone, AttachAcceptDone, AttachCompleteDone, Ended, Discarded,
         Expired, UeAttachDone, Lost, HssDone, Detaching, UeAnswerDone, EsmAnswered, vars
  <2>2. esm' \subseteq 1 .. ue.id
    BY <1>0, <2>1
  <2> QED
    BY <1>6, <2>2
<1>4. \A i \in Indices(mailbox') : mailbox'[i].ue \in 0 .. ue'.id
  <2>1. CASE Taken
    BY <1>0, <1>6, <2>1, TakenTail
  <2>2. CASE UNCHANGED mailbox
    BY <1>0, <1>6, <2>2
  <2>3. ASSUME NEW type, NEW u, Posts(type, u), u \in 0 .. ue'.id
        PROVE  \A i \in Indices(mailbox') : mailbox'[i].ue \in 0 .. ue'.id
    <3>1. PICK m \in Messages : m.ue = u /\ mailbox' = Append(mailbox, m)
      BY <2>3 DEF Posts
    <3>2. \A i \in Indices(mailbox') : \/ i \in Indices(mailbox) /\ mailbox'[i] = mailbox[i]
                                       \/ mailbox'[i] = m
      BY <3>1, Posted
    <3> QED
      BY <1>0, <1>6, <2>3, <3>1, <3>2
  <2>4. CASE SurroundingsStep
    <3>1. \A t \in running : t.ue = emm.ue /\ HasContext
      BY ContextTyped, NoContextTyped DEF Base, TimersOwned
    <3>2. Taken \/ UNCHANGED mailbox \/ \E type, u : Posts(type, u) /\ u \in 0 .. ue'.id
      BY <1>0, <1>1, <2>4, <3>1
         DEF Expired, UeAttachDone, Lost, HssDone, Detaching, UeAnswerDone, EsmAnswered, vars
    <3> QED
      BY <2>1, <2>2, <2>3, <3>2
  <2>5. CASE TaskStep
    <3>1. Taken
      BY <2>5 DEF AttachRequestDone, AuthInfoAnswerDone, AuthenticationCompleteDone, ResynchroniseDone,
         RepeatDone, SecurityModeCompleteDone, AttachAcceptDone, AttachCompleteDone, Ended, Discarded
    <3> QED
      BY <2>1, <3>1
  <2> QED
    BY <2>4, <2>5
<1>5. \A i \in Indices(air') : air'[i].ue \in 1 .. ue'.id
  <2>1. CASE UNCHANGED air
    BY <1>0, <1>6, <2>1
  <2>2. CASE AirTaken
    BY <1>0, <1>6, <2>2, AirTail
  <2>3. ASSUME HasContext, NEW type \in {"challenge", "smc", "accept"}, NEW good \in BOOLEAN, Sent(type, good)
        PROVE  \A i \in Indices(air') : air'[i].ue \in 1 .. ue'.id
    <3>1. \A i \in Indices(air') : \/ i \in Indices(air) /\ air'[i] = air[i]
                                   \/ air'[i].ue = emm.ue
      BY <2>3, SentOne
    <3> QED
      BY <1>0, <1>6, <2>3, <3>1
  <2> QED
    BY <2>1, <2>2, <2>3, QueueSteps
<1>7. \A i \in Indices(mailbox') : mailbox'[i].ue <= ue'.id
  BY <1>1, <1>4
<1> QED
  BY <1>2, <1>3, <1>5, <1>7 DEF ContextOK

\* The handler of an attach request is the only one that is not of a context, or
\* takes a context away; the request itself is the only one in the mailbox.
LEMMA AttachFirstKept ==
  ASSUME Base, TaskStep \/ SurroundingsStep
  PROVE  AttachFirst'
<1> USE DEF TaskStep, SurroundingsStep
<1>0. \A i \in Indices(mailbox) : mailbox[i].type = "attach" =>
        /\ emm = NoContext /\ mailbox[i].ue = ue.id /\ ue.id # 0 /\ ue.id \notin esm
        /\ \A j \in Indices(mailbox) : mailbox[j].ue = ue.id => j = i
        /\ \A j \in Indices(air) : air[j].ue # ue.id
  BY DEF Base, AttachFirst
<1>1. CASE Taken /\ HasContext
  <2>1. \A i \in Indices(mailbox) : mailbox[i].type # "attach"
    BY <1>0, <1>1, ContextTyped
  <2> QED
    BY <1>1, <2>1, TakenTail DEF AttachFirst
<1>2. CASE Taken /\ emm' = NoContext /\ UNCHANGED <<air, esm, ue>>
  <2>1. \A i \in Indices(mailbox') : i + 1 \in Indices(mailbox) /\ mailbox'[i] = mailbox[i + 1]
    BY <1>2, TakenTail
  <2>2. \A i, j \in Indices(mailbox') : i + 1 = j + 1 => i = j
    BY DEF Indices
  <2> QED
    BY <1>0, <1>2, <2>1, <2>2 DEF AttachFirst
<1>3. CASE AttachRequestDone
  <2>1. Taken /\ mailbox[1].type = "attach" /\ mailbox[1].ue = ue.id /\ 1 \in Indices(mailbox)
    BY <1>3, TakenTail DEF AttachRequestDone
  <2>2. \A i \in Indices(mailbox) : i # 1 => mailbox[i].type # "attach"
    BY <1>0, <2>1
  <2> QED
    BY <2>1, <2>2, TakenTail DEF AttachFirst
<1>4. CASE Discarded /\ ~HasContext
  BY <1>2, <1>4, ContextTyped DEF Discarded
<1>5. CASE TaskStep
  BY <1>1, <1>2, <1>3, <1>4, <1>5
     DEF AuthInfoAnswerDone, AuthenticationCompleteDone, ResynchroniseDone, Discarded,
         RepeatDone, SecurityModeCompleteDone, AttachAcceptDone, AttachCompleteDone, Ended
<1>6. CASE UeAttachDone
  <2>1. PICK m \in Messages : m.type = "attach" /\ m.ue = ue.id + 1 /\ mailbox' = Append(mailbox, m)
    BY <1>6 DEF UeAttachDone, Posts
  <2>2. \A i \in Indices(mailbox') : \/ i \in Indices(mailbox) /\ mailbox'[i] = mailbox[i]
                                     \/ i = Len(mailbox) + 1 /\ mailbox'[i] = m
    BY <2>1, Posted
  <2>3. /\ ue.id \in Nat /\ esm \subseteq 1 .. ue.id
        /\ \A i \in Indices(mailbox) : mailbox[i].ue <= ue.id
        /\ \A i \in Indices(air) : air[i].ue \in 1 .. ue.id
    BY ContextTyped DEF Base, ContextOK
  <2>4. ue'.id = ue.id + 1 /\ emm' = NoContext /\ air' = air /\ esm' = esm /\ emm = NoContext
    BY <1>6 DEF UeAttachDone
  <2>5. \A i \in Indices(mailbox') : mailbox'[i].ue = ue'.id => i = Len(mailbox) + 1 /\ mailbox'[i] = m
    BY <2>2, <2>3, <2>4
  <2>6. \A i \in Indices(mailbox') : mailbox'[i].type = "attach" => i = Len(mailbox) + 1 /\ mailbox'[i] = m
    BY <1>6, <2>2 DEF UeAttachDone
  <2> QED
    <3> SUFFICES ASSUME NEW i \in Indices(mailbox'), mailbox'[i].type = "attach"
                 PROVE  /\ emm' = NoContext /\ mailbox'[i].ue = ue'.id /\ ue'.id # 0 /\ ue'.id \notin esm'
                        /\ \A j \in Indices(mailbox') : mailbox'[j].ue = ue'.id => j = i
                        /\ \A j \in Indices(air') : air'[j].ue # ue'.id
      BY DEF AttachFirst
    <3>1. i = Len(mailbox) + 1 /\ mailbox'[i] = m
      BY <2>6
    <3>2. ue'.id # 0 /\ ue'.id \notin esm' /\ \A j \in Indices(air') : air'[j].ue # ue'.id
      BY <2>3, <2>4
    <3> QED
      BY <2>1, <2>4, <2>5, <3>1, <3>2
<1>7. CASE SurroundingsStep /\ ~UeAttachDone
  <2>1. emm' = emm /\ ue'.id = ue.id /\ esm' \subseteq esm
    BY <1>7 DEF Expired, Lost, HssDone, Detaching, UeAnswerDone, EsmAnswered, vars
  <2>2. \A i \in Indices(air') : \E j \in Indices(air) : air'[i] = air[j]
    <3>1. UNCHANGED air \/ AirTaken
      BY <1>7 DEF Expired, Lost, HssDone, Detaching, UeAnswerDone, EsmAnswered, vars
    <3> QED
      BY <3>1, AirTail
  <2> DEFINE Present == \E i \in Indices(mailbox) : mailbox[i].type = "attach"
  <2>3. UNCHANGED mailbox \/ \E type, u : Posts(type, u) /\ type # "attach" /\ (Present => u # ue.id)
    <3>1. Present => ~HasContext /\ running = {} /\ ue.id \notin esm /\ ue.id # 0
                     /\ \A j \in Indices(air) : air[j].ue # ue.id
      BY <1>0, ContextTyped
    <3>2. CASE \E t \in running : Expired(t)
      <4>1. \A t \in running : TimeOutOf[t.proc] # "attach"
        BY ContextTyped DEF Timers, Procs, TimeOutOf
      <4> QED
        BY <3>1, <3>2, <4>1 DEF Expired
    <3>3. CASE \E type \in UeTypes : UeAnswerDone(type)
      BY <3>1, <3>3, AirTail DEF UeAnswerDone, UeTypes
    <3>4. CASE \E u \in esm : EsmAnswered(u)
      BY <3>1, <3>4 DEF EsmAnswered
    <3>5. CASE HssDone
      BY <3>1, <3>5 DEF HssDone
    <3>6. CASE Detaching
      BY <3>1, <3>6 DEF Detaching
    <3> QED
      BY <1>7, <3>2, <3>3, <3>4, <3>5, <3>6 DEF Lost, vars
  <2>4. CASE UNCHANGED mailbox
    BY <1>0, <2>1, <2>2, <2>4 DEF AttachFirst
  <2>5. ASSUME NEW type, NEW u, Posts(type, u), type # "attach", Present => u # ue.id
        PROVE  AttachFirst'
    <3>1. PICK m \in Messages : m.type = type /\ m.ue = u /\ mailbox' = Append(mailbox, m)
      BY <2>5 DEF Posts
    <3>2. \A i \in Indices(mailbox') : \/ i \in Indices(mailbox) /\ mailbox'[i] = mailbox[i]
                                       \/ mailbox'[i] = m
      BY <3>1, Posted
    <3> SUFFICES ASSUME NEW i \in Indices(mailbox'), mailbox'[i].type = "attach"
                 PROVE  /\ emm' = NoContext /\ mailbox'[i].ue = ue'.id /\ ue'.id # 0 /\ ue'.id \notin esm'
                        /\ \A j \in Indices(mailbox') : mailbox'[j].ue = ue'.id => j = i
                        /\ \A j \in Indices(air') : air'[j].ue # ue'.id
      BY DEF AttachFirst
    <3>3. i \in Indices(mailbox) /\ mailbox[i].type = "attach" /\ mailbox'[i] = mailbox[i]
      BY <2>5, <3>1, <3>2
    <3>4. m.ue # ue.id
      BY <2>5, <3>1, <3>3
    <3> QED
      BY <1>0, <2>1, <2>2, <3>2, <3>3, <3>4
  <2> QED
    BY <2>3, <2>4, <2>5
<1> QED
  BY <1>5, <1>6, <1>7
-----------------------------------------------------------------------------
(* The stages of an attach, and what is still under way about them *)

\* What the head of the mailbox says of the context that handles it.
LEMMA HeadEvidence ==
  ASSUME Base, Taken, HasContext, Head(mailbox).ue = emm.ue
  PROVE  /\ Head(mailbox).type \in {"t_attach", "complete"} => Accepted
         /\ Head(mailbox).type \in EsmTypes =>
              /\ "auth" \notin emm.procs /\ "smc" \notin emm.procs /\ emm.ue \notin esm
              /\ "attach" \in emm.procs => emm.count["attach"] = 0
  BY TakenTail DEF Base, EvidenceOK, MailOK

LEMMA StagesKept ==
  ASSUME Base, TaskStep \/ SurroundingsStep
  PROVE  StagesOK'
<1> USE DEF TaskStep, SurroundingsStep, HasContext
<1>0. /\ HasContext => StagesOK /\ emm.ue = ue.id
      /\ HasContext =>
           /\ "auth" \in emm.procs => "smc" \notin emm.procs
           /\ "auth" \in emm.procs \/ "smc" \in emm.procs =>
                "attach" \in emm.procs /\ emm.count["attach"] = 0 /\ emm.ue \notin esm
           /\ emm.ue \in esm /\ "attach" \in emm.procs => emm.count["attach"] = 0
      /\ emm.count \in [Procs -> Nat] /\ "attach" \in Procs /\ "auth" \in Procs /\ "smc" \in Procs
  BY ContextTyped DEF Base, StagesOK, Context, Procs
<1>1. CASE AttachRequestDone
  <2>1. ue.id \notin esm
    BY <1>1, TakenTail DEF AttachRequestDone, Base, AttachFirst
  <2> QED
    BY <1>0, <1>1, <2>1 DEF AttachRequestDone, StagesOK
<1>2. CASE AuthInfoAnswerDone
  BY <1>0, <1>2 DEF AuthInfoAnswerDone, Becomes, StagesOK
<1>3. CASE AuthenticationCompleteDone
  BY <1>0, <1>3 DEF AuthenticationCompleteDone, Becomes, StagesOK
<1>4. CASE ResynchroniseDone
  BY <1>0, <1>4 DEF ResynchroniseDone, Becomes, StagesOK
<1>5. ASSUME NEW p \in {"attach", "auth", "smc"}, RepeatDone(p)
      PROVE  StagesOK'
  <2>1. CASE p = "attach"
    <3>1. Accepted /\ "attach" \in emm.procs
      BY <1>5, <2>1, HeadEvidence DEF RepeatDone, TimeOutOf
    <3>2. "auth" \notin emm.procs /\ "smc" \notin emm.procs /\ emm.ue \notin esm
      BY <1>0, <1>5, <3>1 DEF Accepted, RepeatDone
    <3> QED
      BY <1>5, <3>2 DEF RepeatDone, Becomes, StagesOK
  <2>2. CASE p # "attach"
    <3>1. emm'.count["attach"] = emm.count["attach"]
      BY <1>0, <1>5, <2>2 DEF RepeatDone, Becomes
    <3> QED
      BY <1>0, <1>5, <3>1 DEF RepeatDone, Becomes, StagesOK
  <2> QED
    BY <2>1, <2>2
<1>6. CASE SecurityModeCompleteDone
  BY <1>0, <1>6 DEF SecurityModeCompleteDone, Becomes, StagesOK
<1>7. CASE AttachAcceptDone
  <2>1. "auth" \notin emm.procs /\ "smc" \notin emm.procs /\ emm.ue \notin esm
    BY <1>7, HeadEvidence DEF AttachAcceptDone, EsmTypes
  <2> QED
    BY <1>7, <2>1 DEF AttachAcceptDone, Becomes, StagesOK
<1>8. CASE AttachCompleteDone
  <2>1. Accepted
    BY <1>8, HeadEvidence DEF AttachCompleteDone
  <2>2. "auth" \notin emm.procs /\ "smc" \notin emm.procs
    BY <1>0, <1>8, <2>1 DEF Accepted, AttachCompleteDone
  <2> QED
    BY <1>8, <2>2 DEF AttachCompleteDone, Becomes, StagesOK
<1>9. CASE Ended
  BY <1>9, NoContextTyped DEF Ended, StagesOK
<1>10. CASE emm' = emm /\ esm' \subseteq esm
  BY <1>0, <1>10 DEF StagesOK
<1>11. Discarded \/ SurroundingsStep => emm' = emm /\ esm' \subseteq esm
  BY DEF Discarded, Expired, UeAttachDone, Lost, HssDone, Detaching, UeAnswerDone, EsmAnswered, vars
<1> QED
  BY <1>1, <1>2, <1>3, <1>4, <1>5, <1>6, <1>7, <1>8, <1>9, <1>10, <1>11

\* The steps in which the context stays: its attach accept is not forgotten.
LEMMA AcceptedKept ==
  ASSUME Base, TaskStep \/ SurroundingsStep, HasContext, HasContext', ~AttachRequestDone
  PROVE  /\ emm'.ue = emm.ue
         /\ Accepted => Accepted'
<1> USE DEF TaskStep, SurroundingsStep
<1>0. emm.count \in [Procs -> Nat] /\ "attach" \in Procs /\ "auth" \in Procs /\ "smc" \in Procs
  BY ContextTyped DEF Context, Procs
<1>1. emm'.ue = emm.ue
  BY NoContextTyped DEF HasContext, AuthInfoAnswerDone, AuthenticationCompleteDone, ResynchroniseDone,
         RepeatDone, SecurityModeCompleteDone, AttachAcceptDone, AttachCompleteDone, Ended, Discarded,
         Expired, UeAttachDone, Lost, HssDone, Detaching, UeAnswerDone, EsmAnswered, vars, Becomes
<1>2. /\ "attach" \in emm'.procs => "attach" \in emm.procs
      /\ emm'.count["attach"] = emm.count["attach"] \/ emm'.count["attach"] = emm.count["attach"] + 1
  <2>1. CASE AuthInfoAnswerDone
    BY <1>0, <2>1 DEF AuthInfoAnswerDone, Becomes
  <2>2. CASE AuthenticationCompleteDone
    BY <1>0, <2>2 DEF AuthenticationCompleteDone, Becomes
  <2>3. CASE ResynchroniseDone
    BY <1>0, <2>3 DEF ResynchroniseDone, Becomes
  <2>4. ASSUME NEW p \in {"attach", "auth", "smc"}, RepeatDone(p)
        PROVE  /\ emm'.procs = emm.procs
               /\ emm'.count["attach"] = emm.count["attach"] \/ emm'.count["attach"] = emm.count["attach"] + 1
    BY <1>0, <2>4 DEF RepeatDone, Becomes
  <2>5. CASE AttachAcceptDone
    BY <1>0, <2>5 DEF AttachAcceptDone, Becomes
  <2>6. CASE SecurityModeCompleteDone \/ AttachCompleteDone
    BY <1>0, <2>6 DEF SecurityModeCompleteDone, AttachCompleteDone, Becomes
  <2>7. CASE emm' = emm
    BY <2>7
  <2>8. CASE Ended
    BY <2>8, NoContextTyped DEF Ended, HasContext
  <2>9. Discarded \/ SurroundingsStep => emm' = emm
    BY DEF Discarded, Expired, UeAttachDone, Lost, HssDone, Detaching, UeAnswerDone, EsmAnswered, vars
  <2> QED
    BY <2>1, <2>2, <2>3, <2>4, <2>5, <2>6, <2>7, <2>8, <2>9
<1>3. Accepted => Accepted'
  BY <1>0, <1>2 DEF Accepted
<1> QED
  BY <1>1, <1>3

\* What is sent to the UE says something about the context that remains.
LEMMA SentWhen ==
  ASSUME Base, TaskStep \/ SurroundingsStep
  PROVE  \/ UNCHANGED air
         \/ AirTaken
         \/ HasContext /\ \E type \in {"challenge", "smc", "accept"}, good \in BOOLEAN :
              /\ Sent(type, good) /\ emm'.ue = emm.ue
              /\ type = "accept" => Accepted'
              /\ type = "challenge" => good = emm'.good /\ (AuthInfoAnswerDone \/ RepeatDone("auth"))
<1> DEFINE Something ==
      HasContext /\ \E type \in {"challenge", "smc", "accept"}, good \in BOOLEAN :
        /\ Sent(type, good) /\ emm'.ue = emm.ue
        /\ type = "accept" => Accepted'
        /\ type = "challenge" => good = emm'.good /\ (AuthInfoAnswerDone \/ RepeatDone("auth"))
<1>0. /\ emm.count \in [Procs -> Nat] /\ "attach" \in Procs
      /\ emm.good \in BOOLEAN /\ TRUE \in BOOLEAN
  BY ContextTyped DEF Context, Procs
<1>1. CASE AuthInfoAnswerDone
  <2>1. /\ Sent("challenge", Head(mailbox).good) /\ emm'.ue = emm.ue /\ HasContext
        /\ Head(mailbox).good = emm'.good /\ Head(mailbox).good \in BOOLEAN
    BY <1>1 DEF AuthInfoAnswerDone, Becomes
  <2>2. Something
    BY <1>1, <2>1, Zenon
  <2> QED
    BY <2>2, Zenon
<1>2. CASE AuthenticationCompleteDone
  <2>1. Sent("smc", TRUE) /\ emm'.ue = emm.ue /\ HasContext
    BY <1>2 DEF AuthenticationCompleteDone, Becomes
  <2>2. Something
    BY <1>0, <2>1, Zenon
  <2> QED
    BY <2>2, Zenon
<1>3. CASE RepeatDone("auth")
  <2>1. Sent("challenge", emm.good) /\ emm'.ue = emm.ue /\ HasContext /\ emm.good = emm'.good
    BY <1>3 DEF RepeatDone, Becomes
  <2>2. Something
    BY <1>0, <1>3, <2>1, Zenon
  <2> QED
    BY <2>2, Zenon
<1>4. CASE RepeatDone("smc")
  <2>1. Sent("smc", TRUE) /\ emm'.ue = emm.ue /\ HasContext
    BY <1>4 DEF RepeatDone, Becomes
  <2>2. Something
    BY <1>0, <2>1, Zenon
  <2> QED
    BY <2>2, Zenon
<1>5. CASE RepeatDone("attach") \/ AttachAcceptDone
  <2>1. Sent("accept", TRUE) /\ emm'.ue = emm.ue /\ HasContext
    BY <1>5 DEF RepeatDone, AttachAcceptDone, Becomes
  <2>2. emm'.count = [emm.count EXCEPT !["attach"] = @ + 1]
    BY <1>5 DEF RepeatDone, AttachAcceptDone, Becomes
  <2>3. Accepted'
    BY <1>0, <2>2 DEF Accepted
  <2>4. Something
    BY <1>0, <2>1, <2>3, Zenon
  <2> QED
    BY <2>4, Zenon
<1>6. CASE UNCHANGED air \/ AirTaken
  BY <1>6
<1>7. CASE TaskStep
  BY <1>1, <1>2, <1>3, <1>4, <1>5, <1>6, <1>7
     DEF TaskStep, AttachRequestDone, ResynchroniseDone, SecurityModeCompleteDone, AttachCompleteDone,
         Ended, Discarded
<1>8. CASE SurroundingsStep
  BY <1>6, <1>8
     DEF SurroundingsStep, Expired, UeAttachDone, Lost, HssDone, Detaching, UeAnswerDone, EsmAnswered, vars
<1> QED
  BY <1>7, <1>8
\* The context of a step was there before, but for that of an attach request.
LEMMA SameContext ==
  ASSUME Base, TaskStep \/ SurroundingsStep, HasContext', ~AttachRequestDone
  PROVE  HasContext /\ emm'.ue = emm.ue /\ (Accepted => Accepted')
<1>1. HasContext
  BY NoContextTyped DEF TaskStep, SurroundingsStep, HasContext, AuthInfoAnswerDone, AuthenticationCompleteDone,
         ResynchroniseDone, RepeatDone, SecurityModeCompleteDone, AttachAcceptDone, AttachCompleteDone,
         Ended, Discarded,
         Expired, UeAttachDone, Lost, HssDone, Detaching, UeAnswerDone, EsmAnswered, vars, Becomes
<1> QED
  BY <1>1, AcceptedKept

\* The messages of the ue_id of an attach request: itself.
LEMMA NothingOfNewUe ==
  ASSUME Base, AttachRequestDone
  PROVE  /\ \A j \in Indices(mailbox) : mailbox[j].ue = ue.id => j = 1
         /\ \A j \in Indices(air) : air[j].ue # ue.id
         /\ ue.id \notin esm /\ emm'.ue = ue.id
<1>1. Head(mailbox).type = "attach" /\ Taken /\ emm'.ue = ue.id
  BY DEF AttachRequestDone
<1>2. mailbox[1].type = "attach" /\ 1 \in Indices(mailbox)
  BY <1>1, TakenTail
<1> QED
  BY <1>1, <1>2 DEF Base, AttachFirst

\* A message that stays in the mailbox stays true.
LEMMA MailKept ==
  ASSUME Base, TaskStep \/ SurroundingsStep, NEW j \in Indices(mailbox), Taken => j # 1,
         NEW m, m = mailbox[j]
  PROVE  MailOK(m)'
<1> SUFFICES ASSUME HasContext', m.ue = emm'.ue
             PROVE  /\ m.type \in {"t_attach", "complete"} => Accepted'
                    /\ m.type \in EsmTypes =>
                         /\ "auth" \notin emm'.procs /\ "smc" \notin emm'.procs /\ emm'.ue \notin esm'
                         /\ "attach" \in emm'.procs => emm'.count["attach"] = 0
  BY DEF MailOK
<1>1. CASE AttachRequestDone
  <2>1. Taken
    BY <1>1 DEF AttachRequestDone
  <2> QED
    BY <1>1, <2>1, NothingOfNewUe
<1>2. CASE ~AttachRequestDone
  <2>1. HasContext /\ emm'.ue = emm.ue /\ (Accepted => Accepted')
    BY <1>2, SameContext
  <2>2. /\ m.type \in {"t_attach", "complete"} => Accepted
        /\ m.type \in EsmTypes =>
             /\ "auth" \notin emm.procs /\ "smc" \notin emm.procs /\ emm.ue \notin esm
             /\ "attach" \in emm.procs => emm.count["attach"] = 0
    <3>1. MailOK(m)
      BY DEF Base, EvidenceOK
    <3> QED
      BY <2>1, <3>1 DEF MailOK
  <2> SUFFICES ASSUME m.type \in EsmTypes
               PROVE  /\ "auth" \notin emm'.procs /\ "smc" \notin emm'.procs /\ emm'.ue \notin esm'
                      /\ "attach" \in emm'.procs => emm'.count["attach"] = 0
    BY <2>1, <2>2
  <2>3. /\ "auth" \notin emm.procs /\ "smc" \notin emm.procs /\ emm.ue \notin esm
        /\ "attach" \in emm.procs => emm.count["attach"] = 0
    BY <2>2
  <2>4. ~AuthInfoAnswerDone /\ ~AuthenticationCompleteDone /\ ~ResynchroniseDone /\ ~SecurityModeCompleteDone
    BY <2>3 DEF AuthInfoAnswerDone, AuthenticationCompleteDone, ResynchroniseDone, SecurityModeCompleteDone
  <2>5. \A p \in {"attach", "auth", "smc"} : ~RepeatDone(p)
    <3> SUFFICES ASSUME NEW p \in {"attach", "auth", "smc"}, RepeatDone(p)
                 PROVE  FALSE
      OBVIOUS
    <3>1. p = "attach" /\ "attach" \in emm.procs
      BY <2>3 DEF RepeatDone
    <3>2. Accepted
      BY <3>1, HeadEvidence DEF RepeatDone, TimeOutOf
    <3> QED
      BY <2>3, <3>1, <3>2 DEF Accepted
  <2>6. ~AttachAcceptDone
    <3> SUFFICES ASSUME AttachAcceptDone
                 PROVE  FALSE
      OBVIOUS
    <3>1. mailbox[1].type \in EsmTypes /\ mailbox[1].ue = emm.ue /\ 1 \in Indices(mailbox) /\ j # 1
      BY TakenTail DEF AttachAcceptDone, EsmTypes
    <3> QED
      BY <2>1, <3>1 DEF Base, EvidenceOK
  <2>7. CASE AttachCompleteDone
    BY <2>3, <2>7 DEF AttachCompleteDone, Becomes
  <2>8. CASE emm' = emm /\ esm' \subseteq esm
    BY <2>3, <2>8
  <2>9. CASE Ended
    BY <2>9, NoContextTyped DEF Ended, HasContext
  <2>10. Discarded \/ SurroundingsStep => emm' = emm /\ esm' \subseteq esm
    BY DEF SurroundingsStep, Discarded, Expired, UeAttachDone, Lost, HssDone, Detaching, UeAnswerDone,
           EsmAnswered, vars
  <2> QED
    BY <1>2, <2>4, <2>5, <2>6, <2>7, <2>8, <2>9, <2>10 DEF TaskStep
<1> QED
  BY <1>1, <1>2

\* The surroundings post no message that is not true.
LEMMA PostTrue ==
  ASSUME Base, SurroundingsStep
  PROVE  \/ UNCHANGED mailbox
         \/ \E m \in Messages :
              /\ mailbox' = Append(mailbox, m)
              /\ MailOK(m)'
              /\ HasContext' /\ m.ue = emm'.ue /\ m.type \in EsmTypes => emm.ue \in esm
<1> DEFINE Good(m) ==
      /\ mailbox' = Append(mailbox, m)
      /\ MailOK(m)'
      /\ HasContext' /\ m.ue = emm'.ue /\ m.type \in EsmTypes => emm.ue \in esm
<1>0. \A type, u : Posts(type, u) => \E m \in Messages : m.type = type /\ m.ue = u /\ mailbox' = Append(mailbox, m)
  BY DEF Posts
<1>1. ASSUME NEW t \in running, Expired(t)
      PROVE  \E m \in Messages : Good(m)
  <2>1. PICK m \in Messages : m.type = TimeOutOf[t.proc] /\ m.ue = t.ue /\ mailbox' = Append(mailbox, m)
    BY <1>0, <1>1 DEF Expired
  <2>2. t.proc \in Procs /\ (t.proc = "attach" => Accepted)
    BY ContextTyped DEF Timers, Base, EvidenceOK
  <2>3. m.type \notin EsmTypes \cup {"complete"} /\ (m.type = "t_attach" => Accepted)
    BY <2>1, <2>2 DEF TimeOutOf, Procs, EsmTypes
  <2>4. m.type = "t_attach" => Accepted'
    BY <1>1, <2>3 DEF Expired, Accepted
  <2> QED
    BY <2>1, <2>3, <2>4 DEF MailOK
<1>2. CASE UeAttachDone
  <2>1. PICK m \in Messages : mailbox' = Append(mailbox, m)
    BY <1>0, <1>2 DEF UeAttachDone
  <2>2. ~HasContext'
    BY <1>2, NoContextTyped DEF UeAttachDone, HasContext
  <2> QED
    BY <2>1, <2>2 DEF MailOK
<1>3. ASSUME NEW type \in UeTypes, UeAnswerDone(type)
      PROVE  \E m \in Messages : Good(m)
  <2>1. PICK m \in Messages : m.type = type /\ m.ue = ue.id /\ mailbox' = Append(mailbox, m)
    BY <1>0, <1>3 DEF UeAnswerDone
  <2>2. m.type \notin EsmTypes \cup {"t_attach"}
    BY <2>1 DEF UeTypes, EsmTypes
  <2>3. type = "complete" /\ HasContext /\ emm.ue = ue.id => Accepted
    <3>1. AirTaken /\ Head(air).ue = ue.id /\ AnswerOf(Head(air), type)
      BY <1>3 DEF UeAnswerDone
    <3>2. air[1].ue = ue.id /\ AnswerOf(air[1], type) /\ 1 \in Indices(air)
      BY <3>1, AirTail
    <3>3. type = "complete" => air[1].type = "accept"
      BY <3>2 DEF AnswerOf
    <3> QED
      BY <3>2, <3>3 DEF Base, EvidenceOK
  <2>4. emm' = emm
    BY <1>3 DEF UeAnswerDone
  <2> QED
    BY <2>1, <2>2, <2>3, <2>4 DEF MailOK, Accepted, HasContext
<1>4. CASE HssDone
  <2>1. \/ UNCHANGED mailbox
        \/ \E m \in Messages : m.type \in {"vector", "error"} /\ mailbox' = Append(mailbox, m)
    BY <1>0, <1>4 DEF HssDone
  <2> QED
    BY <2>1 DEF MailOK, EsmTypes
<1>5. CASE Detaching
  <2>1. PICK m \in Messages : m.type = "detach" /\ mailbox' = Append(mailbox, m)
    BY <1>0, <1>5 DEF Detaching
  <2> QED
    BY <2>1 DEF MailOK, EsmTypes
<1>6. ASSUME NEW u \in esm, EsmAnswered(u)
      PROVE  \E m \in Messages : Good(m)
  <2>1. PICK m \in Messages : m.type \in EsmTypes /\ m.ue = u /\ mailbox' = Append(mailbox, m)
    BY <1>0, <1>6 DEF EsmAnswered, EsmTypes
  <2>2. m.type \notin {"t_attach", "complete"}
    BY <2>1 DEF EsmTypes
  <2>3. HasContext /\ u = emm.ue =>
           /\ "auth" \notin emm.procs /\ "smc" \notin emm.procs
           /\ "attach" \in emm.procs => emm.count["attach"] = 0
    BY DEF Base, StagesOK
  <2>4. emm' = emm /\ u \notin esm'
    BY <1>6 DEF EsmAnswered
  <2> QED
    BY <2>1, <2>2, <2>3, <2>4 DEF MailOK, HasContext
<1>7. CASE UNCHANGED mailbox
  BY <1>7
<1> QED
  BY <1>1, <1>2, <1>3, <1>4, <1>5, <1>6, <1>7 DEF SurroundingsStep, Lost, vars
\* Where the messages of the mailbox are after a step: those that stay have an
\* index of their own before, and one may be posted.
LEMMA MailboxAfter ==
  ASSUME Base, TaskStep \/ SurroundingsStep
  PROVE  \A i \in Indices(mailbox') : \E m :
           /\ mailbox'[i] = m /\ MailOK(m)'
           /\ \/ Taken /\ i + 1 \in Indices(mailbox) /\ m = mailbox[i + 1]
              \/ ~Taken /\ i \in Indices(mailbox) /\ m = mailbox[i]
              \/ /\ ~Taken /\ i = Len(mailbox) + 1
                 /\ HasContext' /\ m.ue = emm'.ue /\ m.type \in EsmTypes => emm.ue \in esm
<1>1. CASE Taken
  <2> SUFFICES ASSUME NEW i \in Indices(mailbox')
               PROVE  \E m : /\ mailbox'[i] = m /\ MailOK(m)'
                             /\ i + 1 \in Indices(mailbox) /\ m = mailbox[i + 1]
    BY <1>1, Zenon
  <2>1. i + 1 \in Indices(mailbox) /\ i + 1 # 1 /\ mailbox'[i] = mailbox[i + 1]
    BY <1>1, TakenTail
  <2>2. PICK m : m = mailbox[i + 1]
    OBVIOUS
  <2>3. MailOK(m)'
    BY <2>1, <2>2, MailKept
  <2> QED
    BY <2>1, <2>2, <2>3
<1>2. CASE ~Taken
  <2>1. SurroundingsStep
    BY <1>2 DEF TaskStep, AttachRequestDone, AuthInfoAnswerDone, AuthenticationCompleteDone, ResynchroniseDone,
                RepeatDone, SecurityModeCompleteDone, AttachAcceptDone, AttachCompleteDone, Ended, Discarded
  <2>2. ASSUME NEW i \in Indices(mailbox), NEW m, m = mailbox[i]
        PROVE  MailOK(m)'
    BY <1>2, <2>2, MailKept
  <2>3. CASE UNCHANGED mailbox
    BY <1>2, <2>2, <2>3
  <2>4. ASSUME NEW n \in Messages, mailbox' = Append(mailbox, n), MailOK(n)',
               HasContext' /\ n.ue = emm'.ue /\ n.type \in EsmTypes => emm.ue \in esm
        PROVE  \A i \in Indices(mailbox') : \E m :
                 /\ mailbox'[i] = m /\ MailOK(m)'
                 /\ \/ i \in Indices(mailbox) /\ m = mailbox[i]
                    \/ /\ i = Len(mailbox) + 1
                       /\ HasContext' /\ m.ue = emm'.ue /\ m.type \in EsmTypes => emm.ue \in esm
    <3>1. \A i \in Indices(mailbox') : \/ i \in Indices(mailbox) /\ mailbox'[i] = mailbox[i]
                                       \/ i = Len(mailbox) + 1 /\ mailbox'[i] = n
      BY <2>4, Posted
    <3> QED
      BY <2>2, <2>4, <3>1
  <2> QED
    BY <1>2, <2>1, <2>3, <2>4, PostTrue
<1> QED
  BY <1>1, <1>2

LEMMA EvidenceKept ==
  ASSUME Base, TaskStep \/ SurroundingsStep
  PROVE  EvidenceOK'
<1>1. \A i \in Indices(mailbox') : MailOK(mailbox[i])'
  <2> SUFFICES ASSUME NEW i \in Indices(mailbox')
               PROVE  MailOK(mailbox[i])'
    OBVIOUS
  <2>1. PICK m : mailbox'[i] = m /\ MailOK(m)'
    BY MailboxAfter
  <2> QED
    BY <2>1 DEF MailOK
<1>2. ASSUME NEW i \in Indices(mailbox'), NEW j \in Indices(mailbox'),
             mailbox'[i].type \in EsmTypes, mailbox'[j].type \in EsmTypes,
             HasContext', mailbox'[i].ue = emm'.ue, mailbox'[j].ue = emm'.ue
      PROVE  i = j
  <2>0. PICK a : mailbox'[i] = a /\ \/ Taken /\ i + 1 \in Indices(mailbox) /\ a = mailbox[i + 1]
                                    \/ ~Taken /\ i \in Indices(mailbox) /\ a = mailbox[i]
                                    \/ ~Taken /\ i = Len(mailbox) + 1 /\ (a.ue = emm'.ue /\ a.type \in EsmTypes => emm.ue \in esm)
    BY <1>2, MailboxAfter
  <2>1. PICK b : mailbox'[j] = b /\ \/ Taken /\ j + 1 \in Indices(mailbox) /\ b = mailbox[j + 1]
                                    \/ ~Taken /\ j \in Indices(mailbox) /\ b = mailbox[j]
                                    \/ ~Taken /\ j = Len(mailbox) + 1 /\ (b.ue = emm'.ue /\ b.type \in EsmTypes => emm.ue \in esm)
    BY <1>2, MailboxAfter
  <2>2. CASE AttachRequestDone
    <3>1. Taken /\ i + 1 = 1 /\ 1 \in Indices(mailbox)
      BY <1>2, <2>0, <2>2, NothingOfNewUe, TakenTail DEF AttachRequestDone
    <3> QED
      BY <3>1, TakenTail
  <2>3. CASE ~AttachRequestDone
    <3>1. HasContext /\ emm'.ue = emm.ue
      BY <1>2, <2>3, SameContext
    <3>2. \A k, l \in Indices(mailbox) :
            /\ mailbox[k].type \in EsmTypes /\ mailbox[l].type \in EsmTypes
            /\ mailbox[k].ue = emm.ue /\ mailbox[l].ue = emm.ue
            => k = l
      BY <3>1 DEF Base, EvidenceOK
    <3>3. \A k \in Indices(mailbox) : mailbox[k].type \in EsmTypes /\ mailbox[k].ue = emm.ue => emm.ue \notin esm
      BY <3>1 DEF Base, EvidenceOK, MailOK
    <3>4. i \in Int /\ j \in Int
      BY <1>2 DEF Indices
    <3>5. CASE Taken
      BY <1>2, <2>0, <2>1, <3>1, <3>2, <3>4, <3>5
    <3>6. CASE ~Taken
      BY <1>2, <2>0, <2>1, <3>1, <3>2, <3>3, <3>6
    <3> QED
      BY <3>5, <3>6
  <2> QED
    BY <2>2, <2>3
<1>3. ASSUME NEW i \in Indices(air'), HasContext', air'[i].ue = emm'.ue, air'[i].type = "accept"
      PROVE  Accepted'
  <2>1. CASE AttachRequestDone
    <3>1. air' = air
      BY <2>1 DEF AttachRequestDone
    <3> QED
      BY <1>3, <2>1, <3>1, NothingOfNewUe
  <2>2. CASE ~AttachRequestDone
    <3>1. HasContext /\ emm'.ue = emm.ue /\ (Accepted => Accepted')
      BY <1>3, <2>2, SameContext
    <3>2. \A k \in Indices(air) : air[k].ue = emm.ue /\ air[k].type = "accept" => Accepted
      BY <3>1 DEF Base, EvidenceOK
    <3>3. CASE UNCHANGED air
      BY <1>3, <3>1, <3>2, <3>3
    <3>4. CASE AirTaken
      BY <1>3, <3>1, <3>2, <3>4, AirTail
    <3>5. ASSUME NEW type \in {"challenge", "smc", "accept"}, NEW good \in BOOLEAN,
                 Sent(type, good), type = "accept" => Accepted'
          PROVE  Accepted'
      <4>1. \/ i \in Indices(air) /\ air'[i] = air[i]
            \/ air'[i].type = type
        BY <1>3, <3>1, <3>5, SentOne
      <4> QED
        BY <1>3, <3>1, <3>2, <3>5, <4>1
    <3> QED
      BY <3>3, <3>4, <3>5, SentWhen
  <2> QED
    BY <2>1, <2>2
<1>4. ASSUME NEW t \in running', t.proc = "attach"
      PROVE  Accepted'
  <2>1. HasContext'
    <3>1. t.proc \in emm'.procs
      BY TimersOwnedKept DEF TimersOwned
    <3>2. ContextOK'
      BY ContextKept
    <3> QED
      BY <3>1, <3>2, NoContextTyped DEF ContextOK, HasContext
  <2>2. ~AttachRequestDone
    <3> SUFFICES ASSUME AttachRequestDone
                 PROVE  FALSE
      OBVIOUS
    <3>1. running = {} /\ \A r \in running' : r \in running \/ r.proc = "info"
      BY ContextTyped DEF AttachRequestDone, RunningTo
    <3> QED
      BY <1>4, <3>1
  <2>3. HasContext /\ (Accepted => Accepted')
    BY <2>1, <2>2, SameContext
  <2>4. t \in running \/ RepeatDone("attach") \/ AttachAcceptDone
    BY <1>4, <2>2
       DEF TaskStep, SurroundingsStep, AuthInfoAnswerDone, AuthenticationCompleteDone, ResynchroniseDone,
           RepeatDone, SecurityModeCompleteDone, AttachCompleteDone, Ended, Discarded, RunningTo,
           Expired, UeAttachDone, Lost, HssDone, Detaching, UeAnswerDone, EsmAnswered, vars
  <2>5. CASE RepeatDone("attach") \/ AttachAcceptDone
    <3>1. emm'.count = [emm.count EXCEPT !["attach"] = @ + 1]
      BY <2>5 DEF RepeatDone, AttachAcceptDone, Becomes
    <3>2. emm.count \in [Procs -> Nat] /\ "attach" \in Procs
      BY ContextTyped DEF Context, Procs
    <3> QED
      BY <3>1, <3>2 DEF Accepted
  <2>6. CASE t \in running
    BY <1>4, <2>3, <2>6 DEF Base, EvidenceOK
  <2> QED
    BY <2>4, <2>5, <2>6
<1> QED
  BY <1>1, <1>2, <1>3, <1>4 DEF EvidenceOK

LEMMA BaseAtFirst ==
  ASSUME Init
  PROVE  Base
<1>1. /\ emm = NoContext /\ running = {} /\ mailbox = <<>> /\ air = <<>> /\ s6a = <<>> /\ esm = {}
      /\ ue \in [id : {0}, synched : BOOLEAN, key : BOOLEAN]
  BY DEF Init
<1>2. /\ NoContext \in Context /\ NoContext.procs = {} /\ NoContext.ue = 0
      /\ NoContext.count = [p \in Procs |-> 0]
  BY NoContextTyped
<1>3. Indices(mailbox) = {} /\ Indices(air) = {} /\ 1 .. Len(s6a) = {}
  BY <1>1 DEF Indices
<1>4. TypeOK
  <2>1. \A p \in DOMAIN CounterMax : emm.count[p] <= CounterMax[p]
    <3>1. DOMAIN CounterMax = {"attach", "auth", "smc"} /\ \A p \in DOMAIN CounterMax : CounterMax[p] \in Nat
      BY CountersAssumption DEF CounterMax
    <3>2. \A p \in {"attach", "auth", "smc"} : emm.count[p] = 0
      BY <1>1, <1>2 DEF Procs
    <3> QED
      BY <3>1, <3>2
  <2>2. ue \in [id : 0 .. MaxAttach, synched : BOOLEAN, key : BOOLEAN]
    BY <1>1, CountersAssumption
  <2> QED
    BY <1>1, <1>2, <1>3, <2>1, <2>2 DEF TypeOK, Indices
<1>5. QueuesOK
  BY <1>1, FS_EmptySet DEF QueuesOK
<1>6. ContextOK /\ AttachFirst /\ TimersOwned /\ StagesOK /\ EvidenceOK
  BY <1>1, <1>2, <1>3 DEF ContextOK, AttachFirst, TimersOwned, StagesOK, EvidenceOK, HasContext
<1> QED
  BY <1>4, <1>5, <1>6 DEF Base

LEMMA BaseStep ==
  ASSUME Base, [Next]_vars
  PROVE  Base'
<1>1. TaskStep \/ SurroundingsStep
  BY Steps
<1> QED
  BY <1>1, TypesKept, QueuesKept, ContextKept, AttachFirstKept, TimersOwnedKept, StagesKept, EvidenceKept
     DEF Base

\* The types, the stages of an attach and its timers agree in every behaviour of the
\* attach procedure (nas_emm: Attach.c, Authentication.c, SecurityModeControl.c),
\* however often the code lets a UE resynchronise.
THEOREM BaseInvariance == Spec => []Base
<1> QED
  BY BaseAtFirst, BaseStep, PTL DEF Spec

-----------------------------------------------------------------------------
(* The state machine, when one resynchronisation is made *)

\* A response is no answer to a challenge that awaits new vectors.
LEMMA ResponseInTime ==
  ASSUME IInv, AuthenticationCompleteDone
  PROVE  "info" \notin emm.procs
<1>1. /\ Taken /\ HasContext /\ mailbox[1].type = "response" /\ mailbox[1].ue = emm.ue
      /\ 1 \in Indices(mailbox) /\ "auth" \in emm.procs
  BY TakenTail DEF AuthenticationCompleteDone, IInv
<1>2. ~Early /\ (OneVector => emm.good)
  BY <1>1 DEF IInv, VectorsOK, AuthTypes
<1>3. emm.synch \in Nat
  BY ContextTyped DEF IInv, Context
<1>4. "info" \in emm.procs => OneVector /\ emm.synch > 0
  BY <1>1, <1>2, <1>3 DEF Early, OneVector
<1>5. OneVector /\ emm.synch > 0 => ~emm.good
  BY <1>1 DEF IInv, VectorsOK
<1> QED
  BY <1>2, <1>4, <1>5, Zenon

\* The resynchronisation follows a challenge with a vector that the UE refuses.
LEMMA ResynchronisedOnce ==
  ASSUME IInv, OneResynchronisation, ResynchroniseDone
  PROVE  emm.synch = 0 /\ ~emm.good /\ emm.fsm = "common"
<1>1. /\ Taken /\ HasContext /\ mailbox[1].type = "synch" /\ mailbox[1].ue = emm.ue
      /\ 1 \in Indices(mailbox) /\ "auth" \in emm.procs /\ "info" \notin emm.procs
  BY TakenTail DEF ResynchroniseDone, IInv
<1>2. emm.synch \in Nat /\ emm.synch + 1 < 2
  BY ContextTyped DEF IInv, Context, OneResynchronisation, ResynchroniseDone
<1>3. emm.synch = 0
  BY <1>2
<1>4. OneVector /\ (OneVector => ~emm.good)
  BY <1>1, <1>3 DEF IInv, VectorsOK, OneVector
<1>5. emm.fsm = "common"
  BY <1>1 DEF IInv, StateOK, Early
<1> QED
  BY <1>3, <1>4, <1>5, Zenon

LEMMA StateKept ==
  ASSUME IInv, OneResynchronisation, TaskStep \/ SurroundingsStep
  PROVE  StateOK'
<1> USE DEF TaskStep, SurroundingsStep
<1>0. /\ emm.count \in [Procs -> Nat] /\ emm.prev \in [Commons -> States] /\ emm.procs \subseteq Procs
      /\ emm.synch \in Nat /\ Procs = {"attach", "auth", "smc", "info"} /\ Commons = {"auth", "smc"}
      /\ Base
  BY ContextTyped DEF IInv, Context, Procs, Commons
<1>1. HasContext =>
        /\ emm.prev["auth"] = "deregistered" /\ emm.prev["smc"] = "deregistered"
        /\ emm.synch \in {0, 1}
        /\ "info" \in emm.procs => "auth" \in emm.procs
        /\ "auth" \in emm.procs => (Early => emm.fsm = "deregistered") /\ (~Early => emm.fsm = "common")
        /\ "smc" \in emm.procs => emm.fsm = "common"
        /\ emm.procs = {"attach"} => /\ emm.count["attach"] > 0 => emm.fsm = "common"
                                     /\ ~(emm.count["attach"] > 0) => emm.fsm = "deregistered"
        /\ "attach" \notin emm.procs => emm.procs = {} /\ emm.fsm = "registered"
  BY <1>0 DEF IInv, StateOK
<1>2. HasContext =>
        /\ "auth" \in emm.procs => "smc" \notin emm.procs
        /\ "auth" \in emm.procs \/ "smc" \in emm.procs =>
             "attach" \in emm.procs /\ emm.count["attach"] = 0
  BY DEF IInv, Base, StagesOK
<1>3. SUFFICES ASSUME HasContext'
               PROVE  /\ emm'.prev["auth"] = "deregistered" /\ emm'.prev["smc"] = "deregistered"
                      /\ emm'.synch \in {0, 1}
                      /\ "info" \in emm'.procs => "auth" \in emm'.procs
                      /\ "auth" \in emm'.procs => (Early' => emm'.fsm = "deregistered") /\ (~Early' => emm'.fsm = "common")
                      /\ "smc" \in emm'.procs => emm'.fsm = "common"
                      /\ emm'.procs = {"attach"} => /\ emm'.count["attach"] > 0 => emm'.fsm = "common"
                                                    /\ ~(emm'.count["attach"] > 0) => emm'.fsm = "deregistered"
                      /\ "attach" \notin emm'.procs => emm'.procs = {} /\ emm'.fsm = "registered"
  BY <1>0 DEF StateOK
<1>4. CASE AttachRequestDone
  BY <1>0, <1>4 DEF AttachRequestDone, Early
<1>5. CASE AuthInfoAnswerDone
  <2>1. PreviousOfChallenge(emm) = "deregistered"
    BY <1>1, <1>5 DEF AuthInfoAnswerDone, PreviousOfChallenge
  <2>2. emm'.prev["auth"] = "deregistered" /\ emm'.prev["smc"] = "deregistered"
    BY <1>0, <1>1, <1>5, <2>1 DEF AuthInfoAnswerDone, Becomes
  <2> QED
    BY <1>0, <1>1, <1>2, <1>5, <2>2 DEF AuthInfoAnswerDone, Becomes, Early
<1>6. CASE AuthenticationCompleteDone
  <2>1. "info" \notin emm.procs
    BY <1>6, ResponseInTime
  <2>2. emm'.prev["auth"] = "deregistered" /\ emm'.prev["smc"] = "deregistered"
    BY <1>0, <1>1, <1>6 DEF AuthenticationCompleteDone, Becomes
  <2> QED
    BY <1>0, <1>1, <1>2, <1>6, <2>1, <2>2 DEF AuthenticationCompleteDone, Becomes, Early
<1>7. CASE ResynchroniseDone
  <2>1. emm.synch = 0 /\ emm.fsm = "common"
    BY <1>7, ResynchronisedOnce
  <2> QED
    BY <1>0, <1>1, <1>2, <1>7, <2>1 DEF ResynchroniseDone, Becomes, Early
<1>8. ASSUME NEW p \in {"attach", "auth", "smc"}, RepeatDone(p)
      PROVE  /\ HasContext /\ emm'.prev = emm.prev /\ emm'.synch = emm.synch /\ emm'.procs = emm.procs /\ emm'.fsm = emm.fsm
             /\ emm'.procs = {"attach"} => emm.count["attach"] > 0 /\ emm'.count["attach"] > 0
  <2>1. /\ HasContext /\ emm'.prev = emm.prev /\ emm'.synch = emm.synch /\ emm'.procs = emm.procs /\ emm'.fsm = emm.fsm
        /\ emm'.count = [emm.count EXCEPT ![p] = @ + 1] /\ p \in emm.procs
    BY <1>8 DEF RepeatDone, Becomes
  <2>2. emm'.procs = {"attach"} => p = "attach"
    BY <2>1
  <2>3. p = "attach" => Accepted
    BY <1>0, <1>8, HeadEvidence DEF RepeatDone, TimeOutOf
  <2>4. p = "attach" => emm.count["attach"] > 0 /\ emm'.count["attach"] > 0
    BY <1>0, <2>1, <2>3 DEF Accepted
  <2> QED
    BY <2>1, <2>2, <2>4
<1>9. CASE \E p \in {"attach", "auth", "smc"} : RepeatDone(p)
  BY <1>0, <1>1, <1>8, <1>9 DEF Early
<1>10. CASE SecurityModeCompleteDone
  <2>1. emm'.procs = {"attach"}
    BY <1>0, <1>1, <1>2, <1>10 DEF SecurityModeCompleteDone, Becomes
  <2> QED
    BY <1>0, <1>1, <1>2, <1>10, <2>1 DEF SecurityModeCompleteDone, Becomes
<1>11. CASE AttachAcceptDone
  <2>1. "auth" \notin emm.procs /\ "smc" \notin emm.procs
    BY <1>0, <1>11, HeadEvidence DEF AttachAcceptDone, EsmTypes
  <2>2. emm.procs = {"attach"}
    BY <1>0, <1>1, <1>11, <2>1 DEF AttachAcceptDone
  <2>3. emm'.count["attach"] > 0
    BY <1>0, <1>11 DEF AttachAcceptDone, Becomes
  <2> QED
    BY <1>0, <1>1, <1>11, <2>2, <2>3 DEF AttachAcceptDone, Becomes
<1>12. CASE AttachCompleteDone
  <2>1. Accepted
    BY <1>0, <1>12, HeadEvidence DEF AttachCompleteDone
  <2>2. emm'.procs = {}
    BY <1>0, <1>1, <1>2, <1>12, <2>1 DEF AttachCompleteDone, Becomes, Accepted
  <2> QED
    BY <1>0, <1>1, <1>12, <2>2 DEF AttachCompleteDone, Becomes
<1>13. CASE Ended
  BY <1>3, <1>13, NoContextTyped DEF Ended, HasContext
<1>14. CASE emm' = emm
  BY <1>1, <1>3, <1>14 DEF HasContext, Early
<1>15. Discarded \/ SurroundingsStep => emm' = emm
  BY DEF Discarded, Expired, UeAttachDone, Lost, HssDone, Detaching, UeAnswerDone, EsmAnswered, vars
<1> QED
  BY <1>4, <1>5, <1>6, <1>7, <1>9, <1>10, <1>11, <1>12, <1>13, <1>14, <1>15

\* The vector of a context is replaced only when no challenge is out, or more
\* than one was made already.
LEMMA VectorKept ==
  ASSUME IInv, OneResynchronisation, TaskStep \/ SurroundingsStep, HasContext', ~AttachRequestDone
  PROVE  /\ Early' => Early
         /\ OneVector' => \/ OneVector /\ emm'.good = emm.good
                          \/ Early /\ AuthInfoAnswerDone
         /\ OneVector' /\ emm'.synch > 0 => ~emm'.good
<1> USE DEF TaskStep, SurroundingsStep
<1>0. HasContext /\ emm.synch \in Nat /\ Base /\ emm.good \in BOOLEAN
  BY SameContext, ContextTyped DEF IInv, Context
<1>1. OneVector /\ emm.synch > 0 => ~emm.good
  BY <1>0 DEF IInv, VectorsOK
<1>2. CASE AuthInfoAnswerDone
  <2>1. "info" \notin emm'.procs /\ emm'.synch = emm.synch /\ "info" \in emm.procs
    BY <1>2 DEF AuthInfoAnswerDone, Becomes
  <2>2. ~Early' /\ (OneVector' => emm'.synch = 0)
    BY <2>1 DEF Early, OneVector
  <2>3. OneVector' => Early
    BY <2>1, <2>2 DEF Early
  <2>4. ~(OneVector' /\ emm'.synch > 0)
    BY <2>2
  <2> QED
    BY <1>2, <2>2, <2>3, <2>4
<1>3. CASE ResynchroniseDone
  <2>1. emm.synch = 0 /\ ~emm.good
    BY <1>3, ResynchronisedOnce
  <2>2. emm'.synch = 1 /\ emm'.good = emm.good /\ "auth" \in emm.procs
    BY <1>3, <2>1 DEF ResynchroniseDone, Becomes
  <2>3. OneVector /\ ~Early'
    BY <2>1, <2>2 DEF OneVector, Early
  <2> QED
    BY <2>1, <2>2, <2>3
<1>4. CASE /\ emm'.good = emm.good /\ emm'.synch = emm.synch
           /\ "auth" \in emm'.procs => "auth" \in emm.procs
           /\ "info" \in emm'.procs => "info" \in emm.procs
  BY <1>0, <1>1, <1>4 DEF Early, OneVector
<1>5. CASE Ended
  BY <1>5, NoContextTyped DEF Ended, HasContext
<1>6. CASE TaskStep
  <2>1. CASE AuthenticationCompleteDone
    BY <1>4, <2>1 DEF AuthenticationCompleteDone, Becomes
  <2>2. CASE \E p \in {"attach", "auth", "smc"} : RepeatDone(p)
    BY <1>4, <2>2 DEF RepeatDone, Becomes
  <2>3. CASE SecurityModeCompleteDone
    BY <1>4, <2>3 DEF SecurityModeCompleteDone, Becomes
  <2>4. CASE AttachAcceptDone
    BY <1>4, <2>4 DEF AttachAcceptDone, Becomes
  <2>5. CASE AttachCompleteDone
    BY <1>4, <2>5 DEF AttachCompleteDone, Becomes
  <2>6. CASE Discarded
    BY <1>4, <2>6 DEF Discarded
  <2> QED
    BY <1>2, <1>3, <1>5, <1>6, <2>1, <2>2, <2>3, <2>4, <2>5, <2>6
<1>7. CASE SurroundingsStep
  BY <1>4, <1>7
     DEF Expired, UeAttachDone, Lost, HssDone, Detaching, UeAnswerDone, EsmAnswered, vars
<1> QED
  BY <1>6, <1>7
\* What VectorsOK says of one message in the mailbox.
AnswerOK(m) ==
  HasContext /\ m.ue = emm.ue =>
    /\ m.type \in AuthTypes => ~Early
    /\ m.type = "response" => (OneVector => emm.good)
    /\ m.type = "synch" => (OneVector => ~emm.good)

LEMMA AnswerKept ==
  ASSUME IInv, OneResynchronisation, TaskStep \/ SurroundingsStep,
         NEW j \in Indices(mailbox), Taken => j # 1, NEW m, m = mailbox[j]
  PROVE  AnswerOK(m)'
<1> SUFFICES ASSUME HasContext', m.ue = emm'.ue
             PROVE  /\ m.type \in AuthTypes => ~Early'
                    /\ m.type = "response" => (OneVector' => emm'.good)
                    /\ m.type = "synch" => (OneVector' => ~emm'.good)
  BY DEF AnswerOK
<1>0. Base
  BY DEF IInv
<1>1. CASE AttachRequestDone
  <2>1. Taken
    BY <1>1 DEF AttachRequestDone
  <2> QED
    BY <1>0, <1>1, <2>1, NothingOfNewUe
<1>2. CASE ~AttachRequestDone
  <2>1. HasContext /\ emm'.ue = emm.ue
    BY <1>0, <1>2, SameContext
  <2>2. /\ m.type \in AuthTypes => ~Early
        /\ m.type = "response" => (OneVector => emm.good)
        /\ m.type = "synch" => (OneVector => ~emm.good)
    BY <2>1 DEF IInv, VectorsOK
  <2>3. /\ Early' => Early
        /\ OneVector' => \/ OneVector /\ emm'.good = emm.good
                         \/ Early /\ AuthInfoAnswerDone
    BY <1>2, VectorKept
  <2>4. m.type \in {"response", "synch"} => m.type \in AuthTypes
    BY DEF AuthTypes
  <2>5. m.type = "response" \/ m.type = "synch" => ~Early
    BY <2>2, <2>4
  <2> QED
    BY <2>2, <2>3, <2>5, Zenon
<1> QED
  BY <1>1, <1>2

LEMMA PostAnswers ==
  ASSUME IInv, OneResynchronisation, SurroundingsStep
  PROVE  \/ UNCHANGED mailbox
         \/ \E m \in Messages : mailbox' = Append(mailbox, m) /\ AnswerOK(m)'
<1> DEFINE Good(m) == mailbox' = Append(mailbox, m) /\ AnswerOK(m)'
<1>0. /\ Base
      /\ \A type, u : Posts(type, u) => \E m \in Messages : m.type = type /\ m.ue = u /\ mailbox' = Append(mailbox, m)
  BY DEF Posts, IInv
<1>1. ASSUME NEW t \in running, Expired(t)
      PROVE  \E m \in Messages : Good(m)
  <2>1. PICK m \in Messages : m.type = TimeOutOf[t.proc] /\ m.ue = t.ue /\ mailbox' = Append(mailbox, m)
    BY <1>0, <1>1 DEF Expired
  <2>2. t.proc \in Procs /\ (t.proc = "auth" /\ HasContext => ~Early)
    BY <1>0, ContextTyped DEF Timers, IInv, VectorsOK
  <2>3. m.type \notin {"response", "synch"} /\ (m.type \in AuthTypes => t.proc = "auth")
    BY <2>1, <2>2 DEF TimeOutOf, Procs, AuthTypes
  <2>4. HasContext' => HasContext
    BY <1>1 DEF Expired, HasContext
  <2>5. Early' => Early
    BY <1>1 DEF Expired, Early
  <2> QED
    BY <2>1, <2>2, <2>3, <2>4, <2>5 DEF AnswerOK
<1>2. CASE UeAttachDone
  <2>1. PICK m \in Messages : mailbox' = Append(mailbox, m)
    BY <1>0, <1>2 DEF UeAttachDone
  <2>2. ~HasContext'
    BY <1>2, NoContextTyped DEF UeAttachDone, HasContext
  <2> QED
    BY <2>1, <2>2 DEF AnswerOK
<1>3. ASSUME NEW type \in UeTypes, UeAnswerDone(type)
      PROVE  \E m \in Messages : Good(m)
  <2>1. PICK m \in Messages : m.type = type /\ m.ue = ue.id /\ mailbox' = Append(mailbox, m)
    BY <1>0, <1>3 DEF UeAnswerDone
  <2>2. PICK a : a = air[1]
    OBVIOUS
  <2>3. a.ue = ue.id /\ AnswerOf(a, type) /\ 1 \in Indices(air)
    BY <1>0, <1>3, <2>2, AirTail DEF UeAnswerDone
  <2>4. type \in AuthTypes => a.type = "challenge"
    BY <2>3 DEF AnswerOf, AuthTypes
  <2>5. (type = "response" => a.good) /\ (type = "synch" => ~a.good)
    BY <2>3 DEF AnswerOf
  <2>6. HasContext /\ emm.ue = ue.id /\ a.type = "challenge" => ~Early /\ (OneVector => a.good = emm.good)
    BY <2>2, <2>3 DEF IInv, VectorsOK
  <2>7. HasContext /\ emm.ue = ue.id =>
          /\ type \in AuthTypes => ~Early
          /\ type = "response" => (OneVector => emm.good)
          /\ type = "synch" => (OneVector => ~emm.good)
    <3>1. "response" \in AuthTypes /\ "synch" \in AuthTypes
      BY DEF AuthTypes
    <3> QED
      BY <2>4, <2>5, <2>6, <3>1, Zenon
  <2>8. emm' = emm
    BY <1>3 DEF UeAnswerDone
  <2>9. AnswerOK(m)'
    BY <2>1, <2>7, <2>8 DEF AnswerOK, HasContext, Early, OneVector
  <2> QED
    BY <2>1, <2>9
<1>4. CASE HssDone
  <2>1. \/ UNCHANGED mailbox
        \/ \E m \in Messages : m.type \in {"vector", "error"} /\ mailbox' = Append(mailbox, m)
    BY <1>0, <1>4 DEF HssDone
  <2> QED
    BY <2>1 DEF AnswerOK, AuthTypes
<1>5. CASE Detaching
  <2>1. PICK m \in Messages : m.type = "detach" /\ mailbox' = Append(mailbox, m)
    BY <1>0, <1>5 DEF Detaching
  <2> QED
    BY <2>1 DEF AnswerOK, AuthTypes
<1>6. ASSUME NEW u \in esm, EsmAnswered(u)
      PROVE  \E m \in Messages : Good(m)
  <2>1. PICK m \in Messages : m.type \in EsmTypes /\ m.ue = u /\ mailbox' = Append(mailbox, m)
    BY <1>0, <1>6 DEF EsmAnswered, EsmTypes
  <2>2. m.type \notin AuthTypes /\ m.type # "response" /\ m.type # "synch"
    BY <2>1 DEF EsmTypes, AuthTypes
  <2> QED
    BY <2>1, <2>2 DEF AnswerOK
<1>7. CASE UNCHANGED mailbox
  BY <1>7
<1> QED
  BY <1>1, <1>2, <1>3, <1>4, <1>5, <1>6, <1>7 DEF SurroundingsStep, Lost, vars

LEMMA VectorsKept ==
  ASSUME IInv, OneResynchronisation, TaskStep \/ SurroundingsStep
  PROVE  VectorsOK'
<1> SUFFICES ASSUME HasContext'
             PROVE  VectorsOK'
  BY DEF VectorsOK
<1>0. Base
  BY DEF IInv
<1>1. OneVector' /\ emm'.synch > 0 => ~emm'.good
  <2>1. CASE AttachRequestDone
    BY <2>1 DEF AttachRequestDone
  <2> QED
    BY <2>1, VectorKept
<1>2. ASSUME NEW i \in Indices(air'), air'[i].ue = emm'.ue, air'[i].type = "challenge"
      PROVE  ~Early' /\ (OneVector' => air'[i].good = emm'.good)
  <2>1. CASE AttachRequestDone
    <3>1. air' = air
      BY <2>1 DEF AttachRequestDone
    <3> QED
      BY <1>0, <1>2, <2>1, <3>1, NothingOfNewUe
  <2>2. CASE ~AttachRequestDone
    <3>1. HasContext /\ emm'.ue = emm.ue
      BY <1>0, <2>2, SameContext
    <3>2. \A k \in Indices(air) : air[k].ue = emm.ue /\ air[k].type = "challenge" =>
            ~Early /\ (OneVector => air[k].good = emm.good)
      BY <3>1 DEF IInv, VectorsOK
    <3>3. /\ Early' => Early
          /\ OneVector' => \/ OneVector /\ emm'.good = emm.good
                           \/ Early /\ AuthInfoAnswerDone
      BY <2>2, VectorKept
    <3>4. ASSUME NEW k \in Indices(air), air'[i] = air[k]
          PROVE  ~Early' /\ (OneVector' => air'[i].good = emm'.good)
      <4>1. ~Early /\ (OneVector => air'[i].good = emm.good)
        BY <1>2, <3>1, <3>2, <3>4
      <4> QED
        BY <3>3, <4>1, Zenon
    <3>5. CASE UNCHANGED air
      BY <1>2, <3>4, <3>5
    <3>6. CASE AirTaken
      BY <1>0, <1>2, <3>4, <3>6, AirTail
    <3>7. ASSUME NEW type \in {"challenge", "smc", "accept"}, NEW good \in BOOLEAN, Sent(type, good),
                 type = "challenge" => good = emm'.good /\ (AuthInfoAnswerDone \/ RepeatDone("auth"))
          PROVE  ~Early' /\ (OneVector' => air'[i].good = emm'.good)
      <4>1. \/ i \in Indices(air) /\ air'[i] = air[i]
            \/ air'[i].type = type /\ air'[i].good = good
        BY <1>0, <1>2, <3>1, <3>7, SentOne
      <4>2. CASE i \in Indices(air) /\ air'[i] = air[i]
        BY <3>4, <4>2
      <4>3. CASE air'[i].type = type /\ air'[i].good = good
        <5>1. air'[i].good = emm'.good /\ (AuthInfoAnswerDone \/ RepeatDone("auth"))
          BY <1>2, <3>7, <4>3
        <5>2. AuthInfoAnswerDone => ~Early'
          BY DEF AuthInfoAnswerDone, Becomes, Early
        <5>3. RepeatDone("auth") => ~Early
          <6> SUFFICES ASSUME RepeatDone("auth")
                       PROVE  ~Early
            OBVIOUS
          <6>1. mailbox[1].type = "t_auth" /\ mailbox[1].ue = emm.ue /\ 1 \in Indices(mailbox)
            BY <1>0, TakenTail DEF RepeatDone, TimeOutOf
          <6> QED
            BY <3>1, <6>1 DEF IInv, VectorsOK, AuthTypes
        <5> QED
          BY <3>3, <5>1, <5>2, <5>3, Zenon
      <4> QED
        BY <4>1, <4>2, <4>3
    <3> QED
      BY <1>0, <3>5, <3>6, <3>7, SentWhen
  <2> QED
    BY <2>1, <2>2
<1>3. ASSUME NEW i \in Indices(mailbox'), mailbox'[i].ue = emm'.ue
      PROVE  /\ mailbox'[i].type \in AuthTypes => ~Early'
             /\ mailbox'[i].type = "response" => (OneVector' => emm'.good)
             /\ mailbox'[i].type = "synch" => (OneVector' => ~emm'.good)
  <2>1. \E m : mailbox'[i] = m /\ AnswerOK(m)'
    <3>1. CASE Taken
      <4>1. PICK m : m = mailbox[i + 1]
        OBVIOUS
      <4>2. i + 1 \in Indices(mailbox) /\ i + 1 # 1 /\ mailbox'[i] = m
        BY <1>0, <1>3, <3>1, <4>1, TakenTail
      <4>3. AnswerOK(m)'
        BY <4>1, <4>2, AnswerKept
      <4> QED
        BY <4>2, <4>3
    <3>2. CASE ~Taken
      <4>1. SurroundingsStep
        BY <3>2 DEF TaskStep, AttachRequestDone, AuthInfoAnswerDone, AuthenticationCompleteDone, ResynchroniseDone,
                    RepeatDone, SecurityModeCompleteDone, AttachAcceptDone, AttachCompleteDone, Ended, Discarded
      <4>2. ASSUME NEW k \in Indices(mailbox), NEW m, m = mailbox[k]
            PROVE  AnswerOK(m)'
        BY <3>2, <4>2, AnswerKept
      <4>3. CASE UNCHANGED mailbox
        BY <1>3, <4>2, <4>3
      <4>4. ASSUME NEW n \in Messages, mailbox' = Append(mailbox, n), AnswerOK(n)'
            PROVE  \E m : mailbox'[i] = m /\ AnswerOK(m)'
        <5>1. \/ i \in Indices(mailbox) /\ mailbox'[i] = mailbox[i]
              \/ mailbox'[i] = n
          BY <1>0, <1>3, <4>4, Posted
        <5> QED
          BY <4>2, <4>4, <5>1
      <4> QED
        BY <4>1, <4>3, <4>4, PostAnswers
    <3> QED
      BY <3>1, <3>2
  <2>2. PICK m : mailbox'[i] = m /\ AnswerOK(m)'
    BY <2>1
  <2> QED
    BY <1>3, <2>2 DEF AnswerOK
<1>4. ASSUME NEW t \in running', t.proc = "auth"
      PROVE  ~Early'
  <2>1. ~AttachRequestDone
    <3> SUFFICES ASSUME AttachRequestDone
                 PROVE  FALSE
      OBVIOUS
    <3>1. running = {} /\ \A r \in running' : r \in running \/ r.proc = "info"
      BY <1>0, ContextTyped DEF AttachRequestDone, RunningTo
    <3> QED
      BY <1>4, <3>1
  <2>2. HasContext /\ (Early' => Early)
    BY <1>0, <2>1, SameContext, VectorKept
  <2>3. t \in running \/ RepeatDone("auth") \/ AuthInfoAnswerDone
    BY <1>4, <2>1
       DEF TaskStep, SurroundingsStep, AuthenticationCompleteDone, ResynchroniseDone, AttachAcceptDone,
           RepeatDone, SecurityModeCompleteDone, AttachCompleteDone, Ended, Discarded, RunningTo,
           Expired, UeAttachDone, Lost, HssDone, Detaching, UeAnswerDone, EsmAnswered, vars
  <2>4. CASE t \in running
    BY <1>4, <2>2, <2>4 DEF IInv, VectorsOK
  <2>5. CASE RepeatDone("auth")
    <3>1. mailbox[1].type = "t_auth" /\ mailbox[1].ue = emm.ue /\ 1 \in Indices(mailbox)
      BY <1>0, <2>5, TakenTail DEF RepeatDone, TimeOutOf
    <3> QED
      BY <2>2, <3>1 DEF IInv, VectorsOK, AuthTypes
  <2>6. CASE AuthInfoAnswerDone
    BY <2>6 DEF AuthInfoAnswerDone, Becomes, Early
  <2> QED
    BY <2>3, <2>4, <2>5, <2>6
<1> QED
  BY <1>1, <1>2, <1>3, <1>4 DEF VectorsOK
-----------------------------------------------------------------------------
(* What follows *)

\* The fields have their types, and no handler of T3450 or T3460 counts a request
\* above the limit of its procedure.
THEOREM TypeCorrect == Spec => []TypeOK
<1>1. Base => TypeOK
  BY DEF Base
<1> QED
  BY <1>1, BaseInvariance, PTL

\* Every procedure that nas_emm_procedures.c frees has its timer stopped before:
\* a timer that runs belongs to a procedure of the present context.
THEOREM EveryTimerOwned == Spec => []TimersOwned
<1>1. Base => TimersOwned
  BY DEF Base
<1> QED
  BY <1>1, BaseInvariance, PTL

\* With the one resynchronisation that emm_proc_authentication_failure makes, the
\* state machine, the stages and the vectors agree.
THEOREM Invariance == ASSUME OneResynchronisation PROVE Spec => []IInv
<1>1. Init => IInv
  <2> SUFFICES ASSUME Init
               PROVE  IInv
    OBVIOUS
  <2>1. Base
    BY BaseAtFirst
  <2>2. ~HasContext
    BY NoContextTyped DEF Init, HasContext
  <2> QED
    BY <2>1, <2>2 DEF IInv, StateOK, VectorsOK
<1>2. IInv /\ [Next]_vars => IInv'
  <2> SUFFICES ASSUME IInv, [Next]_vars
               PROVE  IInv'
    OBVIOUS
  <2>1. Base
    BY DEF IInv
  <2>2. TaskStep \/ SurroundingsStep
    BY <2>1, Steps
  <2>3. Base'
    BY <2>1, BaseStep
  <2>4. StateOK' /\ VectorsOK'
    BY <2>2, StateKept, VectorsKept
  <2> QED
    BY <2>3, <2>4 DEF IInv
<1> QED
  BY <1>1, <1>2, PTL DEF Spec

\* The state machine of a context (emm_fsm.c, EmmCommonProcedureInitiated.c) is
\* in COMMON-PROCEDURE-INITIATED exactly while the UE has something to answer, so that
\* no confirmation, rejection or abort of a procedure is discarded.
THEOREM StateMatches == ASSUME OneResynchronisation PROVE Spec => []FsmMatches
<1>1. IInv => FsmMatches
  <2> SUFFICES ASSUME IInv, emm # NoContext
               PROVE  /\ emm.fsm = "common" <=> \/ Challenged \/ "smc" \in emm.procs
                                                \/ "attach" \in emm.procs /\ emm.count["attach"] > 0
                      /\ emm.fsm = "registered" <=> emm.procs = {}
                      /\ "info" \in emm.procs => /\ "auth" \in emm.procs
                                                 /\ emm.fsm = "common" <=> emm.synch > 0
    BY DEF FsmMatches
  <2>1. /\ HasContext /\ emm.procs \subseteq {"attach", "auth", "smc", "info"} /\ emm.synch \in Nat
        /\ emm.count["attach"] \in Nat
    BY ContextTyped DEF IInv, Context, Procs
  <2>2. /\ "info" \in emm.procs => "auth" \in emm.procs
        /\ "auth" \in emm.procs => (Early => emm.fsm = "deregistered") /\ (~Early => emm.fsm = "common")
        /\ "smc" \in emm.procs => emm.fsm = "common"
        /\ emm.procs = {"attach"} => /\ emm.count["attach"] > 0 => emm.fsm = "common"
                                     /\ ~(emm.count["attach"] > 0) => emm.fsm = "deregistered"
        /\ "attach" \notin emm.procs => emm.procs = {} /\ emm.fsm = "registered"
    BY <2>1 DEF IInv, StateOK
  <2>3. /\ "auth" \in emm.procs => "smc" \notin emm.procs
        /\ "auth" \in emm.procs => emm.count["attach"] = 0
    BY <2>1 DEF IInv, Base, StagesOK
  <2>4. CASE "auth" \in emm.procs
    BY <2>1, <2>2, <2>3, <2>4 DEF Challenged, Early
  <2>5. CASE "auth" \notin emm.procs /\ "smc" \in emm.procs
    BY <2>1, <2>2, <2>5 DEF Challenged
  <2>6. CASE "auth" \notin emm.procs /\ "smc" \notin emm.procs
    <3>1. emm.procs = {"attach"} \/ emm.procs = {}
      BY <2>1, <2>2, <2>6
    <3> QED
      BY <2>1, <2>2, <2>6, <3>1 DEF Challenged
  <2> QED
    BY <2>4, <2>5, <2>6
<1> QED
  BY <1>1, Invariance, PTL
==============================================================================
