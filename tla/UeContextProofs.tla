---------------------------- MODULE UeContextProofs ----------------------------
(***************************************************************************)
(* Proofs about UeContext for any number of eNBs, of connections of the UE   *)
(* and of eNBs that go down.                                                *)
(***************************************************************************)
EXTENDS UeContext, FiniteSetTheorems, TLAPS

Causes == {"invalid", "told", "sctp", "implicit"}
NamesOne == {"initial", "release", "dereg", "deregNew"}
NamesAny == {"complete", "rabResponse", "cnf", "icsResponse", "icsFailure", "dl", "dlEnd",
             "cancel", "detach"}

AppMsgs == [type : NamesOne, conn : Conns] \cup [type : NamesAny, conn : Conns \cup {None}]
Commands == [type : {"command"}, conn : Conns \cup {None}, at : Enbs \cup {None}, cause : Causes]
S1apMsgs == [type : {"notify", "reject"}, conn : Conns] \cup Commands
              \cup [type : {"ics", "dl"}, conn : Conns \cup {None}]
NasMsgs == [type : {"initial", "detach", "implicit"}, conn : Conns \cup {None}]

\* The types TypeOK leaves open.
QueuesOK == app \in Seq(AppMsgs) /\ s1ap \in Seq(S1apMsgs) /\ nas \in Seq(NasMsgs)

InApp(type) == \E m \in Messages(app) : m.type = type
InAppOf(type, c) == \E m \in Messages(app) : m.type = type /\ m.conn = c
InNas(type) == \E m \in Messages(nas) : m.type = type
InS1apOf(type, c) == \E m \in Messages(s1ap) : m.type = type /\ m.conn = c
Rejected(c) == InS1apOf("reject", c)

\* A command that names no eNB is dropped.
Effective(m) == m.type = "command" /\ m.at # None
InCommand(c) == \E m \in Messages(s1ap) : Effective(m) /\ m.conn = c

\* A command the eNB is not told of, and a rejection: they remove the reference at once.
Silent(m) == Effective(m) /\ m.cause \in {"implicit", "sctp"}
Removal(m, c) == (Silent(m) \/ m.type = "reject") /\ m.conn = c

\* Connections are taken up in the order of their numbers, first by MME_APP
\* (ctx.enb_ue is the last one) and then by S1AP.
ConnectionsOK ==
  /\ \A b, c \in Conns : b < c /\ enb[c].phase # "none" => enb[b].phase # "none"
  /\ \A c \in Conns :
       /\ c <= ctx.enb_ue => enb[c].phase # "none"
       /\ enb[c].phase = "none" => refs[c] = "none" /\ enb[c].at = None
       /\ enb[c].phase # "none" => enb[c].at \in Enbs
       /\ enb[c].phase \in {"known", "commanded"} => c <= ctx.enb_ue /\ refs[c] # "new"
       /\ HasId(c) \/ refs[c] = "lapsed" => c <= ctx.enb_ue
       /\ enb[c].asked => refs[c] # "new"
       /\ refs[c] = "new" =>
            /\ InAppOf("initial", c) \/ InS1apOf("notify", c) \/ InS1apOf("reject", c)
            /\ enb[c].at \in lost => enb[c].unnamed

\* What the messages in the queue of MME_APP are about.
AppOK ==
  \A m \in Messages(app) :
    /\ m.type = "initial" =>
         /\ ctx.enb_ue < m.conn /\ refs[m.conn] = "new" /\ enb[m.conn].phase # "none"
    /\ m.type \in {"release", "dereg"} => m.conn <= ctx.enb_ue /\ ~Rejected(m.conn)
    /\ m.type = "deregNew" => enb[m.conn].at # None
    /\ m.type = "complete" /\ m.conn # None => m.conn <= ctx.enb_ue /\ refs[m.conn] = "none"

\* n may be behind m in the queue of MME_APP.
AppBehind(m, n) ==
  n.type = "initial" =>
    /\ m.type # "cancel"
    /\ m.type = "initial" => m.conn < n.conn

AppOrder == \A i, j \in 1 .. Len(app) : i < j => AppBehind(app[i], app[j])

\* What the messages in the queue of S1AP are about.
S1apOK ==
  \A m \in Messages(s1ap) :
    /\ m.type \in {"notify", "dl", "command"} /\ m.conn # None =>
         m.conn <= ctx.enb_ue /\ ~Rejected(m.conn)
    /\ m.type = "notify" =>
         /\ refs[m.conn] \in {"new", "none"}
         /\ \A r \in WithId : r < m.conn
    /\ m.type = "reject" =>
         /\ m.conn # ctx.enb_ue /\ refs[m.conn] \in {"new", "none"}
         /\ enb[m.conn].phase # "none"
         /\ \A n \in Messages(app) : n.type = "initial" => m.conn < n.conn

S1apBehind(m, n) ==
  n.type = "notify" =>
    /\ m.type = "notify" => m.conn < n.conn
    /\ m.type \in {"dl", "command"} => m.conn # n.conn

S1apOrder == \A i, j \in 1 .. Len(s1ap) : i < j => S1apBehind(s1ap[i], s1ap[j])

\* A command names the eNB of its connection, or none.
CommandsOK ==
  \A m \in Messages(s1ap) :
    Effective(m) => m.conn # None /\ m.at = enb[m.conn].at

\* Before S1AP gives a reference the MME UE S1AP ID of the UE, it has removed the
\* older ones.
OlderRemoved ==
  \A i \in 1 .. Len(s1ap) : s1ap[i].type = "notify" =>
    \A r \in Conns : r < s1ap[i].conn /\ Live(r) =>
      \E j \in 1 .. Len(s1ap) : j < i /\ Removal(s1ap[j], r)

\* The references MME_APP has taken up are that of the present connection, and
\* those S1AP is about to remove.
PresentOnly ==
  ctx.exists => \A r \in Conns : r <= ctx.enb_ue /\ Live(r) =>
    r = ctx.key \/ \E m \in Messages(s1ap) : Removal(m, r)

OneWithId == \A r, s \in WithId : r = s

\* While a UE has something to connect for, it is attached.
AttachedOK ==
  InApp("initial") \/ ~left =>
    /\ ctx.exists /\ ctx.registered /\ emm /\ esm = 0
    /\ ~InApp("detach") /\ ~InNas("detach") /\ ~InNas("implicit")

DetachOK ==
  /\ ~left => ~InApp("cancel")
  /\ ~emm \/ ctx.cause = "implicit" => ~ctx.registered
  /\ esm > 0 \/ InApp("detach") => ~emm

\* The context of a connection whose reference is gone hears of it.
KeyGoes ==
  ctx.exists /\ ctx.key # None /\ refs[ctx.key] = "none" =>
    InAppOf("complete", ctx.key) \/ (~ctx.registered /\ InApp("complete"))

\* What silently removes references, and what is about another connection, comes
\* before the present connection.
OthersBefore ==
  ctx.exists /\ ctx.registered /\ ctx.key # None =>
    \A i \in 1 .. Len(s1ap) :
      Effective(s1ap[i]) /\ (Silent(s1ap[i]) \/ s1ap[i].conn # ctx.key) =>
        \E j \in 1 .. Len(s1ap) : i < j /\ s1ap[j].type = "notify" /\ s1ap[j].conn = ctx.key

\* A connection whose eNB asked for the release, or was lost, is being released.
WantsRelease(c) ==
  Live(c) /\ refs[c] # "crr" /\ (enb[c].asked \/ (enb[c].at \in lost /\ ~enb[c].unnamed))

ReleaseUnderWay ==
  ctx.exists /\ ctx.registered => \A c \in Conns : WantsRelease(c) =>
    \/ InAppOf("release", c) \/ InAppOf("dereg", c) \/ InCommand(c)
    \/ ctx.key = c /\ rab > 0
    \/ ctx.key = c /\ InApp("rabResponse")

\* The connection of a UE that is detached comes to its end.
EndUnderWay ==
  \/ InApp("complete")
  \/ /\ ctx.enb_ue # None
     /\ \/ refs[ctx.enb_ue] \in {"crr", "untimed", "lapsed"}
        \/ Live(ctx.enb_ue) /\ InCommand(ctx.enb_ue)

\* A UE that left is being detached.
DetachUnderWay ==
  left /\ ctx.exists =>
    \/ InApp("cancel") \/ InNas("detach") \/ InNas("implicit") \/ esm > 0 \/ InApp("detach")
    \/ ~ctx.registered /\ EndUnderWay

IInv ==
  /\ TypeOK /\ QueuesOK /\ ConnectionsOK
  /\ AppOK /\ AppOrder /\ S1apOK /\ S1apOrder /\ CommandsOK /\ OlderRemoved
  /\ PresentOnly /\ OneWithId
  /\ AttachedOK /\ DetachOK /\ KeyGoes /\ OthersBefore /\ ReleaseUnderWay /\ DetachUnderWay

-----------------------------------------------------------------------------
(* Queues *)

\* The elements of a queue, by their places.
LEMMA Places ==
  ASSUME NEW S, NEW q \in Seq(S)
  PROVE  /\ Len(q) \in Nat /\ Messages(q) \subseteq S
         /\ \A i \in 1 .. Len(q) : q[i] \in Messages(q)
         /\ \A m \in Messages(q) : \E i \in 1 .. Len(q) : m = q[i]
         /\ q = <<>> => Messages(q) = {}
  BY DEF Messages

\* Taking the first message.
LEMMA Taken ==
  ASSUME NEW S, NEW q \in Seq(S), q # <<>>
  PROVE  /\ Tail(q) \in Seq(S) /\ Head(q) \in S /\ Head(q) = q[1] /\ Head(q) \in Messages(q)
         /\ Len(q) \in Nat /\ Len(q) >= 1 /\ Len(Tail(q)) = Len(q) - 1
         /\ \A i \in 1 .. Len(Tail(q)) : Tail(q)[i] = q[i + 1]
         /\ Messages(Tail(q)) \subseteq Messages(q)
         /\ \A m \in Messages(q) : m = Head(q) \/ m \in Messages(Tail(q))
<1>1. /\ Tail(q) \in Seq(S) /\ Head(q) \in S /\ Head(q) = q[1]
      /\ Len(q) \in Nat /\ Len(q) >= 1 /\ Len(Tail(q)) = Len(q) - 1
      /\ \A i \in 1 .. Len(Tail(q)) : Tail(q)[i] = q[i + 1]
  OBVIOUS
<1>2. Head(q) \in Messages(q)
  BY <1>1 DEF Messages
<1>3. Messages(Tail(q)) \subseteq Messages(q)
  BY <1>1 DEF Messages
<1>4. ASSUME NEW m \in Messages(q)
      PROVE  m = Head(q) \/ m \in Messages(Tail(q))
  <2>1. PICK i \in 1 .. Len(q) : m = q[i]
    BY Places
  <2>2. CASE i = 1
    BY <1>1, <2>1, <2>2
  <2>3. CASE i # 1
    <3>1. i - 1 \in 1 .. Len(Tail(q)) /\ Tail(q)[i - 1] = q[i]
      BY <1>1, <2>3
    <3> QED
      BY ZenonT(60), <1>1, <2>1, <3>1, Places
  <2> QED
    BY <2>2, <2>3
<1> QED
  BY <1>1, <1>2, <1>3, <1>4

\* Sending a message.
LEMMA Put ==
  ASSUME NEW S, NEW q \in Seq(S), NEW e \in S
  PROVE  /\ Append(q, e) \in Seq(S)
         /\ Len(q) \in Nat /\ Len(Append(q, e)) = Len(q) + 1
         /\ Append(q, e)[Len(q) + 1] = e
         /\ \A i \in 1 .. Len(q) : Append(q, e)[i] = q[i]
         /\ Messages(Append(q, e)) = Messages(q) \cup {e}
<1>1. /\ Append(q, e) \in Seq(S)
      /\ Len(q) \in Nat /\ Len(Append(q, e)) = Len(q) + 1
      /\ Append(q, e)[Len(q) + 1] = e
      /\ \A i \in 1 .. Len(q) : Append(q, e)[i] = q[i]
  OBVIOUS
<1>2. ASSUME NEW m \in Messages(Append(q, e))
      PROVE  m \in Messages(q) \cup {e}
  <2>1. PICK i \in 1 .. Len(Append(q, e)) : m = Append(q, e)[i]
    BY <1>1, Places
  <2> QED
    BY <1>1, <2>1, Places
<1>3. ASSUME NEW m \in Messages(q)
      PROVE  m \in Messages(Append(q, e))
  <2>1. PICK i \in 1 .. Len(q) : m = q[i]
    BY Places
  <2>2. i \in 1 .. Len(Append(q, e)) /\ m = Append(q, e)[i]
    BY <1>1, <2>1
  <2> QED
    BY <1>1, <2>2, Places
<1>4. e \in Messages(Append(q, e))
  <2> PICK p : p = Append(q, e)
    OBVIOUS
  <2>1. p \in Seq(S) /\ Len(q) + 1 \in 1 .. Len(p) /\ p[Len(q) + 1] = e
    BY <1>1
  <2>2. p[Len(q) + 1] \in Messages(p)
    BY <2>1, Places
  <2> QED
    BY <2>1, <2>2
<1> QED
  BY <1>1, <1>2, <1>3, <1>4

\* What is taken from the queues, and what they hold.
LEMMA AppTaken ==
  ASSUME QueuesOK, app # <<>>, app' = Tail(app)
  PROVE  /\ app' \in Seq(AppMsgs) /\ Head(app) \in AppMsgs /\ Head(app) \in Messages(app)
         /\ Messages(app)' \subseteq Messages(app)
         /\ \A m \in Messages(app) : m = Head(app) \/ m \in Messages(app)'
  BY Taken DEF QueuesOK

LEMMA S1apTaken ==
  ASSUME QueuesOK, s1ap # <<>>, s1ap' = Tail(s1ap)
  PROVE  /\ s1ap' \in Seq(S1apMsgs) /\ Head(s1ap) \in S1apMsgs /\ Head(s1ap) \in Messages(s1ap)
         /\ Messages(s1ap)' \subseteq Messages(s1ap)
         /\ \A m \in Messages(s1ap) : m = Head(s1ap) \/ m \in Messages(s1ap)'
  BY Taken DEF QueuesOK

LEMMA NasTaken ==
  ASSUME QueuesOK, nas # <<>>, nas' = Tail(nas)
  PROVE  /\ nas' \in Seq(NasMsgs) /\ Head(nas) \in NasMsgs /\ Head(nas) \in Messages(nas)
         /\ Messages(nas)' \subseteq Messages(nas)
         /\ \A m \in Messages(nas) : m = Head(nas) \/ m \in Messages(nas)'
  BY Taken DEF QueuesOK

LEMMA AppPut ==
  ASSUME QueuesOK, NEW m \in AppMsgs, app' = Append(app, m)
  PROVE  app' \in Seq(AppMsgs) /\ Messages(app)' = Messages(app) \cup {m}
  BY Put DEF QueuesOK

LEMMA S1apPut ==
  ASSUME QueuesOK, NEW m \in S1apMsgs, s1ap' = Append(s1ap, m)
  PROVE  s1ap' \in Seq(S1apMsgs) /\ Messages(s1ap)' = Messages(s1ap) \cup {m}
  BY Put DEF QueuesOK

LEMMA NasPut ==
  ASSUME QueuesOK, NEW m \in NasMsgs, nas' = Append(nas, m)
  PROVE  nas' \in Seq(NasMsgs) /\ Messages(nas)' = Messages(nas) \cup {m}
  BY Put DEF QueuesOK

\* What is behind the first message of a queue.
LEMMA AppFirst ==
  ASSUME QueuesOK, AppOrder, app # <<>>, app' = Tail(app)
  PROVE  /\ AppOrder' /\ \A n \in Messages(app)' : AppBehind(Head(app), n)
<1>1. /\ Len(app) \in Nat /\ Len(app) >= 1 /\ Len(app') = Len(app) - 1 /\ Head(app) = app[1]
      /\ \A i \in 1 .. Len(app') : app'[i] = app[i + 1]
      /\ app' \in Seq(AppMsgs)
  BY Taken DEF QueuesOK
<1>2. ASSUME NEW i \in 1 .. Len(app'), NEW j \in 1 .. Len(app'), i < j
      PROVE  AppBehind(app'[i], app'[j])
  <2>1. i + 1 \in 1 .. Len(app) /\ j + 1 \in 1 .. Len(app) /\ i + 1 < j + 1
    BY <1>1, <1>2
  <2>2. AppBehind(app[i + 1], app[j + 1])
    BY <2>1 DEF AppOrder
  <2> QED
    BY <1>1, <2>2
<1>3. ASSUME NEW n \in Messages(app)'
      PROVE  AppBehind(Head(app), n)
  <2>1. PICK i \in 1 .. Len(app') : n = app'[i]
    BY <1>1 DEF Messages
  <2>2. 1 \in 1 .. Len(app) /\ i + 1 \in 1 .. Len(app) /\ 1 < i + 1
    BY <1>1
  <2>3. AppBehind(app[1], app[i + 1])
    BY <2>2 DEF AppOrder
  <2> QED
    BY <1>1, <2>1, <2>3
<1> QED
  BY <1>2, <1>3 DEF AppOrder, AppBehind

LEMMA S1apFirst ==
  ASSUME QueuesOK, S1apOrder, s1ap # <<>>, s1ap' = Tail(s1ap)
  PROVE  /\ S1apOrder' /\ \A n \in Messages(s1ap)' : S1apBehind(Head(s1ap), n)
<1>1. /\ Len(s1ap) \in Nat /\ Len(s1ap) >= 1 /\ Len(s1ap') = Len(s1ap) - 1
      /\ Head(s1ap) = s1ap[1]
      /\ \A i \in 1 .. Len(s1ap') : s1ap'[i] = s1ap[i + 1]
      /\ s1ap' \in Seq(S1apMsgs)
  BY Taken DEF QueuesOK
<1>2. ASSUME NEW i \in 1 .. Len(s1ap'), NEW j \in 1 .. Len(s1ap'), i < j
      PROVE  S1apBehind(s1ap'[i], s1ap'[j])
  <2>1. i + 1 \in 1 .. Len(s1ap) /\ j + 1 \in 1 .. Len(s1ap) /\ i + 1 < j + 1
    BY <1>1, <1>2
  <2>2. S1apBehind(s1ap[i + 1], s1ap[j + 1])
    BY <2>1 DEF S1apOrder
  <2> QED
    BY <1>1, <2>2
<1>3. ASSUME NEW n \in Messages(s1ap)'
      PROVE  S1apBehind(Head(s1ap), n)
  <2>1. PICK i \in 1 .. Len(s1ap') : n = s1ap'[i]
    BY <1>1 DEF Messages
  <2>2. 1 \in 1 .. Len(s1ap) /\ i + 1 \in 1 .. Len(s1ap) /\ 1 < i + 1
    BY <1>1
  <2>3. S1apBehind(s1ap[1], s1ap[i + 1])
    BY <2>2 DEF S1apOrder
  <2> QED
    BY <1>1, <2>1, <2>3
<1> QED
  BY <1>2, <1>3 DEF S1apOrder, S1apBehind

\* A message may be added that may be behind all others.
LEMMA AppLast ==
  ASSUME QueuesOK, AppOrder, NEW m \in AppMsgs, app' = Append(app, m),
         \A x \in Messages(app) : AppBehind(x, m)
  PROVE  AppOrder'
<1>1. /\ Len(app) \in Nat /\ Len(app') = Len(app) + 1 /\ app'[Len(app) + 1] = m
      /\ \A i \in 1 .. Len(app) : app'[i] = app[i] /\ app[i] \in Messages(app)
  BY Put, Places DEF QueuesOK
<1>2. ASSUME NEW i \in 1 .. Len(app'), NEW j \in 1 .. Len(app'), i < j
      PROVE  AppBehind(app'[i], app'[j])
  <2>1. i \in 1 .. Len(app)
    BY <1>1, <1>2
  <2>2. CASE j \in 1 .. Len(app)
    <3>1. AppBehind(app[i], app[j])
      BY <1>2, <2>1, <2>2 DEF AppOrder
    <3> QED
      BY <1>1, <2>1, <2>2, <3>1
  <2>3. CASE j = Len(app) + 1
    <3>1. AppBehind(app[i], m)
      BY <1>1, <2>1
    <3> QED
      BY <1>1, <2>1, <2>3, <3>1
  <2> QED
    BY <1>1, <2>2, <2>3
<1> QED
  BY <1>2 DEF AppOrder, AppBehind

LEMMA S1apLast ==
  ASSUME QueuesOK, S1apOrder, NEW m \in S1apMsgs, s1ap' = Append(s1ap, m),
         \A x \in Messages(s1ap) : S1apBehind(x, m)
  PROVE  S1apOrder'
<1>1. /\ Len(s1ap) \in Nat /\ Len(s1ap') = Len(s1ap) + 1 /\ s1ap'[Len(s1ap) + 1] = m
      /\ \A i \in 1 .. Len(s1ap) : s1ap'[i] = s1ap[i] /\ s1ap[i] \in Messages(s1ap)
  BY Put, Places DEF QueuesOK
<1>2. ASSUME NEW i \in 1 .. Len(s1ap'), NEW j \in 1 .. Len(s1ap'), i < j
      PROVE  S1apBehind(s1ap'[i], s1ap'[j])
  <2>1. i \in 1 .. Len(s1ap)
    BY <1>1, <1>2
  <2>2. CASE j \in 1 .. Len(s1ap)
    <3>1. S1apBehind(s1ap[i], s1ap[j])
      BY <1>2, <2>1, <2>2 DEF S1apOrder
    <3> QED
      BY <1>1, <2>1, <2>2, <3>1
  <2>3. CASE j = Len(s1ap) + 1
    <3>1. S1apBehind(s1ap[i], m)
      BY <1>1, <2>1
    <3> QED
      BY <1>1, <2>1, <2>3, <3>1
  <2> QED
    BY <1>1, <2>2, <2>3
<1> QED
  BY <1>2 DEF S1apOrder, S1apBehind

LEMMA ConnsAreNumbers ==
  /\ \A c \in Conns : c \in Nat /\ c > 0 /\ c # None
  /\ None = 0 /\ \A c \in Conns \cup {None} : c \in Nat
  BY BoundsAssumption DEF Conns, None

\* The connections the messages are about.
LEMMA ConnsOfMessages ==
  ASSUME QueuesOK
  PROVE  /\ \A m \in Messages(app) : /\ m \in AppMsgs /\ m.conn \in Conns \cup {None}
                                     /\ m.type \in NamesOne => m.conn \in Conns
         /\ \A m \in Messages(s1ap) : /\ m \in S1apMsgs /\ m.conn \in Conns \cup {None}
                                      /\ m.type \in {"notify", "reject"} => m.conn \in Conns
                                      /\ m.type = "command" => m \in Commands
<1>1. Messages(app) \subseteq AppMsgs /\ Messages(s1ap) \subseteq S1apMsgs
  BY Places DEF QueuesOK
<1>2. ASSUME NEW m \in AppMsgs
      PROVE  m.conn \in Conns \cup {None} /\ (m.type \in NamesOne => m.conn \in Conns)
  BY DEF AppMsgs, NamesOne, NamesAny
<1>3. ASSUME NEW m \in S1apMsgs
      PROVE  /\ m.conn \in Conns \cup {None}
             /\ m.type \in {"notify", "reject"} => m.conn \in Conns
             /\ m.type = "command" => m \in Commands
  BY DEF S1apMsgs, Commands
<1> QED
  BY <1>1, <1>2, <1>3

RefStates == {"none", "new", "ue", "crr", "untimed", "lapsed"}
Phases == {"none", "up", "known", "commanded", "gone"}
Contexts ==
  [exists : BOOLEAN, registered : BOOLEAN, key : Conns \cup {None},
   enb_ue : Conns \cup {None}, cause : Causes, timers : SUBSET Kinds]
EnbConns ==
  [at : Enbs \cup {None}, asked : BOOLEAN, ics : BOOLEAN, unnamed : BOOLEAN, phase : Phases]

\* The conjuncts of TypeOK.
StateTyped ==
  /\ ctx \in Contexts /\ (ctx.key # None => ctx.key = ctx.enb_ue)
  /\ refs \in [Conns -> RefStates] /\ enb \in [Conns -> EnbConns]
  /\ lost \subseteq Enbs /\ rab \in Nat /\ esm \in Nat /\ emm \in BOOLEAN /\ left \in BOOLEAN

LEMMA TypeOKIs ==
  TypeOK <=> StateTyped /\ \A m \in Messages(app) : m.type = "initial" => ctx.exists /\ emm
  BY DEF TypeOK, StateTyped, Contexts, RefStates, EnbConns, Phases, Causes

-----------------------------------------------------------------------------
(* Steps that neither open a connection nor take one up in MME_APP *)

Steady ==
  /\ ctx'.enb_ue = ctx.enb_ue
  /\ \A c \in Conns :
       /\ \/ refs'[c] = refs[c]
          \/ refs'[c] = "none" /\ (c <= ctx.enb_ue \/ Rejected(c))
          \/ HasId(c) /\ refs'[c] \in {"crr", "untimed", "lapsed"}
          \/ refs[c] = "new" /\ refs'[c] = "ue" /\ c <= ctx.enb_ue
       /\ enb'[c].at = enb[c].at
       /\ enb'[c].phase = "none" <=> enb[c].phase = "none"
       /\ enb'[c].phase \in {"known", "commanded"} =>
            enb[c].phase \in {"known", "commanded"} \/ (c <= ctx.enb_ue /\ refs[c] # "new")
       /\ enb'[c].asked => enb[c].asked \/ refs[c] # "new"
       /\ refs[c] = "new" /\ enb[c].unnamed => enb'[c].unnamed
       /\ refs[c] = "new" /\ enb[c].at \in lost' => enb[c].at \in lost \/ enb'[c].unnamed

\* No reference gets the MME UE S1AP ID of the UE.
Calm == Steady /\ \A c \in Conns : HasId(c)' => HasId(c)

LEMMA SteadyLives ==
  ASSUME Steady, StateTyped
  PROVE  \A c \in Conns :
           /\ Live(c)' => Live(c)
           /\ refs'[c] = "new" => refs[c] = "new"
           /\ refs[c] = "none" => refs'[c] = "none"
           /\ ctx.enb_ue < c => refs'[c] = refs[c] \/ HasId(c) \/ Rejected(c)
<1> SUFFICES ASSUME NEW c \in Conns
             PROVE  /\ Live(c)' => Live(c)
                    /\ refs'[c] = "new" => refs[c] = "new"
                    /\ refs[c] = "none" => refs'[c] = "none"
                    /\ ctx.enb_ue < c => refs'[c] = refs[c] \/ HasId(c) \/ Rejected(c)
  OBVIOUS
<1>1. c \in Nat /\ ctx.enb_ue \in Nat
  <2>1. ctx.enb_ue \in Conns \cup {None}
    BY DEF StateTyped, Contexts
  <2> QED
    BY <2>1, ConnsAreNumbers
<1>2. ctx.enb_ue < c => ~(c <= ctx.enb_ue)
  BY <1>1
<1> QED
  BY <1>2 DEF Steady, Live, HasId

LEMMA ConnectionsKept ==
  ASSUME StateTyped, ConnectionsOK, Steady,
         \A c \in Conns : refs'[c] = "new" =>
           /\ InAppOf("initial", c) => InAppOf("initial", c)' \/ InS1apOf("reject", c)'
           /\ InS1apOf("notify", c) => InS1apOf("notify", c)'
           /\ InS1apOf("reject", c) => InS1apOf("reject", c)'
  PROVE  ConnectionsOK'
<1>1. \A b, c \in Conns : b < c /\ enb'[c].phase # "none" => enb'[b].phase # "none"
  BY DEF ConnectionsOK, Steady
<1>2. ASSUME NEW c \in Conns
      PROVE  /\ c <= ctx'.enb_ue => enb'[c].phase # "none"
             /\ enb'[c].phase = "none" => refs'[c] = "none" /\ enb'[c].at = None
             /\ enb'[c].phase # "none" => enb'[c].at \in Enbs
             /\ HasId(c)' \/ refs'[c] = "lapsed" => c <= ctx'.enb_ue
  BY SteadyLives DEF ConnectionsOK, Steady, HasId
<1>3. ASSUME NEW c \in Conns
      PROVE  /\ enb'[c].phase \in {"known", "commanded"} => c <= ctx'.enb_ue /\ refs'[c] # "new"
             /\ enb'[c].asked => refs'[c] # "new"
  BY SteadyLives DEF ConnectionsOK, Steady
<1>4. ASSUME NEW c \in Conns, refs'[c] = "new"
      PROVE  /\ InAppOf("initial", c)' \/ InS1apOf("notify", c)' \/ InS1apOf("reject", c)'
             /\ enb'[c].at \in lost' => enb'[c].unnamed
  <2>1. refs[c] = "new"
    BY <1>4, SteadyLives
  <2>2. InAppOf("initial", c) \/ InS1apOf("notify", c) \/ InS1apOf("reject", c)
    BY <2>1 DEF ConnectionsOK
  <2>3. enb'[c].at \in lost' => enb'[c].unnamed
    BY <2>1 DEF ConnectionsOK, Steady
  <2> QED
    BY <1>4, <2>2, <2>3
<1> QED
  BY <1>1, <1>2, <1>3, <1>4 DEF ConnectionsOK

\* What a message says when it is put into the queue of MME_APP; now: the
\* references after the step.
AppFresh(m, now) ==
  /\ m.type # "initial"
  /\ m.type \in {"release", "dereg"} => m.conn <= ctx.enb_ue /\ ~Rejected(m.conn)
  /\ m.type = "deregNew" => enb[m.conn].at # None
  /\ m.type = "complete" /\ m.conn # None => m.conn <= ctx.enb_ue /\ now[m.conn] = "none"

LEMMA AppKept ==
  ASSUME StateTyped, QueuesOK, ConnectionsOK, AppOK, S1apOK, Steady,
         \A c : Rejected(c)' => Rejected(c),
         \A m \in Messages(app)' : m \in Messages(app) \/ (m \in AppMsgs /\ AppFresh(m, refs'))
  PROVE  AppOK'
<1> SUFFICES ASSUME NEW m \in Messages(app)'
             PROVE  /\ m.type = "initial" =>
                         /\ ctx'.enb_ue < m.conn /\ refs'[m.conn] = "new"
                         /\ enb'[m.conn].phase # "none"
                    /\ m.type \in {"release", "dereg"} =>
                         m.conn <= ctx'.enb_ue /\ ~Rejected(m.conn)'
                    /\ m.type = "deregNew" => enb'[m.conn].at # None
                    /\ m.type = "complete" /\ m.conn # None =>
                         m.conn <= ctx'.enb_ue /\ refs'[m.conn] = "none"
  BY DEF AppOK, Rejected, InS1apOf
<1>0. ctx'.enb_ue = ctx.enb_ue /\ \A c \in Conns : enb'[c].at = enb[c].at
  BY DEF Steady
<1>c. /\ m.conn \in Conns \cup {None} /\ (m.type \in NamesOne => m.conn \in Conns)
  <2>1. m \in AppMsgs
    BY ConnsOfMessages
  <2> QED
    BY <2>1 DEF AppMsgs, NamesOne, NamesAny
<1>1. CASE m \notin Messages(app)
  BY <1>0, <1>1, <1>c DEF AppFresh, NamesOne
<1>2. CASE m \in Messages(app)
  <2>1. ASSUME m.type = "initial"
        PROVE  ctx'.enb_ue < m.conn /\ refs'[m.conn] = "new" /\ enb'[m.conn].phase # "none"
    <3>1. m.conn \in Conns
      BY <1>c, <2>1 DEF NamesOne
    <3>2. ctx.enb_ue < m.conn /\ refs[m.conn] = "new" /\ enb[m.conn].phase # "none"
      BY <1>2, <2>1 DEF AppOK
    <3>r. ~Rejected(m.conn)
      <4>1. ~(m.conn < m.conn)
        BY <3>1, ConnsAreNumbers
      <4> QED
        BY <1>2, <2>1, <4>1 DEF S1apOK, Rejected, InS1apOf
    <3>3. refs'[m.conn] = "new" /\ enb'[m.conn].phase # "none"
      BY <3>1, <3>2, <3>r, SteadyLives DEF Steady, HasId
    <3> QED
      BY <1>0, <3>1, <3>2, <3>3
  <2>2. m.type \in {"release", "dereg"} => m.conn <= ctx'.enb_ue /\ ~Rejected(m.conn)'
    BY <1>0, <1>2 DEF AppOK
  <2>3. m.type = "deregNew" => enb'[m.conn].at # None
    BY <1>0, <1>2, <1>c DEF AppOK, NamesOne
  <2>4. m.type = "complete" /\ m.conn # None => m.conn <= ctx'.enb_ue /\ refs'[m.conn] = "none"
    BY <1>0, <1>2, <1>c, SteadyLives DEF AppOK
  <2> QED
    BY <2>1, <2>2, <2>3, <2>4
<1> QED
  BY <1>1, <1>2

\* What a message says when it is put into the queue of S1AP.
S1apFresh(m) ==
  /\ m.type \notin {"notify", "reject"}
  /\ m.type \in {"dl", "command"} /\ m.conn # None => m.conn <= ctx.enb_ue /\ ~Rejected(m.conn)
  /\ Effective(m) => m.conn # None /\ m.at = enb[m.conn].at

\* What the messages of S1AP say stays so, and who the commands name.
LEMMA S1apKept ==
  ASSUME StateTyped, QueuesOK, S1apOK, Calm,
         \A n \in Messages(app)' : n.type = "initial" => n \in Messages(app),
         \A m \in Messages(s1ap)' : m \in Messages(s1ap) \/ (m \in S1apMsgs /\ S1apFresh(m))
  PROVE  S1apOK'
<1> SUFFICES ASSUME NEW m \in Messages(s1ap)'
             PROVE  /\ m.type \in {"notify", "dl", "command"} /\ m.conn # None =>
                         m.conn <= ctx'.enb_ue /\ ~Rejected(m.conn)'
                    /\ m.type = "notify" =>
                         /\ refs'[m.conn] \in {"new", "none"}
                         /\ \A r \in WithId' : r < m.conn
                    /\ m.type = "reject" =>
                         /\ m.conn # ctx'.enb_ue /\ refs'[m.conn] \in {"new", "none"}
                         /\ enb'[m.conn].phase # "none"
                         /\ \A n \in Messages(app)' : n.type = "initial" => m.conn < n.conn
  BY DEF S1apOK, Rejected, InS1apOf
<1>0. ctx'.enb_ue = ctx.enb_ue /\ WithId' \subseteq WithId
  BY DEF Calm, Steady, WithId
<1>r. \A c : Rejected(c)' => Rejected(c)
  BY DEF Rejected, InS1apOf, S1apFresh
<1>1. CASE m \notin Messages(s1ap)
  <2>1. m.conn \in Conns \cup {None}
    BY <1>1 DEF S1apMsgs, Commands
  <2> QED
    BY <1>0, <1>1, <1>r, <2>1 DEF S1apFresh
<1>2. CASE m \in Messages(s1ap)
  <2>1. m.conn \in Conns \cup {None} /\ (m.type \in {"notify", "reject"} => m.conn \in Conns)
    BY <1>2, ConnsOfMessages
  <2>2. ASSUME m.type \in {"notify", "reject"}
        PROVE  refs'[m.conn] \in {"new", "none"}
    <3>1. m.conn \in Conns /\ refs[m.conn] \in {"new", "none"}
      BY <1>2, <2>1, <2>2 DEF S1apOK
    <3> QED
      BY <3>1 DEF Calm, Steady, HasId
  <2>3. ASSUME m.type = "notify"
        PROVE  \A r \in WithId' : r < m.conn
    BY <1>0, <1>2, <2>3 DEF S1apOK
  <2>4. m.type \in {"notify", "dl", "command"} /\ m.conn # None =>
          m.conn <= ctx'.enb_ue /\ ~Rejected(m.conn)'
    BY <1>0, <1>2, <1>r, <2>1 DEF S1apOK
  <2>5. ASSUME m.type = "reject"
        PROVE  /\ m.conn # ctx'.enb_ue /\ enb'[m.conn].phase # "none"
               /\ \A n \in Messages(app)' : n.type = "initial" => m.conn < n.conn
    <3>1. m.conn \in Conns
      BY <2>1, <2>5
    <3> QED
      BY <1>0, <1>2, <2>5, <3>1 DEF S1apOK, Calm, Steady
  <2> QED
    BY <2>2, <2>3, <2>4, <2>5
<1> QED
  BY <1>1, <1>2

LEMMA CommandsKept ==
  ASSUME QueuesOK, CommandsOK, \A c \in Conns : enb'[c].at = enb[c].at,
         \A m \in Messages(s1ap)' :
           \/ m \in Messages(s1ap)
           \/ m \in S1apMsgs /\ (Effective(m) => m.conn # None /\ m.at = enb[m.conn].at)
  PROVE  CommandsOK'
<1> SUFFICES ASSUME NEW m \in Messages(s1ap)', Effective(m)
             PROVE  m.conn # None /\ m.at = enb'[m.conn].at
  BY DEF CommandsOK, Effective
<1>1. m.conn # None /\ m.at = enb[m.conn].at
  BY DEF CommandsOK
<1>2. m.conn \in Conns
  <2>1. m \in S1apMsgs
    BY ConnsOfMessages
  <2> QED
    BY <1>1, <2>1 DEF S1apMsgs, Commands
<1> QED
  BY <1>1, <1>2

LEMMA OneKept ==
  ASSUME OneWithId, Calm
  PROVE  OneWithId'
<1>1. WithId' \subseteq WithId
  BY DEF Calm, WithId, HasId
<1> QED
  BY <1>1 DEF OneWithId

LEMMA PresentKept ==
  ASSUME StateTyped, PresentOnly, Steady, ctx'.exists => ctx.exists,
         \A r \in Conns : r = ctx.key /\ Live(r)' =>
           r = ctx'.key \/ \E m \in Messages(s1ap)' : Removal(m, r),
         \A m \in Messages(s1ap), r \in Conns : Removal(m, r) /\ Live(r)' => m \in Messages(s1ap)'
  PROVE  PresentOnly'
<1> SUFFICES ASSUME ctx'.exists, NEW r \in Conns, r <= ctx'.enb_ue, Live(r)'
             PROVE  r = ctx'.key \/ \E m \in Messages(s1ap)' : Removal(m, r)
  BY DEF PresentOnly, Removal, Silent, Effective
<1>1. ctx.exists /\ r <= ctx.enb_ue /\ Live(r)
  BY SteadyLives DEF Steady
<1>2. r = ctx.key \/ \E m \in Messages(s1ap) : Removal(m, r)
  BY <1>1 DEF PresentOnly
<1> QED
  BY <1>2

\* The queue is as it was, or has more messages at its end.
Grows(q, p) == Len(q) <= Len(p) /\ \A i \in 1 .. Len(q) : p[i] = q[i]

AppGrows ==
  /\ app' \in Seq(AppMsgs) /\ Grows(app, app')
  /\ \A i \in 1 .. Len(app') : i > Len(app) => AppFresh(app'[i], refs')

S1apGrows ==
  /\ s1ap' \in Seq(S1apMsgs) /\ Grows(s1ap, s1ap')
  /\ \A i \in 1 .. Len(s1ap') : i > Len(s1ap) => S1apFresh(s1ap'[i])

LEMMA AppGrown ==
  ASSUME QueuesOK, AppGrows
  PROVE  /\ Messages(app) \subseteq Messages(app)'
         /\ \A m \in Messages(app)' : m \in Messages(app) \/ (m \in AppMsgs /\ AppFresh(m, refs'))
<1>0. /\ app \in Seq(AppMsgs) /\ app' \in Seq(AppMsgs) /\ Len(app) <= Len(app')
      /\ \A i \in 1 .. Len(app) : app'[i] = app[i]
      /\ Len(app) \in Nat /\ Len(app') \in Nat
  BY DEF QueuesOK, AppGrows, Grows
<1>1. ASSUME NEW m \in Messages(app)
      PROVE  m \in Messages(app)'
  <2>1. PICK i \in 1 .. Len(app) : m = app[i]
    BY <1>0, Places
  <2>2. i \in 1 .. Len(app') /\ m = app'[i]
    BY <1>0, <2>1
  <2> QED
    BY <1>0, <2>2 DEF Messages
<1>2. ASSUME NEW m \in Messages(app)', m \notin Messages(app)
      PROVE  m \in AppMsgs /\ AppFresh(m, refs')
  <2>1. PICK i \in 1 .. Len(app') : m = app'[i]
    BY <1>0 DEF Messages
  <2>2. ~(i \in 1 .. Len(app))
    BY <1>0, <1>2, <2>1, Places
  <2> QED
    BY <1>0, <2>1, <2>2 DEF AppGrows
<1> QED
  BY <1>1, <1>2

LEMMA S1apGrown ==
  ASSUME QueuesOK, S1apGrows
  PROVE  /\ Messages(s1ap) \subseteq Messages(s1ap)'
         /\ \A m \in Messages(s1ap)' : m \in Messages(s1ap) \/ (m \in S1apMsgs /\ S1apFresh(m))
<1>0. /\ s1ap \in Seq(S1apMsgs) /\ s1ap' \in Seq(S1apMsgs) /\ Len(s1ap) <= Len(s1ap')
      /\ \A i \in 1 .. Len(s1ap) : s1ap'[i] = s1ap[i]
      /\ Len(s1ap) \in Nat /\ Len(s1ap') \in Nat
  BY DEF QueuesOK, S1apGrows, Grows
<1>1. ASSUME NEW m \in Messages(s1ap)
      PROVE  m \in Messages(s1ap)'
  <2>1. PICK i \in 1 .. Len(s1ap) : m = s1ap[i]
    BY <1>0, Places
  <2>2. i \in 1 .. Len(s1ap') /\ m = s1ap'[i]
    BY <1>0, <2>1
  <2> QED
    BY <1>0, <2>2 DEF Messages
<1>2. ASSUME NEW m \in Messages(s1ap)', m \notin Messages(s1ap)
      PROVE  m \in S1apMsgs /\ S1apFresh(m)
  <2>1. PICK i \in 1 .. Len(s1ap') : m = s1ap'[i]
    BY <1>0 DEF Messages
  <2>2. ~(i \in 1 .. Len(s1ap))
    BY <1>0, <1>2, <2>1, Places
  <2> QED
    BY <1>0, <2>1, <2>2 DEF S1apGrows
<1> QED
  BY <1>1, <1>2

LEMMA AppOrderGrown ==
  ASSUME QueuesOK, AppOrder, AppGrows
  PROVE  AppOrder'
<1>0. /\ Len(app) <= Len(app') /\ Len(app) \in Nat /\ Len(app') \in Nat
      /\ \A i \in 1 .. Len(app) : app'[i] = app[i]
  BY DEF QueuesOK, AppGrows, Grows
<1>1. ASSUME NEW i \in 1 .. Len(app'), NEW j \in 1 .. Len(app'), i < j
      PROVE  AppBehind(app'[i], app'[j])
  <2>1. CASE j > Len(app)
    BY <2>1 DEF AppGrows, AppFresh, AppBehind
  <2>2. CASE ~(j > Len(app))
    <3>1. i \in 1 .. Len(app) /\ j \in 1 .. Len(app)
      BY <1>0, <1>1, <2>2
    <3>2. AppBehind(app[i], app[j])
      BY <1>1, <3>1 DEF AppOrder
    <3> QED
      BY <1>0, <3>1, <3>2
  <2> QED
    BY <2>1, <2>2
<1> QED
  BY <1>1 DEF AppOrder, AppBehind

LEMMA S1apOrderGrown ==
  ASSUME QueuesOK, S1apOrder, S1apGrows
  PROVE  S1apOrder'
<1>0. /\ Len(s1ap) <= Len(s1ap') /\ Len(s1ap) \in Nat /\ Len(s1ap') \in Nat
      /\ \A i \in 1 .. Len(s1ap) : s1ap'[i] = s1ap[i]
  BY DEF QueuesOK, S1apGrows, Grows
<1>1. ASSUME NEW i \in 1 .. Len(s1ap'), NEW j \in 1 .. Len(s1ap'), i < j
      PROVE  S1apBehind(s1ap'[i], s1ap'[j])
  <2>1. CASE j > Len(s1ap)
    BY <2>1 DEF S1apGrows, S1apFresh, S1apBehind
  <2>2. CASE ~(j > Len(s1ap))
    <3>1. i \in 1 .. Len(s1ap) /\ j \in 1 .. Len(s1ap)
      BY <1>0, <1>1, <2>2
    <3>2. S1apBehind(s1ap[i], s1ap[j])
      BY <1>1, <3>1 DEF S1apOrder
    <3> QED
      BY <1>0, <3>1, <3>2
  <2> QED
    BY <2>1, <2>2
<1> QED
  BY <1>1 DEF S1apOrder, S1apBehind

\* The references that go before a connection is notified: while the queue of S1AP
\* grows, when a message is taken from it, and when the notification is added.
LEMMA OlderGrown ==
  ASSUME StateTyped, OlderRemoved, QueuesOK, S1apGrows, Steady
  PROVE  OlderRemoved'
<1>0. /\ Len(s1ap) <= Len(s1ap') /\ Len(s1ap) \in Nat /\ Len(s1ap') \in Nat
      /\ \A i \in 1 .. Len(s1ap) : s1ap'[i] = s1ap[i]
  BY DEF QueuesOK, S1apGrows, Grows
<1> SUFFICES ASSUME NEW i \in 1 .. Len(s1ap'), s1ap'[i].type = "notify",
                    NEW r \in Conns, r < s1ap'[i].conn, Live(r)'
             PROVE  \E j \in 1 .. Len(s1ap') : j < i /\ Removal(s1ap'[j], r)
  BY DEF OlderRemoved, Removal, Silent, Effective
<1>1. Live(r)
  BY SteadyLives
<1>2. i \in 1 .. Len(s1ap)
  BY <1>0 DEF S1apGrows, S1apFresh
<1>3. PICK j \in 1 .. Len(s1ap) : j < i /\ Removal(s1ap[j], r)
  BY <1>0, <1>1, <1>2 DEF OlderRemoved
<1>4. j \in 1 .. Len(s1ap') /\ s1ap'[j] = s1ap[j]
  BY <1>0
<1> QED
  BY <1>3, <1>4

LEMMA OlderTaken ==
  ASSUME StateTyped, OlderRemoved, QueuesOK, s1ap # <<>>, s1ap' = Tail(s1ap), Steady,
         \A r \in Conns : Removal(Head(s1ap), r) => ~Live(r)'
  PROVE  OlderRemoved'
<1>1. /\ Len(s1ap) \in Nat /\ Len(s1ap) >= 1 /\ Len(s1ap') = Len(s1ap) - 1
      /\ Head(s1ap) = s1ap[1]
      /\ \A i \in 1 .. Len(s1ap') : s1ap'[i] = s1ap[i + 1]
  BY Taken DEF QueuesOK
<1> SUFFICES ASSUME NEW i \in 1 .. Len(s1ap'), s1ap'[i].type = "notify",
                    NEW r \in Conns, r < s1ap'[i].conn, Live(r)'
             PROVE  \E j \in 1 .. Len(s1ap') : j < i /\ Removal(s1ap'[j], r)
  BY DEF OlderRemoved, Removal, Silent, Effective
<1>2. Live(r)
  BY SteadyLives
<1>3. /\ i + 1 \in 1 .. Len(s1ap) /\ s1ap[i + 1].type = "notify" /\ r < s1ap[i + 1].conn
  BY <1>1
<1>4. PICK j \in 1 .. Len(s1ap) : j < i + 1 /\ Removal(s1ap[j], r)
  BY <1>2, <1>3 DEF OlderRemoved
<1>5. j # 1
  BY <1>1, <1>4
<1>6. j - 1 \in 1 .. Len(s1ap') /\ j - 1 < i /\ s1ap'[j - 1] = s1ap[j]
  BY <1>1, <1>4, <1>5
<1> QED
  BY <1>4, <1>6

LEMMA OlderPut ==
  ASSUME StateTyped, OlderRemoved, QueuesOK, NEW m \in S1apMsgs, s1ap' = Append(s1ap, m),
         \A i \in 1 .. Len(s1ap), r \in Conns :
           s1ap[i].type = "notify" /\ r < s1ap[i].conn /\ Live(r)' => Live(r),
         m.type = "notify" => \A r \in Conns : r < m.conn /\ Live(r)' =>
                                \E x \in Messages(s1ap) : Removal(x, r)
  PROVE  OlderRemoved'
<1>1. /\ Len(s1ap) \in Nat /\ Len(s1ap') = Len(s1ap) + 1 /\ s1ap'[Len(s1ap) + 1] = m
      /\ \A i \in 1 .. Len(s1ap) : s1ap'[i] = s1ap[i]
  BY Put DEF QueuesOK
<1> SUFFICES ASSUME NEW i \in 1 .. Len(s1ap'), s1ap'[i].type = "notify",
                    NEW r \in Conns, r < s1ap'[i].conn, Live(r)'
             PROVE  \E j \in 1 .. Len(s1ap') : j < i /\ Removal(s1ap'[j], r)
  BY DEF OlderRemoved, Removal, Silent, Effective
<1>2. CASE i = Len(s1ap) + 1
  <2>1. PICK x \in Messages(s1ap) : Removal(x, r)
    BY <1>1, <1>2
  <2>2. PICK j \in 1 .. Len(s1ap) : x = s1ap[j]
    BY Places DEF QueuesOK
  <2>3. j \in 1 .. Len(s1ap') /\ j < i /\ s1ap'[j] = x
    BY <1>1, <1>2, <2>2
  <2> QED
    BY <2>1, <2>3
<1>3. CASE i \in 1 .. Len(s1ap)
  <2>1. s1ap[i].type = "notify" /\ r < s1ap[i].conn /\ Live(r)
    BY <1>1, <1>3
  <2>2. PICK j \in 1 .. Len(s1ap) : j < i /\ Removal(s1ap[j], r)
    BY <1>3, <2>1 DEF OlderRemoved
  <2>3. j \in 1 .. Len(s1ap') /\ s1ap'[j] = s1ap[j]
    BY <1>1
  <2> QED
    BY <2>2, <2>3
<1> QED
  BY <1>1, <1>2, <1>3

\* Other commands come before the present connection: while the queue of S1AP grows,
\* when a message is taken from it, and when the notification is added.
Other(m, key) == Effective(m) /\ (Silent(m) \/ m.conn # key)

LEMMA OthersGrown ==
  ASSUME OthersBefore, QueuesOK, S1apGrows,
         ctx'.exists => ctx.exists, ctx'.registered => ctx.registered,
         ctx'.key # None => ctx'.key = ctx.key,
         ctx'.exists /\ ctx'.registered /\ ctx'.key # None =>
           \A i \in 1 .. Len(s1ap') : i > Len(s1ap) => ~Other(s1ap'[i], ctx.key)
  PROVE  OthersBefore'
<1>0. /\ Len(s1ap) <= Len(s1ap') /\ Len(s1ap) \in Nat /\ Len(s1ap') \in Nat
      /\ \A i \in 1 .. Len(s1ap) : s1ap'[i] = s1ap[i]
  BY DEF QueuesOK, S1apGrows, Grows
<1> SUFFICES ASSUME ctx'.exists, ctx'.registered, ctx'.key # None,
                    NEW i \in 1 .. Len(s1ap'), Other(s1ap'[i], ctx.key)
             PROVE  \E j \in 1 .. Len(s1ap') :
                      i < j /\ s1ap'[j].type = "notify" /\ s1ap'[j].conn = ctx'.key
  BY DEF OthersBefore, Other, Silent, Effective
<1>1. i \in 1 .. Len(s1ap) /\ Other(s1ap[i], ctx.key)
  BY <1>0
<1>2. PICK j \in 1 .. Len(s1ap) : i < j /\ s1ap[j].type = "notify" /\ s1ap[j].conn = ctx.key
  BY <1>1 DEF OthersBefore, Other
<1>3. j \in 1 .. Len(s1ap') /\ s1ap'[j] = s1ap[j]
  BY <1>0
<1> QED
  BY <1>2, <1>3

LEMMA OthersTaken ==
  ASSUME OthersBefore, QueuesOK, s1ap # <<>>, s1ap' = Tail(s1ap),
         ctx'.exists = ctx.exists, ctx'.registered = ctx.registered, ctx'.key = ctx.key
  PROVE  OthersBefore'
<1>1. /\ Len(s1ap) \in Nat /\ Len(s1ap) >= 1 /\ Len(s1ap') = Len(s1ap) - 1
      /\ \A i \in 1 .. Len(s1ap') : s1ap'[i] = s1ap[i + 1]
  BY Taken DEF QueuesOK
<1> SUFFICES ASSUME ctx.exists, ctx.registered, ctx.key # None,
                    NEW i \in 1 .. Len(s1ap'), Other(s1ap'[i], ctx.key)
             PROVE  \E j \in 1 .. Len(s1ap') :
                      i < j /\ s1ap'[j].type = "notify" /\ s1ap'[j].conn = ctx'.key
  BY DEF OthersBefore, Other, Silent, Effective
<1>2. i + 1 \in 1 .. Len(s1ap) /\ Other(s1ap[i + 1], ctx.key)
  BY <1>1
<1>3. PICK j \in 1 .. Len(s1ap) :
        i + 1 < j /\ s1ap[j].type = "notify" /\ s1ap[j].conn = ctx.key
  BY <1>2 DEF OthersBefore, Other
<1>4. j - 1 \in 1 .. Len(s1ap') /\ i < j - 1 /\ s1ap'[j - 1] = s1ap[j]
  BY <1>1, <1>3
<1> QED
  BY <1>3, <1>4

\* The connection that is taken up last comes last.
LEMMA OthersNotified ==
  ASSUME QueuesOK, NEW m \in S1apMsgs, s1ap' = Append(s1ap, m),
         m.type = "notify", m.conn = ctx'.key
  PROVE  OthersBefore'
<1>1. /\ Len(s1ap) \in Nat /\ Len(s1ap') = Len(s1ap) + 1 /\ s1ap'[Len(s1ap) + 1] = m
  BY Put DEF QueuesOK
<1>2. ASSUME NEW i \in 1 .. Len(s1ap'), Effective(s1ap'[i])
      PROVE  i < Len(s1ap) + 1
  BY <1>1, <1>2 DEF Effective
<1>3. Len(s1ap) + 1 \in 1 .. Len(s1ap')
  BY <1>1
<1> QED
  BY <1>1, <1>2, <1>3 DEF OthersBefore, Silent, Effective

\* What MME_APP has to hear of a reference that is gone stays in its queue.
LEMMA KeyKept ==
  ASSUME StateTyped, KeyGoes, NEW k, k = ctx'.key, ctx'.exists => ctx.exists,
         k # None => k = ctx.key, ctx'.registered => ctx.registered,
         ctx'.exists /\ k # None /\ refs'[k] = "none" =>
           \/ refs[k] = "none"
           \/ InAppOf("complete", k)'
           \/ ~ctx'.registered /\ InApp("complete")',
         ctx'.exists /\ k # None => \A m \in Messages(app) :
           m.type = "complete" /\ (m.conn = k \/ ~ctx'.registered) => m \in Messages(app)'
  PROVE  KeyGoes'
<1> SUFFICES ASSUME ctx'.exists, k # None, refs'[k] = "none"
             PROVE  InAppOf("complete", k)' \/ (~ctx'.registered /\ InApp("complete")')
  BY DEF KeyGoes, InAppOf, InApp
<1>1. CASE refs[k] = "none"
  <2>1. InAppOf("complete", k) \/ (~ctx.registered /\ InApp("complete"))
    BY <1>1 DEF KeyGoes
  <2>2. CASE InAppOf("complete", k)
    BY <2>2 DEF InAppOf
  <2>3. CASE ~ctx.registered /\ InApp("complete")
    <3>1. ~ctx'.registered
      BY <2>3
    <3> QED
      BY <2>3, <3>1 DEF InApp
  <2> QED
    BY <2>1, <2>2, <2>3
<1>2. CASE refs[k] # "none"
  BY <1>2
<1> QED
  BY <1>1, <1>2

\* The release of a connection goes on.
Released(c) ==
  \/ InAppOf("release", c) \/ InAppOf("dereg", c) \/ InCommand(c)
  \/ ctx.key = c /\ rab > 0
  \/ ctx.key = c /\ InApp("rabResponse")

LEMMA ReleaseKept ==
  ASSUME ReleaseUnderWay, ctx'.exists => ctx.exists, ctx'.registered => ctx.registered,
         ctx'.exists /\ ctx'.registered => \A c \in Conns : WantsRelease(c)' =>
           Released(c)' \/ (WantsRelease(c) /\ (Released(c) => Released(c)'))
  PROVE  ReleaseUnderWay'
<1> SUFFICES ASSUME ctx'.exists, ctx'.registered, NEW c \in Conns, WantsRelease(c)'
             PROVE  Released(c)'
  BY DEF ReleaseUnderWay, Released
<1>1. WantsRelease(c) => Released(c)
  BY DEF ReleaseUnderWay, Released
<1> QED
  BY <1>1

\* The ways the queues change when no connection is opened or taken up.
AppTakes == app # <<>> /\ app' = Tail(app) /\ Head(app).type # "initial"
S1apTakes ==
  /\ s1ap # <<>> /\ s1ap' = Tail(s1ap) /\ Head(s1ap).type # "notify"
  /\ \A r \in Conns : Removal(Head(s1ap), r) => ~Live(r)'

AppMoves == AppGrows \/ AppTakes
S1apMoves == S1apGrows \/ S1apTakes

Core ==
  /\ ConnectionsOK /\ AppOK /\ AppOrder /\ S1apOK /\ S1apOrder /\ CommandsOK
  /\ OlderRemoved /\ OneWithId

LEMMA AppMoved ==
  ASSUME QueuesOK, AppOrder, AppMoves
  PROVE  /\ app' \in Seq(AppMsgs) /\ AppOrder'
         /\ \A m \in Messages(app) : m \in Messages(app)'
              \/ (AppTakes /\ m = Head(app) /\ \A n \in Messages(app)' : AppBehind(m, n))
         /\ \A m \in Messages(app)' : m \in Messages(app) \/ (m \in AppMsgs /\ AppFresh(m, refs'))
<1>1. CASE AppGrows
  BY <1>1, AppGrown, AppOrderGrown DEF AppGrows
<1>2. CASE AppTakes
  BY <1>2, AppTaken, AppFirst DEF AppTakes
<1> QED
  BY <1>1, <1>2 DEF AppMoves

LEMMA S1apMoved ==
  ASSUME StateTyped, QueuesOK, S1apOrder, OlderRemoved, Steady, S1apMoves
  PROVE  /\ s1ap' \in Seq(S1apMsgs) /\ S1apOrder' /\ OlderRemoved'
         /\ \A m \in Messages(s1ap) : m \in Messages(s1ap)' \/ (S1apTakes /\ m = Head(s1ap))
         /\ \A m \in Messages(s1ap)' :
              m \in Messages(s1ap) \/ (m \in S1apMsgs /\ S1apFresh(m))
<1>1. CASE S1apGrows
  BY <1>1, S1apGrown, S1apOrderGrown, OlderGrown DEF S1apGrows
<1>2. CASE S1apTakes
  BY <1>2, S1apTaken, S1apFirst, OlderTaken DEF S1apTakes
<1> QED
  BY <1>1, <1>2 DEF S1apMoves

LEMMA CoreKept ==
  ASSUME StateTyped, QueuesOK, Core, Calm, AppMoves, S1apMoves
  PROVE  Core' /\ app' \in Seq(AppMsgs) /\ s1ap' \in Seq(S1apMsgs)
<1>c. /\ ConnectionsOK /\ AppOK /\ AppOrder /\ S1apOK /\ S1apOrder /\ CommandsOK
      /\ OlderRemoved /\ OneWithId /\ Steady
  BY DEF Core, Calm
<1>a. /\ app' \in Seq(AppMsgs) /\ AppOrder'
      /\ \A m \in Messages(app) : m \in Messages(app)' \/ m.type # "initial"
      /\ \A m \in Messages(app)' : m \in Messages(app) \/ (m \in AppMsgs /\ AppFresh(m, refs'))
  BY <1>c, AppMoved DEF AppTakes
<1>s. /\ s1ap' \in Seq(S1apMsgs) /\ S1apOrder' /\ OlderRemoved'
      /\ \A m \in Messages(s1ap) :
           m \in Messages(s1ap)' \/ (m.type # "notify" /\ \A r \in Conns : Removal(m, r) => ~Live(r)')
      /\ \A m \in Messages(s1ap)' : m \in Messages(s1ap) \/ (m \in S1apMsgs /\ S1apFresh(m))
  BY <1>c, S1apMoved DEF S1apTakes
<1>1. ConnectionsOK'
  <2>1. ASSUME NEW c \in Conns, refs'[c] = "new"
        PROVE  /\ InAppOf("initial", c) => InAppOf("initial", c)'
               /\ InS1apOf("notify", c) => InS1apOf("notify", c)'
               /\ InS1apOf("reject", c) => InS1apOf("reject", c)'
    <3>1. Live(c)'
      BY <2>1 DEF Live
    <3>2. \A m \in Messages(s1ap) : m.type = "reject" /\ m.conn = c => m \in Messages(s1ap)'
      BY <1>s, <3>1 DEF Removal
    <3> QED
      BY <1>a, <1>s, <3>2 DEF InAppOf, InS1apOf
  <2> QED
    BY <1>c, <2>1, ConnectionsKept
<1>2. AppOK'
  <2>1. \A c : Rejected(c)' => Rejected(c)
    BY <1>s DEF Rejected, InS1apOf, S1apFresh
  <2> QED
    BY <1>c, <1>a, <2>1, AppKept
<1>3. S1apOK'
  <2>1. \A n \in Messages(app)' : n.type = "initial" => n \in Messages(app)
    BY <1>a DEF AppFresh
  <2> QED
    BY <1>c, <1>s, <2>1, S1apKept
<1>4. OneWithId'
  BY <1>c, OneKept
<1>5. CommandsOK'
  <2>1. \A c \in Conns : enb'[c].at = enb[c].at
    BY <1>c DEF Steady
  <2>2. \A m \in Messages(s1ap)' :
          \/ m \in Messages(s1ap)
          \/ m \in S1apMsgs /\ (Effective(m) => m.conn # None /\ m.at = enb[m.conn].at)
    BY <1>s DEF S1apFresh
  <2> QED
    BY <1>c, <2>1, <2>2, CommandsKept
<1> QED
  BY <1>a, <1>s, <1>1, <1>2, <1>3, <1>4, <1>5 DEF Core

LEMMA PresentMoved ==
  ASSUME StateTyped, QueuesOK, Core, PresentOnly, Calm, S1apMoves, ctx'.exists => ctx.exists,
         \A r \in Conns : r = ctx.key /\ Live(r)' =>
           r = ctx'.key \/ \E m \in Messages(s1ap)' : Removal(m, r)
  PROVE  PresentOnly'
<1>1. Steady
  BY DEF Calm
<1>2. ASSUME NEW m \in Messages(s1ap), NEW r \in Conns, Removal(m, r), Live(r)'
      PROVE  m \in Messages(s1ap)'
  BY <1>1, <1>2, S1apMoved DEF Core, S1apTakes
<1> QED
  BY <1>1, <1>2, PresentKept

\* One message is added, or none.
LEMMA AppStays ==
  ASSUME QueuesOK, app' = app
  PROVE  AppGrows
  BY DEF QueuesOK, AppGrows, Grows

LEMMA S1apStays ==
  ASSUME QueuesOK, s1ap' = s1ap
  PROVE  S1apGrows
  BY DEF QueuesOK, S1apGrows, Grows

LEMMA AppGrowsByOne ==
  ASSUME QueuesOK, NEW m \in AppMsgs, app' = Append(app, m), AppFresh(m, refs')
  PROVE  AppGrows
<1>1. /\ app' \in Seq(AppMsgs)
      /\ Len(app) \in Nat /\ Len(app') = Len(app) + 1 /\ app'[Len(app) + 1] = m
      /\ \A i \in 1 .. Len(app) : app'[i] = app[i]
  BY Put DEF QueuesOK
<1>2. ASSUME NEW i \in 1 .. Len(app'), i > Len(app)
      PROVE  app'[i] = m
  BY <1>1, <1>2
<1> QED
  BY <1>1, <1>2 DEF AppGrows, Grows

LEMMA S1apGrowsByOne ==
  ASSUME QueuesOK, NEW m \in S1apMsgs, s1ap' = Append(s1ap, m), S1apFresh(m)
  PROVE  /\ S1apGrows
         /\ \A i \in 1 .. Len(s1ap') : i > Len(s1ap) => s1ap'[i] = m
<1>1. /\ s1ap' \in Seq(S1apMsgs)
      /\ Len(s1ap) \in Nat /\ Len(s1ap') = Len(s1ap) + 1 /\ s1ap'[Len(s1ap) + 1] = m
      /\ \A i \in 1 .. Len(s1ap) : s1ap'[i] = s1ap[i]
  BY Put DEF QueuesOK
<1>2. ASSUME NEW i \in 1 .. Len(s1ap'), i > Len(s1ap)
      PROVE  s1ap'[i] = m
  BY <1>1, <1>2
<1> QED
  BY <1>1, <1>2 DEF S1apGrows, Grows

\* p is q and two more messages.
TwoMore(S, q, e, f, p) ==
  /\ p \in Seq(S) /\ Len(q) \in Nat /\ Len(p) = Len(q) + 2
  /\ \A i \in 1 .. Len(q) : p[i] = q[i]
  /\ p[Len(q) + 1] = e /\ p[Len(q) + 2] = f
  /\ Messages(p) = Messages(q) \cup {e, f}

LEMMA PutTwo ==
  ASSUME NEW S, NEW q \in Seq(S), NEW e \in S, NEW f \in S
  PROVE  TwoMore(S, q, e, f, Append(Append(q, e), f))
<1> PICK p : p = Append(Append(q, e), f)
  OBVIOUS
<1>1. /\ p \in Seq(S) /\ Len(q) \in Nat /\ Len(p) = Len(q) + 2
      /\ \A i \in 1 .. Len(q) : p[i] = q[i]
      /\ p[Len(q) + 1] = e /\ p[Len(q) + 2] = f
  OBVIOUS
<1>2. ASSUME NEW m \in Messages(p)
      PROVE  m \in Messages(q) \cup {e, f}
  <2>1. PICK i \in 1 .. Len(p) : m = p[i]
    BY ZenonT(60), <1>1, Places
  <2>2. CASE i \in 1 .. Len(q)
    BY <1>1, <2>1, <2>2, Places
  <2>3. CASE i = Len(q) + 1 \/ i = Len(q) + 2
    BY <1>1, <2>1, <2>3
  <2> QED
    BY <1>1, <2>2, <2>3
<1>3. ASSUME NEW m \in Messages(q)
      PROVE  m \in Messages(p)
  <2>1. PICK i \in 1 .. Len(q) : m = q[i]
    BY Places
  <2>2. i \in 1 .. Len(p) /\ m = p[i]
    BY <1>1, <2>1
  <2> QED
    BY <1>1, <2>2, Places
<1>4. Len(q) + 1 \in 1 .. Len(p) /\ Len(q) + 2 \in 1 .. Len(p)
  BY <1>1
<1>5. e \in Messages(p) /\ f \in Messages(p)
  <2>1. p[Len(q) + 1] \in Messages(p) /\ p[Len(q) + 2] \in Messages(p)
    BY <1>1, <1>4 DEF Messages
  <2> QED
    BY <1>1, <2>1
<1>6. TwoMore(S, q, e, f, p)
  BY <1>1, <1>2, <1>3, <1>5 DEF TwoMore
<1> QED
  BY <1>6

LEMMA S1apGrowsByTwo ==
  ASSUME QueuesOK, NEW m \in S1apMsgs, NEW n \in S1apMsgs,
         s1ap' = Append(Append(s1ap, m), n), S1apFresh(m), S1apFresh(n)
  PROVE  /\ S1apGrows /\ Messages(s1ap)' = Messages(s1ap) \cup {m, n}
         /\ \A i \in 1 .. Len(s1ap') : i > Len(s1ap) => s1ap'[i] \in {m, n}
<1>1. /\ s1ap' \in Seq(S1apMsgs) /\ Len(s1ap) \in Nat /\ Len(s1ap') = Len(s1ap) + 2
      /\ \A i \in 1 .. Len(s1ap) : s1ap'[i] = s1ap[i]
      /\ s1ap'[Len(s1ap) + 1] = m /\ s1ap'[Len(s1ap) + 2] = n
      /\ Messages(s1ap') = Messages(s1ap) \cup {m, n}
  <2>1. s1ap \in Seq(S1apMsgs)
    BY DEF QueuesOK
  <2>2. TwoMore(S1apMsgs, s1ap, m, n, Append(Append(s1ap, m), n))
    BY <2>1, PutTwo, Zenon
  <2>3. TwoMore(S1apMsgs, s1ap, m, n, s1ap')
    BY <2>2, Zenon
  <2> QED
    BY <2>3 DEF TwoMore
<1>2. ASSUME NEW i \in 1 .. Len(s1ap'), i > Len(s1ap)
      PROVE  s1ap'[i] \in {m, n}
  <2>1. i = Len(s1ap) + 1 \/ i = Len(s1ap) + 2
    BY <1>1, <1>2
  <2> QED
    BY <1>1, <2>1
<1>3. Len(s1ap) <= Len(s1ap')
  BY <1>1
<1>4. Messages(s1ap)' = Messages(s1ap')
  BY DEF Messages
<1> QED
  BY <1>1, <1>2, <1>3, <1>4 DEF S1apGrows, Grows

-----------------------------------------------------------------------------
(* The invariant, conjunct by conjunct *)

LEMMA Parts ==
  IInv => /\ StateTyped /\ QueuesOK /\ Core /\ PresentOnly /\ AttachedOK /\ DetachOK
          /\ KeyGoes /\ OthersBefore /\ ReleaseUnderWay /\ DetachUnderWay
          /\ ConnectionsOK /\ AppOK /\ AppOrder /\ S1apOK /\ S1apOrder /\ CommandsOK
          /\ OlderRemoved /\ OneWithId
  BY TypeOKIs DEF IInv, Core

LEMMA Whole ==
  ASSUME StateTyped', QueuesOK', Core', PresentOnly', AttachedOK', DetachOK', KeyGoes',
         OthersBefore', ReleaseUnderWay', DetachUnderWay'
  PROVE  IInv'
<1>1. ASSUME NEW m \in Messages(app)', m.type = "initial"
      PROVE  ctx'.exists /\ emm'
  BY <1>1 DEF AttachedOK, InApp
<1>2. TypeOK'
  BY <1>1 DEF TypeOK, StateTyped, Contexts, RefStates, EnbConns, Phases, Causes
<1> QED
  BY <1>2 DEF IInv, Core

LEMMA CalmStays ==
  ASSUME ctx'.enb_ue = ctx.enb_ue, refs' = refs, enb' = enb, lost' = lost
  PROVE  Calm
  BY DEF Calm, Steady, HasId

LEMMA InitialsKept ==
  ASSUME QueuesOK, AppOrder, AppMoves, InApp("initial")'
  PROVE  InApp("initial")
  BY AppMoved DEF InApp, AppFresh

LEMMA EndKept ==
  ASSUME StateTyped, EndUnderWay, ctx'.enb_ue = ctx.enb_ue, Steady,
         InApp("complete") => InApp("complete")',
         ctx.enb_ue \in Conns /\ refs[ctx.enb_ue] # "none" /\ refs'[ctx.enb_ue] = "none" =>
           InApp("complete")',
         \A c \in Conns : InCommand(c) /\ Live(c)' /\ refs'[c] # "crr" =>
           InCommand(c)'
  PROVE  EndUnderWay'
<1> PICK u : u = ctx.enb_ue
  OBVIOUS
<1>0. u \in Conns \cup {None} /\ ctx'.enb_ue = u
  BY DEF StateTyped, Contexts
<1>1. CASE InApp("complete")
  BY <1>1 DEF EndUnderWay
<1>2. CASE ~InApp("complete")
  <2>1. u \in Conns /\ refs[u] \in RefStates
    BY <1>0, <1>2 DEF EndUnderWay, StateTyped
  <2>2. refs[u] \in {"crr", "untimed", "lapsed"} \/ (Live(u) /\ InCommand(u))
    BY <1>2 DEF EndUnderWay
  <2>3. CASE refs'[u] = "none"
    <3>1. refs[u] # "none"
      BY <2>2 DEF Live, HasId
    <3> QED
      BY <2>1, <2>3, <3>1 DEF EndUnderWay
  <2>4. CASE refs[u] \in {"crr", "untimed", "lapsed"} /\ refs'[u] # "none"
    <3>1. refs'[u] \in {"crr", "untimed", "lapsed"}
      BY <2>1, <2>4 DEF Steady
    <3> QED
      BY <1>0, <2>1, <3>1, ConnsAreNumbers DEF EndUnderWay
  <2>5. CASE Live(u) /\ InCommand(u) /\ refs'[u] # "none"
    <3>1. refs'[u] \in {"crr", "untimed", "lapsed"} \/ (Live(u)' /\ refs'[u] # "crr")
      BY <2>1, <2>5 DEF Steady, Live, RefStates, HasId
    <3>2. Live(u)' /\ refs'[u] # "crr" => Live(u)' /\ InCommand(u)'
      BY <2>1, <2>5
    <3> QED
      BY <1>0, <2>1, <3>1, <3>2, ConnsAreNumbers DEF EndUnderWay, Live, HasId
  <2> QED
    BY <2>2, <2>3, <2>4, <2>5
<1> QED
  BY <1>1, <1>2

\* Nothing happens to the UE: it is not told to leave and does not leave.
SameUe ==
  /\ left' = left /\ emm' = emm /\ esm' = esm
  /\ ctx'.exists = ctx.exists /\ ctx'.registered = ctx.registered
  /\ ctx'.cause = "implicit" => ctx.cause = "implicit"
  /\ InNas("detach")' = InNas("detach")
  /\ InNas("implicit") => InNas("implicit")'
  /\ InNas("implicit")' => InNas("implicit") \/ ~ctx.registered

LEMMA UeKept ==
  ASSUME IInv, SameUe, AppMoves, AppTakes => Head(app).type \notin {"cancel", "detach"},
         \A m \in Messages(app)' : m.type \in {"cancel", "detach"} => m \in Messages(app),
         EndUnderWay => EndUnderWay'
  PROVE  AttachedOK' /\ DetachOK' /\ DetachUnderWay'
<1>p. QueuesOK /\ AppOrder /\ AttachedOK /\ DetachOK /\ DetachUnderWay
  BY Parts
<1>1. InApp("initial")' => InApp("initial")
  BY <1>p, InitialsKept
<1>2. (InApp("cancel") <=> InApp("cancel")') /\ (InApp("detach") <=> InApp("detach")')
  BY <1>p, AppMoved DEF InApp
<1>3. AttachedOK'
  BY <1>p, <1>1, <1>2 DEF AttachedOK, SameUe
<1>4. DetachOK'
  BY <1>p, <1>2 DEF DetachOK, SameUe
<1>5. DetachUnderWay'
  BY <1>p, <1>2 DEF DetachUnderWay, SameUe
<1> QED
  BY <1>3, <1>4, <1>5

\* The eNB learns the MME UE S1AP ID of a connection.
LEMMA KnownKept ==
  ASSUME IInv, NEW r \in Conns, NEW ics \in BOOLEAN, enb' = Known(r, ics),
         ctx' = ctx, refs' = refs, lost' = lost, refs[r] # "none",
         r <= ctx.enb_ue, refs[r] # "new"
  PROVE  /\ Calm /\ enb' \in [Conns -> EnbConns]
         /\ \A c \in Conns : enb'[c].asked = enb[c].asked /\ enb'[c].unnamed = enb[c].unnamed
<1>p. StateTyped /\ ConnectionsOK
  BY Parts
<1>0. /\ enb \in [Conns -> EnbConns]
      /\ refs[r] \in RefStates /\ r <= ctx.enb_ue
  BY <1>p DEF StateTyped, RefStates, ConnectionsOK
<1>1. \A c \in Conns : enb[c] \in EnbConns
  BY <1>0
<1>2. /\ enb' \in [Conns -> EnbConns]
      /\ \A c \in Conns :
           /\ enb'[c].at = enb[c].at /\ enb'[c].asked = enb[c].asked
           /\ enb'[c].unnamed = enb[c].unnamed
           /\ enb'[c].phase = enb[c].phase
                \/ (c = r /\ enb[c].phase = "up" /\ enb'[c].phase = "known")
  <2>r. r # None
    BY ConnsAreNumbers
  <2>e. enb[r] \in EnbConns
    BY <1>1
  <2>1. CASE enb[r].phase = "up"
    <3>1. enb' = [enb EXCEPT ![r] = [enb[r] EXCEPT !.phase = "known", !.ics = ics]]
      BY <2>r, <2>1, <1>0 DEF Known
    <3>2. [enb[r] EXCEPT !.phase = "known", !.ics = ics] \in EnbConns
      BY <2>e DEF EnbConns, Phases
    <3> QED
      BY <1>0, <2>1, <2>e, <3>1, <3>2 DEF EnbConns
  <2>2. CASE enb[r].phase = "known"
    <3>1. enb' = [enb EXCEPT ![r] = [enb[r] EXCEPT !.ics = enb[r].ics \/ ics]]
      BY <2>r, <2>2, <1>0 DEF Known
    <3>2. [enb[r] EXCEPT !.ics = enb[r].ics \/ ics] \in EnbConns
      BY <2>e DEF EnbConns
    <3> QED
      BY <1>0, <2>2, <2>e, <3>1, <3>2 DEF EnbConns
  <2>3. CASE enb[r].phase \notin {"up", "known"}
    BY <1>0, <2>3 DEF Known
  <2> QED
    BY <2>1, <2>2, <2>3
<1>3. Calm
  BY <1>0, <1>2 DEF Calm, Steady, HasId
<1> QED
  BY <1>2, <1>3

\* S1AP does what MME_APP asks for a connection only after it was notified of it.
LEMMA NotNew ==
  ASSUME IInv, s1ap # <<>>, NEW c \in Conns, c = Head(s1ap).conn,
         Head(s1ap).type \in {"dl", "command"}
  PROVE  refs[c] # "new" /\ c <= ctx.enb_ue
<1>p. StateTyped /\ QueuesOK /\ ConnectionsOK /\ AppOK /\ S1apOK /\ S1apOrder
  BY Parts
<1> PICK h : h = Head(s1ap)
  OBVIOUS
<1>0. h \in Messages(s1ap) /\ h = s1ap[1] /\ Len(s1ap) \in Nat /\ Len(s1ap) >= 1
      /\ h.conn = c /\ h.type \in {"dl", "command"}
  BY <1>p, Taken DEF QueuesOK
<1>1. c <= ctx.enb_ue /\ ~Rejected(c) /\ c # None /\ c \in Nat
  BY <1>p, <1>0, ConnsAreNumbers DEF S1apOK
<1>2. ctx.enb_ue \in Nat
  <2>1. ctx.enb_ue \in Conns \cup {None}
    BY <1>p DEF StateTyped, Contexts
  <2> QED
    BY <2>1, ConnsAreNumbers
<1>3. ~InAppOf("initial", c)
  BY <1>p, <1>1, <1>2 DEF AppOK, InAppOf
<1>4. ~InS1apOf("notify", c)
  <2> SUFFICES ASSUME NEW m \in Messages(s1ap), m.type = "notify", m.conn = c
               PROVE  FALSE
    BY DEF InS1apOf
  <2>1. PICK i \in 1 .. Len(s1ap) : m = s1ap[i]
    BY <1>p, Places DEF QueuesOK
  <2>2. i # 1
    BY <1>0, <2>1
  <2>3. S1apBehind(s1ap[1], s1ap[i])
    BY <1>p, <1>0, <2>2 DEF S1apOrder
  <2> QED
    BY <1>0, <2>1, <2>3 DEF S1apBehind
<1> QED
  BY <1>p, <1>1, <1>3, <1>4 DEF ConnectionsOK, Rejected

LEMMA LiveHasId ==
  ASSUME IInv, s1ap # <<>>, NEW c, c = Head(s1ap).conn, c # None, Live(c),
         Head(s1ap).type \in {"dl", "command"}
  PROVE  c \in WithId
<1>1. c \in Conns
  <2>1. Head(s1ap) \in Messages(s1ap) /\ QueuesOK
    BY Parts, Taken DEF QueuesOK
  <2> QED
    BY <2>1, ConnsOfMessages
<1> QED
  BY <1>1, NotNew DEF WithId, Live

LEMMA S1apKnowsInv ==
  ASSUME IInv, s1ap # <<>>, s1ap' = Tail(s1ap), Head(s1ap).type \in {"ics", "dl"},
         enb' = enb \/ \E r \in WithId, ics \in BOOLEAN : enb' = Known(r, ics),
         UNCHANGED <<ctx, emm, refs, lost, app, nas, rab, esm, left>>
  PROVE  IInv'
<1>p. /\ StateTyped /\ QueuesOK /\ Core /\ PresentOnly /\ KeyGoes /\ OthersBefore
      /\ ReleaseUnderWay /\ DetachUnderWay /\ ConnectionsOK
  BY Parts
<1>1. /\ Calm /\ enb' \in [Conns -> EnbConns]
      /\ \A c \in Conns : enb'[c].asked = enb[c].asked /\ enb'[c].unnamed = enb[c].unnamed
  <2>1. CASE enb' = enb
    BY <1>p, <2>1, CalmStays DEF StateTyped
  <2>2. ASSUME NEW r \in WithId, NEW ics \in BOOLEAN, enb' = Known(r, ics)
        PROVE  /\ Calm /\ enb' \in [Conns -> EnbConns]
               /\ \A c \in Conns :
                    enb'[c].asked = enb[c].asked /\ enb'[c].unnamed = enb[c].unnamed
    <3>1. r \in Conns /\ HasId(r)
      BY DEF WithId
    <3>2. refs[r] # "none" /\ refs[r] # "new" /\ r <= ctx.enb_ue
      BY <1>p, <3>1 DEF HasId, ConnectionsOK
    <3> QED
      BY <2>2, <3>1, <3>2, KnownKept
  <2> QED
    BY <2>1, <2>2
<1>2. StateTyped'
  BY <1>p, <1>1 DEF StateTyped
<1>3. AppGrows /\ AppMoves
  BY <1>p, AppStays DEF AppMoves
<1>4. S1apTakes /\ S1apMoves
  BY DEF S1apTakes, S1apMoves, Removal, Silent, Effective
<1>5. Core' /\ QueuesOK'
  <2>1. Core' /\ app' \in Seq(AppMsgs) /\ s1ap' \in Seq(S1apMsgs)
    BY <1>p, <1>1, <1>3, <1>4, CoreKept
  <2> QED
    BY <1>p, <2>1 DEF QueuesOK
<1>6. PresentOnly' /\ KeyGoes' /\ OthersBefore'
  <2>1. PresentOnly'
    BY <1>p, <1>1, <1>4, PresentMoved
  <2>2. KeyGoes'
    BY <1>p DEF KeyGoes, InAppOf, InApp, Messages
  <2>3. OthersBefore'
    BY <1>p, OthersTaken
  <2> QED
    BY <2>1, <2>2, <2>3
<1>7. \A c : InCommand(c) => InCommand(c)'
  BY <1>p, S1apTaken DEF Effective, InCommand
<1>8. ReleaseUnderWay'
  <2>1. \A c \in Conns : WantsRelease(c)' => WantsRelease(c)
    BY <1>1 DEF WantsRelease, Live, Calm, Steady, HasId
  <2>2. \A c \in Conns : Released(c) => Released(c)'
    BY <1>7 DEF Released, InAppOf, InApp, Messages
  <2> QED
    BY <1>p, <2>1, <2>2, ReleaseKept
<1>9. AttachedOK' /\ DetachOK' /\ DetachUnderWay'
  <2>1. EndUnderWay => EndUnderWay'
    BY <1>7 DEF EndUnderWay, InApp, Messages, Live, HasId
  <2>2. SameUe /\ Messages(app)' = Messages(app)
    BY DEF SameUe, InNas, Messages
  <2>3. ~AppTakes
    BY <1>p, Taken DEF AppTakes, QueuesOK
  <2> QED
    BY <1>3, <2>1, <2>2, <2>3, UeKept
<1> QED
  BY <1>2, <1>5, <1>6, <1>8, <1>9, Whole

LEMMA S1apConnectionEstablishmentCnfInv ==
  ASSUME IInv, S1apConnectionEstablishmentCnf
  PROVE  IInv'
<1>1. enb' = enb \/ \E r \in WithId, ics \in BOOLEAN : enb' = Known(r, ics)
  BY DEF S1apConnectionEstablishmentCnf
<1> QED
  BY <1>1, S1apKnowsInv DEF S1apConnectionEstablishmentCnf, S1apMessage, Received

LEMMA S1apDownlinkNasInv ==
  ASSUME IInv, S1apDownlinkNas
  PROVE  IInv'
<1>0. /\ s1ap # <<>> /\ Head(s1ap).type = "dl" /\ s1ap' = Tail(s1ap)
      /\ UNCHANGED <<ctx, emm, refs, lost, app, nas, rab, esm, left>>
  BY DEF S1apDownlinkNas, S1apMessage, Received
<1>1. enb' = enb \/ \E r \in WithId, ics \in BOOLEAN : enb' = Known(r, ics)
  <2>1. CASE FindRefDownlink(Head(s1ap).conn) = {}
    BY <2>1 DEF S1apDownlinkNas
  <2>2. CASE FindRefDownlink(Head(s1ap).conn) # {}
    <3>1. PICK r \in FindRefDownlink(Head(s1ap).conn) : enb' = Known(r, FALSE)
      BY <2>2 DEF S1apDownlinkNas
    <3>2. CASE r \in WithId
      BY <3>1, <3>2
    <3>3. CASE r \notin WithId
      <4> PICK c : c = Head(s1ap).conn
        OBVIOUS
      <4>1. r = c /\ Live(c) /\ c # None
        BY <3>3, ConnsAreNumbers DEF FindRefDownlink
      <4> QED
        BY <1>0, <3>3, <4>1, LiveHasId
    <3> QED
      BY <3>2, <3>3
  <2> QED
    BY <2>1, <2>2
<1> QED
  BY <1>0, <1>1, S1apKnowsInv

-----------------------------------------------------------------------------
(* Steps of MME_APP that keep the UE and the references *)

\* A message of MME_APP after which the release of c needs something else.
Answers(c) ==
  \/ Head(app).type \in {"release", "dereg"} /\ Head(app).conn = c
  \/ ctx.key = c /\ (Head(app).type = "rabResponse" \/ ctx'.key # c)

LEMMA AppHandlesRest ==
  ASSUME IInv, app # <<>>, app' = Tail(app), Head(app).type \notin {"initial", "complete"},
         ctx' \in Contexts, ctx'.enb_ue = ctx.enb_ue, ctx'.exists => ctx.exists,
         ctx'.registered => ctx.registered, ctx'.key = ctx.key \/ ctx'.key = None,
         rab' \in Nat, rab' >= rab, nas' \in Seq(NasMsgs),
         UNCHANGED <<emm, refs, lost, enb, esm, left>>,
         S1apGrows,
         ctx'.exists /\ ctx'.registered /\ ctx'.key # None =>
           \A i \in 1 .. Len(s1ap') : i > Len(s1ap) => ~Other(s1ap'[i], ctx.key),
         ctx'.exists /\ ctx.key # None /\ ctx'.key # ctx.key /\ Live(ctx.key) =>
           \E m \in Messages(s1ap)' : Removal(m, ctx.key),
         ctx'.exists /\ ctx'.registered =>
           \A c \in Conns : WantsRelease(c) /\ Answers(c) => Released(c)'
  PROVE  /\ StateTyped' /\ QueuesOK' /\ Core' /\ PresentOnly' /\ KeyGoes' /\ OthersBefore'
         /\ ReleaseUnderWay'
         /\ EndUnderWay => EndUnderWay'
         /\ \A m \in Messages(app) : m = Head(app) \/ m \in Messages(app)'
         /\ Messages(app)' \subseteq Messages(app)
<1>p. /\ StateTyped /\ QueuesOK /\ Core /\ PresentOnly /\ KeyGoes /\ OthersBefore
      /\ ReleaseUnderWay /\ DetachUnderWay /\ AppOrder
  BY Parts
<1>1. StateTyped'
  BY <1>p DEF StateTyped
<1>2. Calm
  BY CalmStays
<1>3. AppTakes /\ AppMoves
  BY DEF AppTakes, AppMoves
<1>4. S1apMoves
  BY DEF S1apMoves
<1>5. Core' /\ QueuesOK'
  <2>1. Core' /\ app' \in Seq(AppMsgs) /\ s1ap' \in Seq(S1apMsgs)
    BY <1>p, <1>2, <1>3, <1>4, CoreKept
  <2> QED
    BY <2>1 DEF QueuesOK
<1>a. /\ \A m \in Messages(app) : m = Head(app) \/ m \in Messages(app)'
      /\ Messages(app)' \subseteq Messages(app)
  BY <1>p, AppTaken
<1>s. Messages(s1ap) \subseteq Messages(s1ap)'
  BY <1>p, S1apGrown
<1>6. PresentOnly'
  <2> SUFFICES ASSUME ctx'.exists, NEW r \in Conns, r = ctx.key, Live(r)'
               PROVE  r = ctx'.key \/ \E m \in Messages(s1ap)' : Removal(m, r)
    BY <1>p, <1>2, <1>4, PresentMoved DEF PresentOnly
  <2>1. Live(ctx.key) /\ ctx.key # None
    BY ConnsAreNumbers DEF Live, HasId
  <2> QED
    BY <2>1
<1>7. KeyGoes'
  <2> PICK k : k = ctx'.key
    OBVIOUS
  <2>1. \A m \in Messages(app) : m.type = "complete" => m \in Messages(app)'
    BY <1>a
  <2> QED
    BY <1>p, <2>1, KeyKept
<1>8. OthersBefore'
  BY <1>p, OthersGrown
<1>9. ReleaseUnderWay'
  <2>1. ASSUME NEW c \in Conns, WantsRelease(c), ~Answers(c), Released(c)
        PROVE  Released(c)'
    <3>1. CASE InAppOf("release", c) \/ InAppOf("dereg", c)
      BY <1>a, <2>1, <3>1 DEF InAppOf, Released, Answers
    <3>2. CASE InCommand(c)
      BY <1>s, <3>2 DEF Released, InCommand
    <3>3. CASE ctx.key = c /\ rab > 0
      <4>1. ctx'.key = c
        BY <2>1, <3>3 DEF Answers
      <4>2. rab' > 0
        BY <1>p, <3>3 DEF StateTyped
      <4> QED
        BY <4>1, <4>2 DEF Released
    <3>4. CASE ctx.key = c /\ InApp("rabResponse")
      BY <1>a, <2>1, <3>4 DEF InApp, Released, Answers
    <3> QED
      BY <2>1, <3>1, <3>2, <3>3, <3>4 DEF Released
  <2>2. \A c \in Conns : WantsRelease(c)' => WantsRelease(c)
    BY DEF WantsRelease, Live, HasId
  <2>3. ASSUME ctx'.exists, ctx'.registered, NEW c \in Conns, WantsRelease(c)'
        PROVE  Released(c)' \/ (WantsRelease(c) /\ (Released(c) => Released(c)'))
    BY <2>1, <2>2, <2>3
  <2> QED
    BY <1>p, <2>3, ReleaseKept
<1>10. EndUnderWay => EndUnderWay'
  <2>1. InApp("complete") => InApp("complete")'
    BY <1>a DEF InApp
  <2>2. \A c \in Conns : InCommand(c) => InCommand(c)'
    BY <1>s DEF InCommand
  <2> QED
    BY <1>p, <1>2, <2>1, <2>2, EndKept DEF Calm
<1> QED
  BY <1>1, <1>5, <1>6, <1>7, <1>8, <1>9, <1>10, <1>a

LEMMA AppHandlesInv ==
  ASSUME IInv, app # <<>>, app' = Tail(app),
         Head(app).type \notin {"initial", "complete", "cancel", "detach"},
         ctx' \in Contexts, ctx'.enb_ue = ctx.enb_ue, ctx'.exists = ctx.exists,
         ctx'.registered = ctx.registered, ctx'.key = ctx.key \/ ctx'.key = None,
         rab' \in Nat, rab' >= rab, nas' \in Seq(NasMsgs), SameUe,
         UNCHANGED <<emm, refs, lost, enb, esm, left>>,
         S1apGrows,
         ctx'.exists /\ ctx'.registered /\ ctx'.key # None =>
           \A i \in 1 .. Len(s1ap') : i > Len(s1ap) => ~Other(s1ap'[i], ctx.key),
         ctx'.exists /\ ctx.key # None /\ ctx'.key # ctx.key /\ Live(ctx.key) =>
           \E m \in Messages(s1ap)' : Removal(m, ctx.key),
         ctx'.exists /\ ctx'.registered =>
           \A c \in Conns : WantsRelease(c) /\ Answers(c) => Released(c)'
  PROVE  IInv'
<1>1. /\ StateTyped' /\ QueuesOK' /\ Core' /\ PresentOnly' /\ KeyGoes' /\ OthersBefore'
      /\ ReleaseUnderWay'
      /\ EndUnderWay => EndUnderWay'
      /\ Messages(app)' \subseteq Messages(app)
  BY AppHandlesRest
<1>2. AppMoves /\ (AppTakes => Head(app).type \notin {"cancel", "detach"})
  BY DEF AppTakes, AppMoves
<1>3. AttachedOK' /\ DetachOK' /\ DetachUnderWay'
  BY <1>1, <1>2, UeKept
<1> QED
  BY <1>1, <1>3, Whole

LEMMA AppSetupResponseInv ==
  ASSUME IInv, AppSetupResponse
  PROVE  IInv'
<1>p. StateTyped /\ QueuesOK
  BY Parts
<1>0. /\ app # <<>> /\ app' = Tail(app) /\ Head(app).type = "icsResponse"
      /\ UNCHANGED <<emm, refs, lost, enb, s1ap, nas, rab, esm, left>>
  BY DEF AppSetupResponse, AppMessage, Received
<1>1. /\ ctx' \in Contexts /\ ctx'.enb_ue = ctx.enb_ue /\ ctx'.exists = ctx.exists
      /\ ctx'.registered = ctx.registered /\ ctx'.key = ctx.key
      /\ ctx'.cause = "implicit" => ctx.cause = "implicit"
  BY <1>p DEF AppSetupResponse, StopIcs, StateTyped, Contexts
<1>2. S1apGrows /\ \A i \in 1 .. Len(s1ap') : ~(i > Len(s1ap))
  <2>1. Len(s1ap) \in Nat
    BY <1>p DEF QueuesOK
  <2> QED
    BY <1>0, <1>p, <2>1, S1apStays
<1>3. SameUe /\ rab \in Nat
  BY <1>0, <1>1, <1>p DEF SameUe, InNas, Messages, StateTyped
<1>4. \A c \in Conns : ~Answers(c)
  BY <1>0, <1>1 DEF Answers
<1> QED
  BY <1>0, <1>1, <1>2, <1>3, <1>4, <1>p, AppHandlesInv DEF QueuesOK

LEMMA AppConnectionEstablishmentCnfInv ==
  ASSUME IInv, AppConnectionEstablishmentCnf
  PROVE  IInv'
<1>p. StateTyped /\ QueuesOK
  BY Parts
<1>0. /\ app # <<>> /\ app' = Tail(app) /\ Head(app).type = "cnf"
      /\ UNCHANGED <<emm, refs, lost, enb, nas, rab, esm, left>>
  BY DEF AppConnectionEstablishmentCnf, AppMessage, Received
<1>1. /\ ctx' \in Contexts /\ ctx'.enb_ue = ctx.enb_ue /\ ctx'.exists = ctx.exists
      /\ ctx'.registered = ctx.registered /\ ctx'.key = ctx.key
      /\ ctx'.cause = "implicit" => ctx.cause = "implicit"
  BY <1>p DEF AppConnectionEstablishmentCnf, StateTyped, Contexts, Kinds
<1>2. S1apGrows /\ \A i \in 1 .. Len(s1ap') : i > Len(s1ap) => ~Other(s1ap'[i], ctx.key)
  <2>1. Len(s1ap) \in Nat
    BY <1>p DEF QueuesOK
  <2>2. CASE s1ap' = s1ap
    BY <1>p, <2>1, <2>2, S1apStays
  <2>3. CASE s1ap' = Append(s1ap, Msg("ics", None))
    <3> PICK m : m = Msg("ics", None)
      OBVIOUS
    <3>1. m \in S1apMsgs /\ m.type = "ics"
      BY DEF Msg, S1apMsgs
    <3>2. S1apFresh(m) /\ ~Other(m, ctx.key)
      BY <3>1 DEF S1apFresh, Other, Effective
    <3> QED
      BY <1>p, <2>3, <3>1, <3>2, S1apGrowsByOne
  <2> QED
    BY <2>2, <2>3 DEF AppConnectionEstablishmentCnf
<1>3. SameUe /\ rab \in Nat
  BY <1>0, <1>1, <1>p DEF SameUe, InNas, Messages, StateTyped
<1>4. \A c \in Conns : ~Answers(c)
  BY <1>0, <1>1 DEF Answers
<1> QED
  BY <1>0, <1>1, <1>2, <1>3, <1>4, <1>p, AppHandlesInv DEF QueuesOK

LEMMA AppSetupFailureInv ==
  ASSUME IInv, AppSetupFailure
  PROVE  IInv'
<1>p. StateTyped /\ QueuesOK
  BY Parts
<1>0. /\ app # <<>> /\ app' = Tail(app) /\ Head(app).type = "icsFailure"
      /\ UNCHANGED <<emm, refs, lost, enb, s1ap, esm, left>>
  BY DEF AppSetupFailure, AppMessage, Received
<1>1. /\ ctx' \in Contexts /\ ctx'.enb_ue = ctx.enb_ue /\ ctx'.exists = ctx.exists
      /\ ctx'.registered = ctx.registered /\ ctx'.key = ctx.key
      /\ ctx'.cause = "implicit" => ctx.cause = "implicit"
  <2>1. ctx' = ctx \/ ctx' = [StopIcs(ctx) EXCEPT !.cause = "told"]
    BY DEF AppSetupFailure, SetupFailed
  <2>2. ctx \in Contexts
    BY <1>p DEF StateTyped
  <2>3. /\ StopIcs(ctx) \in Contexts /\ StopIcs(ctx).enb_ue = ctx.enb_ue
        /\ StopIcs(ctx).exists = ctx.exists /\ StopIcs(ctx).registered = ctx.registered
        /\ StopIcs(ctx).key = ctx.key
    BY <2>2 DEF StopIcs, Contexts
  <2>4. ASSUME NEW x \in Contexts
        PROVE  LET y == [x EXCEPT !.cause = "told"]
               IN  /\ y \in Contexts /\ y.enb_ue = x.enb_ue /\ y.exists = x.exists
                   /\ y.registered = x.registered /\ y.key = x.key /\ y.cause = "told"
    BY DEF Contexts, Causes
  <2> QED
    BY <2>1, <2>2, <2>3, <2>4
<1>2. S1apGrows /\ \A i \in 1 .. Len(s1ap') : ~(i > Len(s1ap))
  <2>1. Len(s1ap) \in Nat
    BY <1>p DEF QueuesOK
  <2> QED
    BY <1>0, <1>p, <2>1, S1apStays
<1>n. \/ nas' = nas /\ rab' \in {rab, rab + 1}
      \/ ~ctx.registered /\ nas' = Append(nas, Msg("implicit", None)) /\ rab' = rab
  BY DEF AppSetupFailure, SetupFailed, ToNas
<1>3. SameUe /\ nas' \in Seq(NasMsgs) /\ rab' \in Nat /\ rab' >= rab
  <2>1. CASE nas' = nas /\ rab' \in {rab, rab + 1}
    BY <1>0, <1>1, <1>p, <2>1 DEF SameUe, InNas, Messages, StateTyped, QueuesOK
  <2>2. CASE ~ctx.registered /\ nas' = Append(nas, Msg("implicit", None)) /\ rab' = rab
    <3> PICK m : m = Msg("implicit", None)
      OBVIOUS
    <3>1. m \in NasMsgs /\ m.type = "implicit"
      BY DEF Msg, NasMsgs
    <3>2. nas' \in Seq(NasMsgs) /\ Messages(nas)' = Messages(nas) \cup {m}
      BY <1>p, <2>2, <3>1, NasPut
    <3> QED
      BY <1>0, <1>1, <1>p, <2>2, <3>1, <3>2 DEF SameUe, InNas, StateTyped
  <2> QED
    BY <1>n, <2>1, <2>2
<1>4. \A c \in Conns : ~Answers(c)
  BY <1>0, <1>1 DEF Answers
<1> QED
  BY <1>0, <1>1, <1>2, <1>3, <1>4, <1>p, AppHandlesInv

\* A command for the connection MME_APP has, or had last.
LEMMA PresentCommand ==
  ASSUME IInv, NEW cause \in Causes, NEW m, m = Command(ctx.enb_ue, EnbOf(ctx.enb_ue), cause)
  PROVE  /\ m \in S1apMsgs /\ S1apFresh(m)
         /\ m.type = "command" /\ m.conn = ctx.enb_ue /\ m.cause = cause
         /\ ctx.enb_ue # None => Effective(m)
<1>p. StateTyped /\ ConnectionsOK /\ S1apOK
  BY Parts
<1>1. ctx.enb_ue \in Conns \cup {None} /\ ctx.enb_ue <= ctx.enb_ue
  <2>1. ctx.enb_ue \in Conns \cup {None}
    BY <1>p DEF StateTyped, Contexts
  <2> QED
    BY <2>1, ConnsAreNumbers
<1>2. ctx.enb_ue # None => EnbOf(ctx.enb_ue) = enb[ctx.enb_ue].at /\ enb[ctx.enb_ue].at \in Enbs
  BY <1>1, <1>p DEF EnbOf, ConnectionsOK
<1>3. /\ m.type = "command" /\ m.conn = ctx.enb_ue /\ m.cause = cause
      /\ m.at = EnbOf(ctx.enb_ue) /\ m \in Commands
  <2>1. EnbOf(ctx.enb_ue) \in Enbs \cup {None}
    BY <1>2 DEF EnbOf
  <2> QED
    BY <1>1, <2>1 DEF Command, Commands
<1>4. ~Rejected(ctx.enb_ue)
  BY <1>p DEF Rejected, InS1apOf, S1apOK
<1>5. Effective(m) <=> ctx.enb_ue # None
  BY <1>2, <1>3, EnbsAssumption DEF Effective, EnbOf
<1>6. S1apFresh(m)
  BY <1>1, <1>2, <1>3, <1>4, <1>5 DEF S1apFresh
<1> QED
  BY <1>3, <1>5, <1>6 DEF S1apMsgs

LEMMA AppReleaseBearersResponseInv ==
  ASSUME IInv, AppReleaseBearersResponse
  PROVE  IInv'
<1>p. StateTyped /\ QueuesOK /\ DetachOK
  BY Parts
<1>0. /\ app # <<>> /\ app' = Tail(app) /\ Head(app).type = "rabResponse"
      /\ UNCHANGED <<emm, refs, lost, enb, nas, rab, esm, left>>
  BY DEF AppReleaseBearersResponse, AppMessage, Received
<1>c. /\ ctx \in Contexts /\ ctx.cause \in Causes /\ Len(s1ap) \in Nat
      /\ ctx.key # None => ctx.key = ctx.enb_ue
  BY <1>p DEF StateTyped, Contexts, QueuesOK
<1>n. SameUe /\ rab \in Nat /\ nas \in Seq(NasMsgs)
       <=> /\ ctx'.exists = ctx.exists /\ ctx'.registered = ctx.registered
           /\ ctx'.cause = "implicit" => ctx.cause = "implicit"
  BY <1>0, <1>p DEF SameUe, InNas, Messages, StateTyped, QueuesOK
<1>1. CASE ~ctx.exists
  <2>1. UNCHANGED <<ctx, s1ap>>
    BY <1>1 DEF AppReleaseBearersResponse
  <2>2. S1apGrows /\ \A i \in 1 .. Len(s1ap') : ~(i > Len(s1ap))
    BY <1>c, <1>p, <2>1, S1apStays
  <2> QED
    BY <1>0, <1>1, <1>c, <1>n, <2>1, <2>2, AppHandlesInv
<1>2. CASE ctx.exists
  <2> PICK why : why = IF ctx.cause = "invalid" THEN "told" ELSE ctx.cause
    OBVIOUS
  <2> PICK m : m = Command(ctx.enb_ue, EnbOf(ctx.enb_ue), why)
    OBVIOUS
  <2> PICK x : x = [ctx EXCEPT !.cause = why]
    OBVIOUS
  <2>1. why \in Causes /\ (why = "implicit" => ctx.cause = "implicit")
    BY <1>c DEF Causes
  <2>2. s1ap' = Append(s1ap, m) /\ ctx' = IF why = "sctp" THEN ToIdle(x) ELSE x
    BY <1>2 DEF AppReleaseBearersResponse
  <2>3. /\ m \in S1apMsgs /\ S1apFresh(m)
        /\ m.type = "command" /\ m.conn = ctx.enb_ue /\ m.cause = why
        /\ ctx.enb_ue # None => Effective(m)
    BY <2>1, PresentCommand
  <2>4. /\ S1apGrows /\ \A i \in 1 .. Len(s1ap') : i > Len(s1ap) => s1ap'[i] = m
        /\ m \in Messages(s1ap)'
    BY <1>p, <2>2, <2>3, S1apGrowsByOne, S1apPut
  <2>5. /\ x \in Contexts /\ x.enb_ue = ctx.enb_ue /\ x.exists = ctx.exists
        /\ x.registered = ctx.registered /\ x.key = ctx.key /\ x.cause = why
    BY <1>c, <2>1 DEF Contexts
  <2>6. /\ ctx' \in Contexts /\ ctx'.enb_ue = ctx.enb_ue /\ ctx'.exists = ctx.exists
        /\ ctx'.registered = ctx.registered /\ ctx'.cause = why
        /\ ctx'.key = IF why = "sctp" THEN None ELSE ctx.key
    <3>1. CASE why = "sctp"
      BY <2>2, <2>5, <3>1 DEF ToIdle, Contexts, Kinds
    <3>2. CASE why # "sctp"
      BY <2>2, <2>5, <3>2
    <3> QED
      BY <3>1, <3>2
  <2>7. ctx'.registered /\ ctx'.key # None => ~Other(m, ctx.key)
    BY <1>c, <1>p, <2>1, <2>3, <2>6 DEF DetachOK, Other, Silent
  <2>8. ctx'.key # ctx.key => Removal(m, ctx.key)
    BY <1>c, <2>3, <2>6 DEF Removal, Silent
  <2>9. ASSUME NEW c \in Conns, Answers(c)
        PROVE  Released(c)'
    <3>1. ctx.key = c
      BY <1>0, <2>9 DEF Answers
    <3>2. InCommand(c)'
      BY <1>c, <2>3, <2>4, <3>1, ConnsAreNumbers DEF InCommand
    <3> QED
      BY <3>2 DEF Released
  <2> QED
    BY <1>0, <1>n, <2>1, <2>4, <2>6, <2>7, <2>8, <2>9, AppHandlesInv
<1> QED
  BY <1>1, <1>2

LEMMA AppNasDownlinkInv ==
  ASSUME IInv, AppNasDownlink
  PROVE  IInv'
<1>p. StateTyped /\ QueuesOK /\ S1apOK
  BY Parts
<1>0. /\ app # <<>> /\ app' = Tail(app) /\ Head(app).type \in {"dl", "dlEnd"}
      /\ UNCHANGED <<emm, refs, lost, enb, nas, esm, left>>
  BY DEF AppNasDownlink, AppMessage, Received
<1>c. /\ ctx \in Contexts /\ ctx.enb_ue \in Conns \cup {None} /\ Len(s1ap) \in Nat
      /\ ctx.key # None => ctx.key = ctx.enb_ue
  BY <1>p DEF StateTyped, Contexts, QueuesOK
<1> PICK m : m = Msg("dl", ctx.enb_ue)
  OBVIOUS
<1> PICK n : n = Command(ctx.enb_ue, EnbOf(ctx.enb_ue), "told")
  OBVIOUS
<1>m. m \in S1apMsgs /\ S1apFresh(m) /\ ~Other(m, ctx.key)
  <2>1. m \in S1apMsgs /\ m.type = "dl" /\ m.conn = ctx.enb_ue
    BY <1>c DEF Msg, S1apMsgs
  <2>2. ctx.enb_ue <= ctx.enb_ue
    BY <1>c, ConnsAreNumbers
  <2>3. ~Rejected(ctx.enb_ue)
    BY <1>p DEF Rejected, InS1apOf, S1apOK
  <2> QED
    BY <2>1, <2>2, <2>3 DEF S1apFresh, Other, Effective
<1>o. n \in S1apMsgs /\ S1apFresh(n) /\ (ctx.key # None => ~Other(n, ctx.key))
  <2>1. "told" \in Causes
    BY DEF Causes
  <2> QED
    BY <1>c, <2>1, PresentCommand DEF Other, Silent
<1>1. \/ s1ap' = s1ap /\ ctx' = ctx /\ rab' = rab
      \/ s1ap' = Append(s1ap, m) /\ ctx' = ctx /\ rab' = rab
      \/ s1ap' = Append(s1ap, m) /\ ctx' = [ctx EXCEPT !.cause = "told"] /\ rab' \in {rab, rab + 1}
      \/ s1ap' = Append(Append(s1ap, m), n) /\ ctx' = [ctx EXCEPT !.cause = "told"] /\ rab' = rab
  BY DEF AppNasDownlink
<1>2. /\ ctx' \in Contexts /\ ctx'.enb_ue = ctx.enb_ue /\ ctx'.exists = ctx.exists
      /\ ctx'.registered = ctx.registered /\ ctx'.key = ctx.key
      /\ ctx'.cause = "implicit" => ctx.cause = "implicit"
  <2>1. CASE ctx' = ctx
    BY <1>c, <2>1
  <2>2. CASE ctx' = [ctx EXCEPT !.cause = "told"]
    BY <1>c, <2>2 DEF Contexts, Causes
  <2> QED
    BY <1>1, <2>1, <2>2
<1>3. /\ S1apGrows
      /\ ctx.key # None => \A i \in 1 .. Len(s1ap') : i > Len(s1ap) => ~Other(s1ap'[i], ctx.key)
  <2>1. CASE s1ap' = s1ap
    BY <1>p, <1>c, <2>1, S1apStays
  <2>2. CASE s1ap' = Append(s1ap, m)
    BY <1>p, <1>m, <2>2, S1apGrowsByOne
  <2>3. CASE s1ap' = Append(Append(s1ap, m), n)
    <3>1. S1apGrows /\ \A i \in 1 .. Len(s1ap') : i > Len(s1ap) => s1ap'[i] \in {m, n}
      BY <1>p, <1>m, <1>o, <2>3, S1apGrowsByTwo, Zenon
    <3> QED
      BY <1>m, <1>o, <3>1
  <2> QED
    BY <1>1, <2>1, <2>2, <2>3, Zenon
<1>4. rab' \in Nat /\ rab' >= rab
  <2>1. rab \in Nat
    BY <1>p DEF StateTyped
  <2>2. rab' = rab \/ rab' = rab + 1
    BY <1>1, Zenon
  <2> QED
    BY <2>1, <2>2
<1>5. SameUe
  BY <1>0, <1>2 DEF SameUe, InNas, Messages
<1>6. \A c \in Conns : ~Answers(c)
  BY <1>0, <1>2 DEF Answers
<1> QED
  BY <1>0, <1>2, <1>3, <1>4, <1>5, <1>6, <1>p, AppHandlesInv DEF QueuesOK

\* A reference MME_APP has taken up, but does not have any more, is being removed.
LEMMA OtherGoes ==
  ASSUME IInv, ctx.exists, NEW c \in Conns, Live(c), c <= ctx.enb_ue, c # ctx.key,
         ~Rejected(c)
  PROVE  InCommand(c)
<1>1. PICK x \in Messages(s1ap) : Removal(x, c)
  BY Parts DEF PresentOnly
<1> QED
  BY <1>1 DEF Rejected, InS1apOf, Removal, Silent, InCommand

LEMMA AppReleaseInv ==
  ASSUME IInv, app # <<>>, app' = Tail(app), NEW c \in Conns, c = Head(app).conn,
         NEW known \in BOOLEAN, NEW e, NEW cause,
         (cause = "told" /\ e = enb[c].at) \/ (cause = "sctp" /\ e = None),
         ~known => e = None,
         Head(app).type \in {"release", "dereg", "deregNew"},
         known <=> Head(app).type # "deregNew",
         Release(known, c, e, cause),
         UNCHANGED <<emm, refs, lost, enb, nas, esm, left>>
  PROVE  IInv'
<1>p. StateTyped /\ QueuesOK /\ DetachOK /\ AppOK /\ AppOrder /\ S1apOK
  BY Parts
<1>c. /\ ctx \in Contexts /\ Len(s1ap) \in Nat /\ rab \in Nat /\ enb[c] \in EnbConns
      /\ ctx.enb_ue \in Conns \cup {None}
      /\ ctx.key # None => ctx.key = ctx.enb_ue
      /\ c \in Nat /\ c > 0 /\ c # None /\ ctx.enb_ue \in Nat
      /\ cause \in {"told", "sctp"} /\ e \in Enbs \cup {None}
  <2>1. ctx.enb_ue \in Conns \cup {None}
    BY <1>p DEF StateTyped, Contexts
  <2> QED
    BY <1>p, <2>1, ConnsAreNumbers DEF StateTyped, QueuesOK, EnbConns
<1>h. Head(app) \in Messages(app) /\ \A n \in Messages(app)' : AppBehind(Head(app), n)
  BY <1>p, Taken, AppFirst DEF QueuesOK
<1>k. /\ known => c <= ctx.enb_ue /\ ~Rejected(c)
      /\ ~known => enb[c].at # e
  BY <1>p, <1>c, <1>h DEF AppOK
<1>n. SameUe /\ nas \in Seq(NasMsgs)
       <=> /\ ctx'.exists = ctx.exists /\ ctx'.registered = ctx.registered
           /\ ctx'.cause = "implicit" => ctx.cause = "implicit"
  BY <1>p DEF SameUe, InNas, Messages, StateTyped, QueuesOK
<1>a. ctx'.key = ctx.key \/ ctx.key = None => \A x \in Conns : Answers(x) => x = c
  <2>1. \A x \in Conns : x # None
    BY ConnsAreNumbers
  <2> QED
    BY <2>1 DEF Answers
<1>1. CASE ~ctx.exists \/ ~(known \/ (ctx.key = c /\ enb[c].at = e))
  <2>1. UNCHANGED <<ctx, s1ap, rab>>
    BY <1>1 DEF Release
  <2>2. S1apGrows /\ \A i \in 1 .. Len(s1ap') : ~(i > Len(s1ap))
    BY <1>c, <1>p, <2>1, S1apStays
  <2>3. ctx.exists => \A x \in Conns : ~Answers(x)
    BY <1>1, <2>1 DEF Answers
  <2>4. SameUe /\ nas \in Seq(NasMsgs)
    BY <1>n, <2>1
  <2> QED
    BY <1>c, <2>1, <2>2, <2>3, <2>4, AppHandlesInv
<1>2. CASE ctx.exists /\ (known \/ (ctx.key = c /\ enb[c].at = e)) /\ ctx.key = None
  <2>0. /\ known /\ c <= ctx.enb_ue /\ ctx.enb_ue \in Conns /\ ~Rejected(c)
        /\ ctx.enb_ue <= ctx.enb_ue /\ ctx.enb_ue # ctx.key
    BY <1>2, <1>c, <1>k, ConnsAreNumbers
  <2>1. /\ ctx' = [(IF cause = "sctp" THEN ToIdle(ctx) ELSE ctx) EXCEPT !.cause = cause]
        /\ s1ap' = IF cause = "sctp"
                   THEN Append(s1ap, Command(ctx.enb_ue, e, cause)) ELSE s1ap
        /\ rab' = rab
    BY <1>2 DEF Release
  <2>2. /\ ctx' \in Contexts /\ ctx'.enb_ue = ctx.enb_ue /\ ctx'.exists = ctx.exists
        /\ ctx'.registered = ctx.registered /\ ctx'.key = None /\ ctx'.cause = cause
    <3>1. /\ ToIdle(ctx) \in Contexts /\ ToIdle(ctx).enb_ue = ctx.enb_ue
          /\ ToIdle(ctx).exists = ctx.exists /\ ToIdle(ctx).registered = ctx.registered
          /\ ToIdle(ctx).key = None
      BY <1>c DEF ToIdle, Contexts, Kinds
    <3>2. ASSUME NEW x \in Contexts
          PROVE  LET y == [x EXCEPT !.cause = cause]
                 IN  /\ y \in Contexts /\ y.enb_ue = x.enb_ue /\ y.exists = x.exists
                     /\ y.registered = x.registered /\ y.key = x.key /\ y.cause = cause
      BY <1>c DEF Contexts, Causes
    <3> QED
      BY ZenonT(60), <1>2, <1>c, <2>1, <3>1, <3>2
  <2>3. S1apGrows
    <3>1. CASE cause # "sctp"
      BY <1>p, <2>1, <3>1, S1apStays
    <3>2. CASE cause = "sctp"
      <4> PICK m : m = Command(ctx.enb_ue, e, cause)
        OBVIOUS
      <4>1. m \in S1apMsgs /\ m.type = "command" /\ m.conn = ctx.enb_ue /\ ~Effective(m)
        BY <1>c, <3>2 DEF Command, S1apMsgs, Commands, Causes, Effective
      <4>2. ~Rejected(ctx.enb_ue)
        BY <1>p DEF Rejected, InS1apOf, S1apOK
      <4>3. S1apFresh(m)
        BY <2>0, <4>1, <4>2 DEF S1apFresh
      <4> QED
        BY <1>p, <2>1, <3>2, <4>1, <4>3, S1apGrowsByOne
    <3> QED
      BY <3>1, <3>2
  <2>4. WantsRelease(c) => Released(c)'
    <3>1. WantsRelease(c) => InCommand(c)
      BY <1>2, <1>c, <2>0, OtherGoes DEF WantsRelease
    <3> QED
      BY <1>p, <2>3, <3>1, S1apGrown DEF Released, InCommand
  <2>5. SameUe /\ nas \in Seq(NasMsgs)
    BY <1>n, <2>2
  <2> QED
    BY <1>2, <1>a, <1>c, <2>1, <2>2, <2>3, <2>4, <2>5, AppHandlesInv
<1>3. CASE ctx.exists /\ (known \/ (ctx.key = c /\ enb[c].at = e)) /\ ctx.key # None
  <2> PICK why : why = IF "ics" \in ctx.timers THEN "told" ELSE cause
    OBVIOUS
  <2> PICK m : m = Command(c, e, why)
    OBVIOUS
  <2>k. known /\ c <= ctx.enb_ue /\ ~Rejected(c)
    BY <1>3, <1>k
  <2>1. /\ ctx' = [StopIcs(ctx) EXCEPT !.cause = why]
        /\ rab' = IF ctx.registered THEN rab + 1 ELSE rab
        /\ s1ap' = IF ctx.registered THEN s1ap ELSE Append(s1ap, m)
    BY <1>3 DEF Release
  <2>2. /\ ctx' \in Contexts /\ ctx'.enb_ue = ctx.enb_ue /\ ctx'.exists = ctx.exists
        /\ ctx'.registered = ctx.registered /\ ctx'.key = ctx.key /\ ctx'.cause = why
    <3>1. /\ StopIcs(ctx) \in Contexts /\ StopIcs(ctx).enb_ue = ctx.enb_ue
          /\ StopIcs(ctx).exists = ctx.exists /\ StopIcs(ctx).registered = ctx.registered
          /\ StopIcs(ctx).key = ctx.key
      BY <1>c DEF StopIcs, Contexts
    <3>2. why \in {"told", "sctp"}
      BY <1>c
    <3>3. ASSUME NEW x \in Contexts
          PROVE  LET y == [x EXCEPT !.cause = why]
                 IN  /\ y \in Contexts /\ y.enb_ue = x.enb_ue /\ y.exists = x.exists
                     /\ y.registered = x.registered /\ y.key = x.key /\ y.cause = why
      BY SMTT(60), <3>2 DEF Contexts, Causes
    <3> QED
      BY <2>1, <3>1, <3>3
  <2>3. m \in S1apMsgs /\ S1apFresh(m) /\ m.type = "command" /\ m.conn = c
    <3>1. m \in S1apMsgs /\ m.type = "command" /\ m.conn = c /\ m.at = e
      BY <1>c DEF Command, S1apMsgs, Commands, Causes
    <3>2. e = None \/ e = enb[c].at
      OBVIOUS
    <3> QED
      BY <1>c, <2>k, <3>1, <3>2 DEF S1apFresh, Effective
  <2>4. /\ S1apGrows
        /\ ctx.registered => \A i \in 1 .. Len(s1ap') : ~(i > Len(s1ap))
        /\ ~ctx.registered => m \in Messages(s1ap)'
    <3>1. CASE ctx.registered
      BY SMTT(60), <1>p, <1>c, <2>1, <3>1, S1apStays
    <3>2. CASE ~ctx.registered
      BY <1>p, <2>1, <2>3, <3>2, S1apGrowsByOne, S1apPut
    <3> QED
      BY <3>1, <3>2
  <2>5. ctx.registered /\ WantsRelease(c) => Released(c)'
    <3>1. CASE c = ctx.key /\ ctx.registered
      BY <1>c, <2>1, <2>2, <3>1 DEF Released
    <3>3. CASE c # ctx.key
      <4>1. WantsRelease(c) => InCommand(c)
        BY <1>3, <2>k, <3>3, OtherGoes DEF WantsRelease
      <4> QED
        BY <1>p, <2>4, <4>1, S1apGrown DEF Released, InCommand
    <3> QED
      BY <3>1, <3>3
  <2>6. SameUe /\ nas \in Seq(NasMsgs)
    BY <1>n, <2>2
  <2>7. rab' \in Nat /\ rab' >= rab
    BY <1>c, <2>1
  <2> QED
    BY <1>a, <1>c, <2>2, <2>4, <2>5, <2>6, <2>7, AppHandlesInv
<1> QED
  BY <1>1, <1>2, <1>3

LEMMA AppReleaseRequestInv ==
  ASSUME IInv, AppReleaseRequest
  PROVE  IInv'
<1> PICK c : c = Head(app).conn
  OBVIOUS
<1>0. /\ app # <<>> /\ app' = Tail(app) /\ Head(app).type = "release"
      /\ Release(TRUE, c, enb[c].at, "told")
      /\ UNCHANGED <<emm, refs, lost, enb, nas, esm, left>>
  BY DEF AppReleaseRequest, AppMessage, Received
<1>1. c \in Conns
  BY <1>0, Parts, AppTaken, ConnsOfMessages DEF NamesOne
<1> QED
  BY <1>0, <1>1, AppReleaseInv

LEMMA AppEnbDeregisteredInv ==
  ASSUME IInv, AppEnbDeregistered
  PROVE  IInv'
<1> PICK c : c = Head(app).conn
  OBVIOUS
<1>0. /\ app # <<>> /\ app' = Tail(app)
      /\ \/ Head(app).type = "dereg" /\ Release(TRUE, c, None, "sctp")
         \/ Head(app).type = "deregNew" /\ Release(FALSE, c, None, "sctp")
      /\ UNCHANGED <<emm, refs, lost, enb, nas, esm, left>>
  BY DEF AppEnbDeregistered, AppMessage, Received
<1>1. c \in Conns
  BY <1>0, Parts, AppTaken, ConnsOfMessages DEF NamesOne
<1>2. CASE Head(app).type = "dereg" /\ Release(TRUE, c, None, "sctp")
  BY <1>0, <1>1, <1>2, AppReleaseInv
<1>3. CASE Head(app).type = "deregNew" /\ Release(FALSE, c, None, "sctp")
  BY <1>0, <1>1, <1>3, AppReleaseInv
<1> QED
  BY <1>0, <1>2, <1>3

LEMMA AppReleaseCompleteInv ==
  ASSUME IInv, AppReleaseComplete
  PROVE  IInv'
<1>p. /\ StateTyped /\ QueuesOK /\ Core /\ AppOK /\ AppOrder /\ PresentOnly /\ AttachedOK
      /\ DetachOK /\ KeyGoes /\ OthersBefore /\ ReleaseUnderWay /\ DetachUnderWay
  BY Parts
<1> PICK c : c = Head(app).conn
  OBVIOUS
<1> PICK h : h = Head(app)
  OBVIOUS
<1>0. /\ app # <<>> /\ app' = Tail(app) /\ h.type = "complete" /\ h.conn = c
      /\ UNCHANGED <<emm, refs, lost, enb, s1ap, nas, rab, esm, left>>
  BY DEF AppReleaseComplete, AppMessage, Received
<1>h. /\ h \in Messages(app) /\ c \in Conns \cup {None}
      /\ \A m \in Messages(app) : m = h \/ m \in Messages(app)'
      /\ Messages(app)' \subseteq Messages(app)
  BY <1>0, <1>p, AppTaken, ConnsOfMessages
<1>c. ctx \in Contexts /\ (ctx.key # None => ctx.key = ctx.enb_ue)
  BY <1>p DEF StateTyped
<1>i. /\ ToIdle(ctx) \in Contexts /\ ToIdle(ctx).enb_ue = ctx.enb_ue
      /\ ToIdle(ctx).exists = ctx.exists /\ ToIdle(ctx).registered = ctx.registered
      /\ ToIdle(ctx).key = None /\ ToIdle(ctx).cause = ctx.cause
  BY <1>c DEF ToIdle, Contexts, Kinds
<1>1. /\ ctx' \in Contexts /\ ctx'.enb_ue = ctx.enb_ue
      /\ ctx'.cause = ctx.cause
      /\ \/ ctx' = ctx /\ (ctx.exists => ctx.registered /\ ~(c # None /\ c = ctx.enb_ue))
         \/ ~ctx.registered /\ ~ctx'.registered /\ ~ctx'.exists /\ ctx'.key = None
         \/ /\ ctx.registered /\ ctx'.registered /\ ctx'.exists = ctx.exists
            /\ c # None /\ c = ctx.enb_ue /\ ctx'.key = None
  <2>1. CASE ~ctx.exists \/ (ctx.registered /\ ~(c # None /\ c = ctx.enb_ue))
    BY <1>c, <2>1 DEF AppReleaseComplete
  <2>2. CASE ctx.exists /\ ctx.registered /\ c # None /\ c = ctx.enb_ue
    <3>1. ctx' = ToIdle(ctx)
      BY <2>2 DEF AppReleaseComplete
    <3> QED
      BY <1>i, <2>2, <3>1
  <2>3. CASE ctx.exists /\ ~ctx.registered
    <3> PICK x : x = IF c # None /\ c = ctx.enb_ue THEN ToIdle(ctx) ELSE ctx
      OBVIOUS
    <3>1. ctx' = NoContext(x)
      BY <2>3 DEF AppReleaseComplete
    <3>2. x \in Contexts /\ x.enb_ue = ctx.enb_ue /\ x.cause = ctx.cause
      BY <1>c, <1>i
    <3>3. /\ NoContext(x) \in Contexts /\ NoContext(x).enb_ue = x.enb_ue
          /\ NoContext(x).cause = x.cause /\ ~NoContext(x).registered
          /\ ~NoContext(x).exists /\ NoContext(x).key = None
      BY <3>2 DEF NoContext, Contexts
    <3> QED
      BY <2>3, <3>1, <3>2, <3>3
  <2> QED
    BY <2>1, <2>2, <2>3
<1>d. ctx'.exists /\ ctx'.key # ctx.key => ~Live(ctx.key) /\ c = ctx.key /\ c \in Conns
  BY <1>0, <1>1, <1>c, <1>h, <1>p DEF AppOK, Live, HasId
<1>e. ctx'.exists => ctx.exists /\ ctx'.registered = ctx.registered
  BY <1>1
<1>2. StateTyped'
  BY <1>0, <1>1, <1>c, <1>p DEF StateTyped
<1>3. Calm /\ AppTakes /\ AppMoves /\ S1apGrows /\ S1apMoves
  BY <1>0, <1>1, <1>p, CalmStays, S1apStays DEF AppTakes, AppMoves, S1apMoves
<1>4. Core' /\ QueuesOK'
  <2>1. Core' /\ app' \in Seq(AppMsgs) /\ s1ap' \in Seq(S1apMsgs)
    BY <1>0, <1>p, <1>3, CoreKept
  <2> QED
    BY <1>0, <1>p, <2>1 DEF QueuesOK
<1>5. PresentOnly'
  <2>1. \A r \in Conns : Live(r)' = Live(r)
    BY <1>0 DEF Live, HasId
  <2>2. CASE ctx'.exists
    BY <1>0, <1>d, <1>e, <1>p, <1>3, <2>1, <2>2, PresentMoved
  <2>3. CASE ~ctx'.exists
    BY <2>3 DEF PresentOnly
  <2> QED
    BY <2>2, <2>3
<1>6. KeyGoes'
  <2> PICK k : k = ctx'.key
    OBVIOUS
  <2>1. CASE ctx'.exists /\ k # None
    <3>1. ctx' = ctx /\ ctx.registered /\ ~(c # None /\ c = ctx.enb_ue)
      BY <1>1, <2>1
    <3> QED
      BY <1>0, <1>c, <1>h, <1>p, <2>1, <3>1, KeyKept
  <2>2. CASE ~(ctx'.exists /\ k # None)
    BY <2>2 DEF KeyGoes
  <2> QED
    BY <2>1, <2>2
<1>7. OthersBefore'
  <2>1. \A i \in 1 .. Len(s1ap') : ~(i > Len(s1ap))
    <3>1. Len(s1ap) \in Nat
      BY <1>p DEF QueuesOK
    <3> QED
      BY <1>0, <3>1
  <2>2. ctx'.registered => ctx.registered
    BY <1>1
  <2>3. ctx'.key # None => ctx'.key = ctx.key
    BY <1>1
  <2> QED
    BY <1>e, <1>p, <1>3, <2>1, <2>2, <2>3, OthersGrown
<1>8. ReleaseUnderWay'
  <2>1. \A x \in Conns : WantsRelease(x)' => WantsRelease(x) /\ Live(x)
    BY <1>0 DEF WantsRelease, Live, HasId
  <2>2. ASSUME ctx'.exists, NEW x \in Conns, Live(x), Released(x)
        PROVE  Released(x)'
    <3>1. InAppOf("release", x) => InAppOf("release", x)'
      BY <1>0, <1>h DEF InAppOf
    <3>2. InAppOf("dereg", x) => InAppOf("dereg", x)'
      BY <1>0, <1>h DEF InAppOf
    <3>4. InCommand(x) => InCommand(x)'
      BY <1>0 DEF InS1apOf, Messages, InCommand
    <3>5. InApp("rabResponse") => InApp("rabResponse")'
      BY <1>0, <1>h DEF InApp
    <3>6. ctx.key = x => ctx'.key = x
      BY <1>d, <2>2
    <3>7. rab' = rab
      BY <1>0
    <3> QED
      BY <2>2, <3>1, <3>2, <3>4, <3>5, <3>6, <3>7 DEF Released
  <2>3. ctx'.registered => ctx.registered
    BY <1>1
  <2> QED
    BY <1>e, <1>p, <2>1, <2>2, <2>3, ReleaseKept
<1>i1. InApp("initial")' => InApp("initial")
  BY <1>3, <1>p, InitialsKept
<1>i2. /\ InApp("cancel") <=> InApp("cancel")'
       /\ InApp("detach") <=> InApp("detach")'
       /\ InNas("detach") <=> InNas("detach")'
       /\ InNas("implicit") <=> InNas("implicit")'
  BY <1>0, <1>h DEF InApp, InNas, Messages
<1>9. AttachedOK'
  BY <1>0, <1>1, <1>i1, <1>i2, <1>p DEF AttachedOK
<1>10. DetachOK'
  BY <1>0, <1>1, <1>i2, <1>p DEF DetachOK
<1>11. DetachUnderWay'
  <2> SUFFICES ASSUME left', ctx'.exists
               PROVE  \/ InApp("cancel")' \/ InNas("detach")' \/ InNas("implicit")'
                      \/ esm' > 0 \/ InApp("detach")'
    BY DEF DetachUnderWay
  <2>1. ctx.exists /\ left
    BY <1>0, <1>e
  <2>2. ctx.registered
    BY <1>1
  <2> QED
    BY <1>0, <1>i2, <1>p, <2>1, <2>2 DEF DetachUnderWay
<1> QED
  BY <1>2, <1>4, <1>5, <1>6, <1>7, <1>8, <1>9, <1>10, <1>11, Whole

-----------------------------------------------------------------------------
(* A UE is detached *)

\* A UE that was told to leave does not connect any more.
LEMMA NoInitial ==
  ASSUME IInv, app # <<>>, app' = Tail(app), Head(app).type \in {"cancel", "detach"}
  PROVE  left /\ ~InApp("initial")'
<1>p. QueuesOK /\ AppOrder /\ AttachedOK /\ DetachOK
  BY Parts
<1>1. /\ Head(app) \in Messages(app) /\ Messages(app)' \subseteq Messages(app)
      /\ \A n \in Messages(app)' : AppBehind(Head(app), n)
  BY <1>p, AppTaken, AppFirst
<1>2. CASE Head(app).type = "cancel"
  BY <1>p, <1>1, <1>2 DEF DetachOK, InApp, AppBehind
<1>3. CASE Head(app).type = "detach"
  BY <1>p, <1>1, <1>3 DEF AttachedOK, InApp
<1> QED
  BY <1>2, <1>3

LEMMA AppCancelLocationInv ==
  ASSUME IInv, AppCancelLocation
  PROVE  IInv'
<1>p. StateTyped /\ QueuesOK /\ DetachOK
  BY Parts
<1>0. /\ app # <<>> /\ app' = Tail(app) /\ Head(app).type = "cancel"
      /\ UNCHANGED <<emm, refs, lost, enb, s1ap, rab, esm, left>>
  BY DEF AppCancelLocation, AppMessage, Received
<1>1. /\ ctx' \in Contexts /\ ctx'.enb_ue = ctx.enb_ue /\ ctx'.exists = ctx.exists
      /\ ctx'.registered = ctx.registered /\ ctx'.key = ctx.key /\ ctx'.cause = ctx.cause
  BY <1>p DEF AppCancelLocation, StateTyped, Contexts
<1>2. S1apGrows /\ \A i \in 1 .. Len(s1ap') : ~(i > Len(s1ap))
  <2>1. Len(s1ap) \in Nat
    BY <1>p DEF QueuesOK
  <2> QED
    BY <1>0, <1>p, <2>1, S1apStays
<1>3. nas' \in Seq(NasMsgs) /\ (ctx.exists => InNas("implicit")')
  <2>1. CASE ~ctx.exists
    BY <1>p, <2>1 DEF AppCancelLocation, QueuesOK
  <2>2. CASE ctx.exists
    <3> PICK m : m = Msg("implicit", None)
      OBVIOUS
    <3>1. m \in NasMsgs /\ m.type = "implicit"
      BY DEF Msg, NasMsgs
    <3>2. nas' = Append(nas, m)
      BY <2>2 DEF AppCancelLocation, ToNas
    <3> QED
      BY <1>p, <3>1, <3>2, NasPut DEF InNas
  <2> QED
    BY <2>1, <2>2
<1>4. \A c \in Conns : ~Answers(c)
  BY <1>0, <1>1 DEF Answers
<1>5. /\ StateTyped' /\ QueuesOK' /\ Core' /\ PresentOnly' /\ KeyGoes' /\ OthersBefore'
      /\ ReleaseUnderWay' /\ Messages(app)' \subseteq Messages(app)
  <2>1. rab \in Nat
    BY <1>p DEF StateTyped
  <2> QED
    BY <1>0, <1>1, <1>2, <1>3, <1>4, <2>1, AppHandlesRest
<1>6. left /\ ~InApp("initial")'
  BY <1>0, NoInitial
<1>7. AttachedOK' /\ DetachOK' /\ DetachUnderWay'
  BY <1>0, <1>1, <1>3, <1>5, <1>6, <1>p DEF AttachedOK, DetachOK, DetachUnderWay, InApp
<1> QED
  BY <1>5, <1>7, Whole

LEMMA AppDetachRequestInv ==
  ASSUME IInv, AppDetachRequest
  PROVE  IInv'
<1>p. StateTyped /\ QueuesOK /\ DetachOK /\ KeyGoes
  BY Parts
<1>0. /\ app # <<>> /\ app' = Tail(app) /\ Head(app).type = "detach"
      /\ UNCHANGED <<emm, refs, lost, enb, nas, rab, esm, left>>
  BY DEF AppDetachRequest, AppMessage, Received
<1>c. /\ ctx \in Contexts /\ ctx.cause \in Causes /\ Len(s1ap) \in Nat /\ rab \in Nat
      /\ ctx.key # None => ctx.key = ctx.enb_ue
      /\ ctx.enb_ue \in Conns \cup {None}
  BY <1>p DEF StateTyped, Contexts, QueuesOK
<1>d. left /\ ~InApp("initial")' /\ ~emm /\ ~ctx.registered
  <2>1. InApp("detach")
    BY <1>0, <1>p, AppTaken DEF InApp
  <2> QED
    BY <1>0, <1>p, <2>1, NoInitial DEF DetachOK
<1>1. CASE ~ctx.exists
  <2>1. UNCHANGED <<ctx, s1ap>>
    BY <1>1 DEF AppDetachRequest
  <2>2. S1apGrows /\ \A i \in 1 .. Len(s1ap') : ~(i > Len(s1ap))
    BY <1>c, <1>p, <2>1, S1apStays
  <2>3. \A c \in Conns : ~Answers(c)
    BY <1>0, <2>1 DEF Answers
  <2>4. /\ StateTyped' /\ QueuesOK' /\ Core' /\ PresentOnly' /\ KeyGoes' /\ OthersBefore'
        /\ ReleaseUnderWay' /\ Messages(app)' \subseteq Messages(app)
    BY <1>0, <1>1, <1>c, <1>p, <2>1, <2>2, <2>3, AppHandlesRest DEF QueuesOK
  <2>5. AttachedOK' /\ DetachOK' /\ DetachUnderWay'
    BY <1>0, <1>1, <1>d, <1>p, <2>1, <2>4
    DEF AttachedOK, DetachOK, DetachUnderWay, InApp
  <2> QED
    BY <2>4, <2>5, Whole
<1>2. CASE ctx.exists
  <2> PICK why : why = IF ctx.key = None THEN "implicit"
                       ELSE IF ctx.cause = "invalid" THEN "told" ELSE ctx.cause
    OBVIOUS
  <2> PICK m : m = Command(ctx.enb_ue, EnbOf(ctx.enb_ue), why)
    OBVIOUS
  <2>1. why \in Causes
    BY <1>c DEF Causes
  <2>2. /\ s1ap' = Append(s1ap, m)
        /\ ctx' = IF ctx.key = None \/ why = "sctp" THEN NoContext(ctx)
                  ELSE [ctx EXCEPT !.cause = why]
    BY <1>2 DEF AppDetachRequest
  <2>3. /\ m \in S1apMsgs /\ S1apFresh(m) /\ m.conn = ctx.enb_ue
        /\ ctx.enb_ue # None => Effective(m)
    BY <2>1, PresentCommand
  <2>4. S1apGrows /\ m \in Messages(s1ap)'
    BY <1>p, <2>2, <2>3, S1apGrowsByOne, S1apPut
  <2>5. /\ ctx' \in Contexts /\ ctx'.enb_ue = ctx.enb_ue /\ ~ctx'.registered
        /\ \/ ~ctx'.exists /\ ctx'.key = None
           \/ ctx.key # None /\ ctx'.key = ctx.key
    <3>1. CASE ctx.key = None \/ why = "sctp"
      BY <1>c, <2>2, <3>1 DEF NoContext, Contexts
    <3>2. CASE ~(ctx.key = None \/ why = "sctp")
      BY <1>c, <1>d, <2>1, <2>2, <3>2 DEF Contexts
    <3> QED
      BY <3>1, <3>2
  <2>6. ctx'.exists => \A c \in Conns : ~Answers(c)
    BY <1>0, <2>5 DEF Answers
  <2>7. /\ StateTyped' /\ QueuesOK' /\ Core' /\ PresentOnly' /\ KeyGoes' /\ OthersBefore'
        /\ ReleaseUnderWay' /\ Messages(app)' \subseteq Messages(app)
        /\ \A n \in Messages(app) : n = Head(app) \/ n \in Messages(app)'
    BY <1>0, <1>2, <1>c, <1>p, <2>4, <2>5, <2>6, AppHandlesRest DEF QueuesOK
  <2>8. ctx'.exists => EndUnderWay'
    <3> SUFFICES ASSUME ctx'.exists
                 PROVE  EndUnderWay'
      OBVIOUS
    <3> PICK u : u = ctx.enb_ue
      OBVIOUS
    <3>1. u = ctx.key /\ u # None /\ u \in Conns /\ ctx'.enb_ue = u
      BY <1>c, <2>5
    <3>2. CASE refs[u] = "none"
      <4>1. InApp("complete")
        BY <1>2, <1>p, <3>1, <3>2 DEF KeyGoes, InAppOf, InApp
      <4>2. InApp("complete")'
        BY <1>0, <2>7, <4>1 DEF InApp
      <4> QED
        BY <4>2 DEF EndUnderWay
    <3>3. CASE refs[u] # "none"
      <4>1. refs[u] \in {"crr", "untimed", "lapsed"} \/ Live(u)
        BY <1>p, <3>1, <3>3 DEF StateTyped, RefStates, Live, HasId
      <4>2. InCommand(u)'
        BY <2>3, <2>4, <3>1 DEF InCommand
      <4>3. Live(u) => Live(u)'
        BY <1>0 DEF Live, HasId
      <4> QED
        BY <1>0, <3>1, <4>1, <4>2, <4>3 DEF EndUnderWay
    <3> QED
      BY <3>2, <3>3
  <2>9. AttachedOK' /\ DetachOK' /\ DetachUnderWay'
    BY <1>0, <1>d, <2>5, <2>8 DEF AttachedOK, DetachOK, DetachUnderWay
  <2> QED
    BY <2>7, <2>9, Whole
<1> QED
  BY <1>1, <1>2

-----------------------------------------------------------------------------
(* Steps that put messages into the queue of MME_APP *)

LEMMA PutsRest ==
  ASSUME IInv, AppGrows, Calm, enb' \in [Conns -> EnbConns], refs' \in [Conns -> RefStates],
         lost' \subseteq Enbs, rab' \in Nat, nas' \in Seq(NasMsgs), emm' \in BOOLEAN,
         esm' \in Nat, left' \in BOOLEAN,
         UNCHANGED <<ctx, s1ap>>,
         \A c \in Conns : refs[c] # "none" /\ refs'[c] = "none" => InAppOf("complete", c)',
         \A c \in Conns : WantsRelease(c)' =>
           Released(c)' \/ (WantsRelease(c) /\ (Released(c) => Released(c)'))
  PROVE  /\ StateTyped' /\ QueuesOK' /\ Core' /\ PresentOnly' /\ KeyGoes' /\ OthersBefore'
         /\ ReleaseUnderWay'
         /\ EndUnderWay => EndUnderWay'
         /\ Messages(app) \subseteq Messages(app)'
<1>p. /\ StateTyped /\ QueuesOK /\ Core /\ PresentOnly /\ KeyGoes /\ OthersBefore
      /\ ReleaseUnderWay /\ DetachUnderWay /\ AppOrder
  BY Parts
<1>1. StateTyped'
  BY <1>p DEF StateTyped
<1>3. AppMoves /\ S1apGrows /\ S1apMoves
  BY <1>p, S1apStays DEF AppMoves, S1apMoves
<1>4. Core' /\ QueuesOK'
  <2>1. Core' /\ app' \in Seq(AppMsgs) /\ s1ap' \in Seq(S1apMsgs)
    BY <1>p, <1>3, CoreKept
  <2> QED
    BY <2>1 DEF QueuesOK
<1>a. Messages(app) \subseteq Messages(app)'
  BY <1>p, AppGrown
<1>5. PresentOnly'
  BY <1>p, <1>3, PresentMoved
<1>6. KeyGoes'
  <2> PICK k : k = ctx'.key
    OBVIOUS
  <2>1. k # None => k \in Conns
    BY <1>1 DEF StateTyped, Contexts
  <2> QED
    BY <1>a, <1>p, <2>1, KeyKept
<1>7. OthersBefore'
  <2>1. \A i \in 1 .. Len(s1ap') : ~(i > Len(s1ap))
    <3>1. Len(s1ap) \in Nat
      BY <1>p DEF QueuesOK
    <3> QED
      BY <3>1
  <2> QED
    BY <1>3, <1>p, <2>1, OthersGrown
<1>8. ReleaseUnderWay'
  BY <1>p, ReleaseKept
<1>9. EndUnderWay => EndUnderWay'
  <2>1. InApp("complete") => InApp("complete")'
    BY <1>a DEF InApp
  <2>2. \A c \in Conns : InCommand(c) => InCommand(c)'
    BY DEF InS1apOf, Messages, InCommand
  <2>3. \A c \in Conns : refs[c] # "none" /\ refs'[c] = "none" => InApp("complete")'
    BY DEF InAppOf, InApp
  <2> QED
    BY <1>p, <2>1, <2>2, <2>3, EndKept DEF Calm
<1> QED
  BY <1>1, <1>4, <1>5, <1>6, <1>7, <1>8, <1>9, <1>a

LEMMA PutsInv ==
  ASSUME IInv, AppGrows, Calm, enb' \in [Conns -> EnbConns], refs' \in [Conns -> RefStates],
         lost' \subseteq Enbs, rab' \in Nat, nas' \in Seq(NasMsgs),
         UNCHANGED <<ctx, s1ap, emm, esm, left>>, SameUe,
         \A c \in Conns : refs[c] # "none" /\ refs'[c] = "none" => InAppOf("complete", c)',
         \A c \in Conns : WantsRelease(c)' =>
           Released(c)' \/ (WantsRelease(c) /\ (Released(c) => Released(c)')),
         \A m \in Messages(app)' : m.type \in {"cancel", "detach"} => m \in Messages(app)
  PROVE  IInv'
<1>p. StateTyped /\ QueuesOK
  BY Parts
<1>1. emm' \in BOOLEAN /\ esm' \in Nat /\ left' \in BOOLEAN
  BY <1>p DEF StateTyped
<1>2. /\ StateTyped' /\ QueuesOK' /\ Core' /\ PresentOnly' /\ KeyGoes' /\ OthersBefore'
      /\ ReleaseUnderWay'
      /\ EndUnderWay => EndUnderWay'
  BY <1>1, PutsRest
<1>3. AppMoves /\ ~AppTakes
  <2>1. ~AppTakes
    BY <1>p, Taken DEF AppGrows, Grows, AppTakes, QueuesOK
  <2> QED
    BY <2>1 DEF AppMoves
<1>4. AttachedOK' /\ DetachOK' /\ DetachUnderWay'
  BY <1>2, <1>3, UeKept
<1> QED
  BY <1>2, <1>4, Whole

\* Releases go on while nothing but the queue of MME_APP changes.
LEMMA ReleasedStays ==
  ASSUME QueuesOK, AppGrows, UNCHANGED <<ctx, s1ap>>, rab' >= rab \/ InApp("rabResponse")',
         rab \in Nat, rab' \in Nat
  PROVE  \A c \in Conns : Released(c) => Released(c)'
<1>1. Messages(app) \subseteq Messages(app)'
  BY AppGrown
<1>2. InApp("rabResponse") => InApp("rabResponse")'
  BY <1>1 DEF InApp
<1>3. rab > 0 => rab' > 0 \/ InApp("rabResponse")'
  OBVIOUS
<1>4. \A c, t : InAppOf(t, c) => InAppOf(t, c)'
  BY <1>1 DEF InAppOf
<1>5. \A c : InCommand(c) => InCommand(c)'
  BY DEF InS1apOf, Messages, InCommand
<1> QED
  BY <1>2, <1>3, <1>4, <1>5 DEF Released

\* A message of which nothing hangs, in the queue of MME_APP.
LEMMA PlainMessage ==
  ASSUME IInv, NEW type \in NamesAny, type \notin {"cancel", "detach"}, NEW m,
         m = Msg(type, None), app' = Append(app, m)
  PROVE  /\ AppGrows /\ m \in Messages(app)' /\ m.type = type
         /\ \A x \in Messages(app)' : x.type \in {"cancel", "detach"} => x \in Messages(app)
<1>p. QueuesOK
  BY Parts
<1>1. m \in AppMsgs /\ m.type = type /\ m.conn = None
  BY DEF Msg, AppMsgs
<1>2. AppFresh(m, refs')
  BY <1>1 DEF AppFresh, NamesAny
<1> QED
  BY <1>1, <1>2, <1>p, AppGrowsByOne, AppPut

LEMMA NasInitialInv ==
  ASSUME IInv, NasInitial
  PROVE  IInv'
<1>p. StateTyped /\ QueuesOK
  BY Parts
<1>0. /\ nas # <<>> /\ Head(nas).type = "initial" /\ nas' = Tail(nas)
      /\ UNCHANGED <<ctx, emm, refs, lost, enb, s1ap, rab, esm, left>>
  BY DEF NasInitial, Received
<1> PICK type \in {"cnf", "dl", "dlEnd"} : app' = Append(app, Msg(type, None))
  BY DEF NasInitial, ToApp
<1> PICK m : m = Msg(type, None)
  OBVIOUS
<1>1. /\ AppGrows
      /\ \A x \in Messages(app)' : x.type \in {"cancel", "detach"} => x \in Messages(app)
  <2>1. type \in NamesAny /\ type \notin {"cancel", "detach"}
    BY DEF NamesAny
  <2> QED
    BY <2>1, PlainMessage
<1>2. nas' \in Seq(NasMsgs) /\ SameUe
  BY <1>0, <1>p, NasTaken DEF SameUe, InNas
<1>3. Calm
  BY <1>0, CalmStays
<1>4. rab \in Nat /\ \A c \in Conns : Released(c) => Released(c)'
  <2>1. rab \in Nat
    BY <1>p DEF StateTyped
  <2> QED
    BY <1>0, <1>1, <1>p, <2>1, ReleasedStays
<1>5. \A c \in Conns : WantsRelease(c)' => WantsRelease(c)
  BY <1>0 DEF WantsRelease, Live, HasId
<1> QED
  BY <1>0, <1>1, <1>2, <1>3, <1>4, <1>5, <1>p, PutsInv DEF StateTyped

LEMMA SgwAnswersInv ==
  ASSUME IInv, SgwAnswers
  PROVE  IInv'
<1>p. StateTyped /\ QueuesOK
  BY Parts
<1>0. /\ rab > 0 /\ rab' = rab - 1 /\ app' = Append(app, Msg("rabResponse", None))
      /\ UNCHANGED <<ctx, emm, refs, lost, enb, s1ap, nas, esm, left>>
  BY DEF SgwAnswers, ToApp
<1> PICK m : m = Msg("rabResponse", None)
  OBVIOUS
<1>1. /\ AppGrows /\ m \in Messages(app)' /\ m.type = "rabResponse"
      /\ \A x \in Messages(app)' : x.type \in {"cancel", "detach"} => x \in Messages(app)
  <2>1. "rabResponse" \in NamesAny /\ "rabResponse" \notin {"cancel", "detach"}
    BY DEF NamesAny
  <2> QED
    BY <1>0, <2>1, PlainMessage
<1>2. nas' \in Seq(NasMsgs) /\ SameUe
  BY <1>0, <1>p DEF SameUe, InNas, Messages, QueuesOK
<1>3. Calm
  BY <1>0, CalmStays
<1>4. rab' \in Nat /\ \A c \in Conns : Released(c) => Released(c)'
  <2>1. rab \in Nat /\ rab' \in Nat
    BY <1>0, <1>p DEF StateTyped
  <2>2. InApp("rabResponse")'
    BY <1>1 DEF InApp
  <2> QED
    BY <1>0, <1>1, <1>p, <2>1, <2>2, ReleasedStays
<1>5. \A c \in Conns : WantsRelease(c)' => WantsRelease(c)
  BY <1>0 DEF WantsRelease, Live, HasId
<1> QED
  BY <1>0, <1>1, <1>2, <1>3, <1>4, <1>5, <1>p, PutsInv DEF StateTyped

\* A reference that has the MME UE S1AP ID of the UE is not one of a rejected message.
LEMMA HasIdNotRejected ==
  ASSUME S1apOK, NEW c \in Conns, HasId(c)
  PROVE  ~Rejected(c)
  BY DEF S1apOK, Rejected, InS1apOf, HasId

LEMMA ReleaseRequestInv ==
  ASSUME IInv, NEW c \in Conns, ReleaseRequest(c)
  PROVE  IInv'
<1>p. StateTyped /\ QueuesOK /\ ConnectionsOK /\ OneWithId /\ S1apOK
  BY Parts
<1>0. /\ enb[c].phase \in {"known", "commanded"}
      /\ enb' = [enb EXCEPT ![c].asked = TRUE]
      /\ UNCHANGED <<ctx, emm, refs, lost, s1ap, nas, rab, esm, left>>
  BY DEF ReleaseRequest
<1>c. c <= ctx.enb_ue /\ refs[c] # "new"
  BY <1>0, <1>p DEF ConnectionsOK
<1> PICK m : m = Msg("release", c)
  OBVIOUS
<1>m. m \in AppMsgs /\ m.type = "release" /\ m.conn = c
  BY DEF Msg, AppMsgs, NamesOne
<1>a. \/ app' = app /\ WithId = {}
      \/ app' = app /\ \E r \in WithId : r # c
      \/ app' = Append(app, m) /\ c \in WithId
  <2>1. CASE WithId = {}
    BY <2>1 DEF ReleaseRequest
  <2>2. CASE WithId # {}
    <3>1. PICK r \in WithId : IF r = c THEN ToApp(Msg("release", c)) ELSE UNCHANGED app
      BY <2>2 DEF ReleaseRequest
    <3> QED
      BY <3>1 DEF ToApp
  <2> QED
    BY <2>1, <2>2
<1>1. /\ AppGrows
      /\ \A x \in Messages(app)' : x.type \in {"cancel", "detach"} => x \in Messages(app)
      /\ app' = app \/ InAppOf("release", c)'
  <2>1. CASE app' = app
    BY <1>p, <2>1, AppStays DEF Messages
  <2>2. CASE app' = Append(app, m) /\ c \in WithId
    <3>0. ~Rejected(c)
      BY <1>a, <1>p, <2>2, HasIdNotRejected DEF WithId
    <3>1. AppFresh(m, refs')
      BY <1>c, <1>m, <3>0 DEF AppFresh
    <3>2. Messages(app)' = Messages(app) \cup {m}
      BY <1>m, <1>p, <2>2, AppPut
    <3> QED
      BY <1>m, <1>p, <2>2, <3>1, <3>2, AppGrowsByOne DEF InAppOf
  <2> QED
    BY <1>a, <2>1, <2>2
<1>2. nas' \in Seq(NasMsgs) /\ SameUe
  BY <1>0, <1>p DEF SameUe, InNas, Messages, QueuesOK
<1>3. /\ enb' \in [Conns -> EnbConns]
      /\ enb'[c].at = enb[c].at /\ enb'[c].phase = enb[c].phase
      /\ enb'[c].unnamed = enb[c].unnamed
      /\ \A x \in Conns : x # c => enb'[x] = enb[x]
  <2>1. enb[c] \in EnbConns /\ enb \in [Conns -> EnbConns]
    BY <1>p DEF StateTyped
  <2> QED
    BY <1>0, <2>1 DEF EnbConns
<1>4. Calm
  BY <1>0, <1>3, <1>c DEF Calm, Steady, HasId
<1>5. rab \in Nat /\ \A x \in Conns : Released(x) => Released(x)'
  <2>1. rab \in Nat
    BY <1>p DEF StateTyped
  <2> QED
    BY <1>0, <1>1, <1>p, <2>1, ReleasedStays
<1>6. ASSUME NEW x \in Conns, WantsRelease(x)'
      PROVE  Released(x)' \/ WantsRelease(x)
  <2>1. CASE x # c
    BY <1>0, <1>3, <1>6, <2>1 DEF WantsRelease, Live, HasId
  <2>2. CASE x = c
    <3>1. c \in WithId
      BY <1>0, <1>6, <1>c, <2>2 DEF WithId, WantsRelease, Live, HasId
    <3>2. app' = Append(app, m)
      BY <1>a, <1>p, <3>1 DEF OneWithId
    <3>3. Messages(app)' = Messages(app) \cup {m}
      BY <1>m, <1>p, <3>2, AppPut
    <3> QED
      BY <1>m, <2>2, <3>3 DEF InAppOf, Released
  <2> QED
    BY <2>1, <2>2
<1> QED
  BY <1>0, <1>1, <1>2, <1>3, <1>4, <1>5, <1>6, <1>p, PutsInv DEF StateTyped

LEMMA SetupAnswerInv ==
  ASSUME IInv, NEW c \in Conns, NEW type \in {"icsResponse", "icsFailure"}, SetupAnswer(c, type)
  PROVE  IInv'
<1>p. StateTyped /\ QueuesOK
  BY Parts
<1>0. /\ enb' = [enb EXCEPT ![c].ics = FALSE]
      /\ UNCHANGED <<ctx, emm, refs, lost, s1ap, nas, rab, esm, left>>
  BY DEF SetupAnswer
<1>a. app' = app \/ app' = Append(app, Msg(type, None))
  <2>1. CASE WithId = {}
    BY <2>1 DEF SetupAnswer
  <2>2. CASE WithId # {}
    BY <2>2 DEF SetupAnswer, ToApp
  <2> QED
    BY <2>1, <2>2
<1>1. /\ AppGrows
      /\ \A x \in Messages(app)' : x.type \in {"cancel", "detach"} => x \in Messages(app)
  <2>1. CASE app' = app
    BY <1>p, <2>1, AppStays DEF Messages
  <2>2. CASE app' = Append(app, Msg(type, None))
    <3>1. type \in NamesAny /\ type \notin {"cancel", "detach"}
      BY DEF NamesAny
    <3> QED
      BY <2>2, <3>1, PlainMessage
  <2> QED
    BY <1>a, <2>1, <2>2
<1>2. nas' \in Seq(NasMsgs) /\ SameUe
  BY <1>0, <1>p DEF SameUe, InNas, Messages, QueuesOK
<1>3. /\ enb' \in [Conns -> EnbConns]
      /\ \A x \in Conns : /\ enb'[x].at = enb[x].at /\ enb'[x].phase = enb[x].phase
                          /\ enb'[x].asked = enb[x].asked
                          /\ enb'[x].unnamed = enb[x].unnamed
  <2>1. enb[c] \in EnbConns /\ enb \in [Conns -> EnbConns]
    BY <1>p DEF StateTyped
  <2> QED
    BY <1>0, <2>1 DEF EnbConns
<1>4. Calm
  BY <1>0, <1>3 DEF Calm, Steady, HasId
<1>5. rab \in Nat /\ \A x \in Conns : Released(x) => Released(x)'
  <2>1. rab \in Nat
    BY <1>p DEF StateTyped
  <2> QED
    BY <1>0, <1>1, <1>p, <2>1, ReleasedStays
<1>6. \A x \in Conns : WantsRelease(x)' => WantsRelease(x)
  BY <1>0, <1>3 DEF WantsRelease, Live, HasId
<1> QED
  BY <1>0, <1>1, <1>2, <1>3, <1>4, <1>5, <1>6, <1>p, PutsInv DEF StateTyped

LEMMA ReleaseCompleteInv ==
  ASSUME IInv, NEW c \in Conns, ReleaseComplete(c)
  PROVE  IInv'
<1>p. StateTyped /\ QueuesOK /\ ConnectionsOK
  BY Parts
<1>0. /\ enb[c].phase = "commanded"
      /\ enb' = [enb EXCEPT ![c].phase = "gone"]
      /\ UNCHANGED <<ctx, emm, lost, s1ap, nas, rab, esm, left>>
  BY DEF ReleaseComplete
<1>c. c <= ctx.enb_ue /\ refs \in [Conns -> RefStates]
  BY <1>0, <1>p DEF ConnectionsOK, StateTyped
<1> PICK m : m = Msg("complete", c)
  OBVIOUS
<1>m. m \in AppMsgs /\ m.type = "complete" /\ m.conn = c
  BY DEF Msg, AppMsgs, NamesAny
<1>a. \/ refs' = refs /\ app' = app
      \/ refs' = [refs EXCEPT ![c] = "none"] /\ app' = Append(app, m)
  BY DEF ReleaseComplete, ToApp
<1>r. /\ refs' \in [Conns -> RefStates]
      /\ \A x \in Conns : refs'[x] = refs[x] \/ (x = c /\ refs'[x] = "none")
  BY <1>a, <1>c DEF RefStates
<1>1. /\ AppGrows
      /\ \A x \in Messages(app)' : x.type \in {"cancel", "detach"} => x \in Messages(app)
      /\ refs' = refs \/ InAppOf("complete", c)'
  <2>1. CASE refs' = refs /\ app' = app
    BY <1>p, <2>1, AppStays DEF Messages
  <2>2. CASE refs' = [refs EXCEPT ![c] = "none"] /\ app' = Append(app, m)
    <3>1. refs'[c] = "none"
      BY <1>c, <2>2
    <3>2. AppFresh(m, refs')
      BY <1>c, <1>m, <3>1 DEF AppFresh
    <3>3. Messages(app)' = Messages(app) \cup {m}
      BY <1>m, <1>p, <2>2, AppPut
    <3> QED
      BY <1>m, <1>p, <2>2, <3>2, <3>3, AppGrowsByOne DEF InAppOf
  <2> QED
    BY <1>a, <2>1, <2>2
<1>2. nas' \in Seq(NasMsgs) /\ SameUe
  BY <1>0, <1>p DEF SameUe, InNas, Messages, QueuesOK
<1>3. /\ enb' \in [Conns -> EnbConns]
      /\ \A x \in Conns : /\ enb'[x].at = enb[x].at /\ enb'[x].asked = enb[x].asked
                          /\ enb'[x].unnamed = enb[x].unnamed
                          /\ enb'[x].phase = enb[x].phase \/ (x = c /\ enb'[x].phase = "gone")
  <2>1. enb[c] \in EnbConns /\ enb \in [Conns -> EnbConns]
    BY <1>p DEF StateTyped
  <2> QED
    BY <1>0, <2>1 DEF EnbConns, Phases
<1>4. Calm
  BY <1>0, <1>3, <1>c, <1>r DEF Calm, Steady, HasId
<1>5. rab \in Nat /\ \A x \in Conns : Released(x) => Released(x)'
  <2>1. rab \in Nat
    BY <1>p DEF StateTyped
  <2> QED
    BY <1>0, <1>1, <1>p, <2>1, ReleasedStays
<1>6. \A x \in Conns : WantsRelease(x)' => WantsRelease(x)
  BY <1>0, <1>3, <1>r DEF WantsRelease, Live, HasId
<1>7. \A x \in Conns : refs[x] # "none" /\ refs'[x] = "none" => InAppOf("complete", x)'
  BY <1>1, <1>r
<1> QED
  BY <1>0, <1>1, <1>2, <1>3, <1>4, <1>5, <1>6, <1>7, <1>r, <1>p, PutsInv DEF StateTyped

LEMMA S1apReleaseTimerExpiryInv ==
  ASSUME IInv, NEW c \in Conns, S1apReleaseTimerExpiry(c)
  PROVE  IInv'
<1>p. StateTyped /\ QueuesOK
  BY Parts
<1>0. /\ refs[c] = "crr" /\ refs' = [refs EXCEPT ![c] = "lapsed"]
      /\ app' = Append(app, Msg("complete", None))
      /\ UNCHANGED <<ctx, emm, lost, enb, s1ap, nas, rab, esm, left>>
  BY DEF S1apReleaseTimerExpiry, ToApp
<1>r. /\ refs' \in [Conns -> RefStates]
      /\ \A x \in Conns : refs'[x] = refs[x] \/ (x = c /\ refs'[x] = "lapsed")
  BY <1>0, <1>p DEF RefStates, StateTyped
<1>1. /\ AppGrows
      /\ \A x \in Messages(app)' : x.type \in {"cancel", "detach"} => x \in Messages(app)
  <2>1. "complete" \in NamesAny /\ "complete" \notin {"cancel", "detach"}
    BY DEF NamesAny
  <2> QED
    BY <1>0, <2>1, PlainMessage
<1>2. nas' \in Seq(NasMsgs) /\ SameUe
  BY <1>0, <1>p DEF SameUe, InNas, Messages, QueuesOK
<1>4. Calm
  BY <1>0, <1>r DEF Calm, Steady, HasId
<1>5. rab \in Nat /\ \A x \in Conns : Released(x) => Released(x)'
  <2>1. rab \in Nat
    BY <1>p DEF StateTyped
  <2> QED
    BY <1>0, <1>1, <1>p, <2>1, ReleasedStays
<1>6. \A x \in Conns : WantsRelease(x)' => WantsRelease(x)
  BY <1>0, <1>r DEF WantsRelease, Live, HasId
<1>7. \A x \in Conns : refs[x] # "none" => refs'[x] # "none"
  BY <1>r
<1> QED
  BY <1>0, <1>1, <1>2, <1>4, <1>5, <1>6, <1>7, <1>r, <1>p, PutsInv DEF StateTyped

-----------------------------------------------------------------------------
(* Steps of NAS, of the UE and of HSS *)

LEMMA NasDetachesInv ==
  ASSUME IInv, nas # <<>>, Head(nas).type \in {"implicit", "detach"}, nas' = Tail(nas),
         ctx' \in Contexts, ctx'.exists = ctx.exists, ctx'.key = ctx.key,
         ctx'.enb_ue = ctx.enb_ue, ~ctx'.registered, ~emm', emm' \in BOOLEAN, esm' = esm + 1,
         UNCHANGED <<refs, lost, enb, app, s1ap, rab, left>>
  PROVE  IInv'
<1>p. /\ StateTyped /\ QueuesOK /\ Core /\ AppOrder /\ PresentOnly /\ AttachedOK /\ DetachOK
      /\ KeyGoes /\ OthersBefore /\ ReleaseUnderWay
  BY Parts
<1>0. ~InApp("initial") /\ left
  <2>1. InNas("implicit") \/ InNas("detach")
    BY <1>p, NasTaken DEF InNas
  <2> QED
    BY <1>p, <2>1 DEF AttachedOK
<1>1. StateTyped' /\ esm' > 0
  BY <1>p DEF StateTyped
<1>2. Calm /\ AppGrows /\ AppMoves /\ S1apGrows /\ S1apMoves
  BY <1>p, CalmStays, AppStays, S1apStays DEF AppMoves, S1apMoves
<1>3. Core' /\ QueuesOK'
  <2>1. Core' /\ app' \in Seq(AppMsgs) /\ s1ap' \in Seq(S1apMsgs)
    BY <1>p, <1>2, CoreKept
  <2> QED
    BY <1>p, <2>1, NasTaken DEF QueuesOK
<1>4. PresentOnly'
  BY <1>p, <1>2, PresentMoved
<1>5. KeyGoes'
  <2> PICK k : k = ctx'.key
    OBVIOUS
  <2>1. Messages(app)' = Messages(app)
    BY DEF Messages
  <2> QED
    BY <1>p, <2>1, KeyKept
<1>6. OthersBefore'
  BY DEF OthersBefore
<1>7. ReleaseUnderWay'
  <2>1. \A c \in Conns : WantsRelease(c)' => WantsRelease(c)
    BY DEF WantsRelease, Live, HasId
  <2>2. \A c \in Conns : Released(c) => Released(c)'
    BY DEF Released, InAppOf, InS1apOf, InApp, Messages, InCommand
  <2> QED
    BY <1>p, <2>1, <2>2, ReleaseKept
<1>8. AttachedOK' /\ DetachOK' /\ DetachUnderWay'
  BY <1>0, <1>1, <1>p DEF AttachedOK, DetachOK, DetachUnderWay, InApp, Messages
<1> QED
  BY <1>1, <1>3, <1>4, <1>5, <1>6, <1>7, <1>8, Whole

LEMMA NasImplicitDetachInv ==
  ASSUME IInv, NasImplicitDetach
  PROVE  IInv'
<1>p. StateTyped /\ DetachOK
  BY Parts
<1>1. /\ nas # <<>> /\ Head(nas).type = "implicit" /\ nas' = Tail(nas) /\ emm' = FALSE
      /\ esm' = esm + 1
      /\ UNCHANGED <<refs, lost, enb, app, s1ap, rab, left>>
  BY DEF NasImplicitDetach, Received
<1>2. /\ ctx' \in Contexts /\ ctx'.exists = ctx.exists /\ ctx'.key = ctx.key
      /\ ctx'.enb_ue = ctx.enb_ue /\ ~ctx'.registered
  BY <1>p DEF NasImplicitDetach, StateTyped, Contexts, Causes, DetachOK
<1> QED
  BY <1>1, <1>2, NasDetachesInv

LEMMA NasDetachRequestInv ==
  ASSUME IInv, NasDetachRequest
  PROVE  IInv'
<1>p. StateTyped /\ DetachOK
  BY Parts
<1>1. /\ nas # <<>> /\ Head(nas).type = "detach" /\ nas' = Tail(nas) /\ emm' = FALSE
      /\ esm' = esm + 1
      /\ UNCHANGED <<refs, lost, enb, app, s1ap, rab, left>>
  BY DEF NasDetachRequest, Received
<1>2. /\ ctx' \in Contexts /\ ctx'.exists = ctx.exists /\ ctx'.key = ctx.key
      /\ ctx'.enb_ue = ctx.enb_ue /\ ~ctx'.registered
  BY <1>p DEF NasDetachRequest, StateTyped, Contexts, DetachOK
<1> QED
  BY <1>1, <1>2, NasDetachesInv

LEMMA EsmDetachInv ==
  ASSUME IInv, EsmDetach
  PROVE  IInv'
<1>p. StateTyped /\ QueuesOK /\ AppOrder /\ AttachedOK /\ DetachOK
  BY Parts
<1>0. /\ esm > 0 /\ esm' = esm - 1 /\ app' = Append(app, Msg("detach", None))
      /\ UNCHANGED <<ctx, emm, refs, lost, enb, s1ap, nas, rab, left>>
  BY DEF EsmDetach, ToApp
<1> PICK m : m = Msg("detach", None)
  OBVIOUS
<1>m. m \in AppMsgs /\ m.type = "detach" /\ m.conn = None
  BY DEF Msg, AppMsgs, NamesAny
<1>1. AppGrows /\ Messages(app)' = Messages(app) \cup {m}
  <2>1. AppFresh(m, refs')
    BY <1>m DEF AppFresh
  <2> QED
    BY <1>0, <1>m, <1>p, <2>1, AppGrowsByOne, AppPut
<1>2. Calm
  BY <1>0, CalmStays
<1>3. rab \in Nat /\ esm' \in Nat /\ \A c \in Conns : Released(c) => Released(c)'
  <2>1. rab \in Nat /\ esm' \in Nat
    BY <1>0, <1>p DEF StateTyped
  <2> QED
    BY <1>0, <1>1, <1>p, <2>1, ReleasedStays
<1>4. \A c \in Conns : WantsRelease(c)' => WantsRelease(c)
  BY <1>0 DEF WantsRelease, Live, HasId
<1>5. /\ StateTyped' /\ QueuesOK' /\ Core' /\ PresentOnly' /\ KeyGoes' /\ OthersBefore'
      /\ ReleaseUnderWay'
  BY <1>0, <1>1, <1>2, <1>3, <1>4, <1>p, PutsRest DEF StateTyped, QueuesOK
<1>6. ~InApp("initial")' /\ left /\ ~emm
  BY <1>0, <1>1, <1>m, <1>p DEF AttachedOK, DetachOK, InApp, StateTyped
<1>7. AttachedOK' /\ DetachOK' /\ DetachUnderWay'
  <2>1. InApp("detach")'
    BY <1>1, <1>m DEF InApp
  <2> QED
    BY <1>0, <1>6, <1>p, <2>1 DEF AttachedOK, DetachOK, DetachUnderWay
<1> QED
  BY <1>5, <1>7, Whole

LEMMA UeDetachesInv ==
  ASSUME IInv, NEW c \in Conns, UeDetaches(c)
  PROVE  IInv'
<1>p. /\ StateTyped /\ QueuesOK /\ Core /\ ConnectionsOK /\ AppOK /\ PresentOnly /\ KeyGoes
      /\ OthersBefore /\ ReleaseUnderWay /\ AttachedOK /\ DetachOK
  BY Parts
<1>0. /\ ~left /\ enb[c].phase \in {"known", "commanded"}
      /\ \A b \in Conns : b > c => enb[b].phase = "none"
      /\ left' = TRUE /\ nas' = Append(nas, Msg("detach", None))
      /\ UNCHANGED <<ctx, emm, refs, lost, enb, app, s1ap, rab, esm>>
  BY DEF UeDetaches, ToNas
<1>1. nas' \in Seq(NasMsgs) /\ InNas("detach")'
  <2> PICK m : m = Msg("detach", None)
    OBVIOUS
  <2>1. m \in NasMsgs /\ m.type = "detach"
    BY DEF Msg, NasMsgs
  <2> QED
    BY <1>0, <1>p, <2>1, NasPut DEF InNas
<1>2. ~InApp("initial")
  <2> SUFFICES ASSUME NEW m \in Messages(app), m.type = "initial"
               PROVE  FALSE
    BY DEF InApp
  <2>1. m.conn \in Conns
    BY <1>p, ConnsOfMessages DEF NamesOne
  <2>2. c <= ctx.enb_ue /\ ctx.enb_ue < m.conn /\ enb[m.conn].phase # "none"
    BY <1>0, <1>p DEF ConnectionsOK, AppOK
  <2>3. ctx.enb_ue \in Conns \cup {None}
    BY <1>p DEF StateTyped, Contexts
  <2>4. m.conn > c
    BY <2>1, <2>2, <2>3, ConnsAreNumbers
  <2> QED
    BY <1>0, <2>1, <2>2, <2>4
<1>3. Calm /\ AppGrows /\ Messages(app)' = Messages(app)
  BY <1>0, <1>p, CalmStays, AppStays DEF Messages
<1>4. rab \in Nat /\ \A x \in Conns : Released(x) => Released(x)'
  <2>1. rab \in Nat
    BY <1>p DEF StateTyped
  <2> QED
    BY <1>0, <1>3, <1>p, <2>1, ReleasedStays
<1>5. \A x \in Conns : WantsRelease(x)' => WantsRelease(x)
  BY <1>0 DEF WantsRelease, Live, HasId
<1>6. /\ StateTyped' /\ QueuesOK' /\ Core' /\ PresentOnly' /\ KeyGoes' /\ OthersBefore'
      /\ ReleaseUnderWay'
  BY <1>0, <1>1, <1>3, <1>4, <1>5, <1>p, PutsRest DEF StateTyped
<1>7. AttachedOK' /\ DetachOK' /\ DetachUnderWay'
  BY <1>0, <1>1, <1>2, <1>3, <1>p DEF AttachedOK, DetachOK, DetachUnderWay, InApp
<1> QED
  BY <1>6, <1>7, Whole

LEMMA HssCancelsLocationInv ==
  ASSUME IInv, HssCancelsLocation
  PROVE  IInv'
<1>p. StateTyped /\ QueuesOK /\ AppOrder /\ AttachedOK /\ DetachOK
  BY Parts
<1>0. /\ ~left /\ left' = TRUE /\ app' = Append(app, Msg("cancel", None))
      /\ UNCHANGED <<ctx, emm, refs, lost, enb, s1ap, nas, rab, esm>>
  BY DEF HssCancelsLocation, ToApp
<1> PICK m : m = Msg("cancel", None)
  OBVIOUS
<1>m. m \in AppMsgs /\ m.type = "cancel" /\ m.conn = None
  BY DEF Msg, AppMsgs, NamesAny
<1>1. AppGrows /\ Messages(app)' = Messages(app) \cup {m}
  <2>1. AppFresh(m, refs')
    BY <1>m DEF AppFresh
  <2> QED
    BY <1>0, <1>m, <1>p, <2>1, AppGrowsByOne, AppPut
<1>2. Calm
  BY <1>0, CalmStays
<1>3. rab \in Nat /\ \A c \in Conns : Released(c) => Released(c)'
  <2>1. rab \in Nat
    BY <1>p DEF StateTyped
  <2> QED
    BY <1>0, <1>1, <1>p, <2>1, ReleasedStays
<1>4. \A c \in Conns : WantsRelease(c)' => WantsRelease(c)
  BY <1>0 DEF WantsRelease, Live, HasId
<1>5. /\ StateTyped' /\ QueuesOK' /\ Core' /\ PresentOnly' /\ KeyGoes' /\ OthersBefore'
      /\ ReleaseUnderWay'
  BY <1>0, <1>1, <1>2, <1>3, <1>4, <1>p, PutsRest DEF StateTyped, QueuesOK
<1>6. /\ InApp("detach")' => InApp("detach")
      /\ InNas("detach")' = InNas("detach") /\ InNas("implicit")' = InNas("implicit")
      /\ InApp("cancel")'
  BY <1>0, <1>1, <1>m DEF InApp, InNas, Messages
<1>7. AttachedOK' /\ DetachOK' /\ DetachUnderWay'
  BY <1>0, <1>6, <1>p DEF AttachedOK, DetachOK, DetachUnderWay
<1> QED
  BY <1>5, <1>7, Whole

\* The orders of a set have all its elements.
LEMMA OrderedAll ==
  ASSUME NEW S, IsFiniteSet(S), NEW order \in SetToSeqs(S)
  PROVE  order \in Seq(S) /\ \A x \in S : \E i \in 1 .. Len(order) : order[i] = x
<1> PICK n : n = Cardinality(S)
  OBVIOUS
<1>1. n \in Nat /\ order \in [1 .. n -> S] /\ \A i, j \in 1 .. n : i # j => order[i] # order[j]
  BY FS_CardinalityType DEF SetToSeqs
<1>2. order \in Injection(1 .. n, S)
  BY <1>1 DEF Injection, IsInjective
<1>3. Cardinality(1 .. n) = n
  BY <1>1, FS_Interval
<1>4. order \in Surjection(1 .. n, S)
  BY <1>2, <1>3, FS_Injection
<1>5. order \in Seq(S) /\ Len(order) = n
  BY <1>1
<1> QED
  BY <1>4, <1>5 DEF Surjection

LEMMA FunctionIsSequence ==
  ASSUME NEW T, NEW n \in Nat, NEW d \in [1 .. n -> T]
  PROVE  d \in Seq(T) /\ Len(d) = n
  OBVIOUS

\* p is q and the sequence s behind it.
Joined(S, q, s, p) ==
  /\ p \in Seq(S) /\ Len(q) \in Nat /\ Len(s) \in Nat /\ Len(p) = Len(q) + Len(s)
  /\ \A i \in 1 .. Len(q) : p[i] = q[i]
  /\ \A i \in 1 .. Len(p) : i > Len(q) => i - Len(q) \in 1 .. Len(s) /\ p[i] = s[i - Len(q)]
  /\ \A i \in 1 .. Len(s) : Len(q) + i \in 1 .. Len(p) /\ p[Len(q) + i] = s[i]

LEMMA PutAll ==
  ASSUME NEW S, NEW q \in Seq(S), NEW s \in Seq(S)
  PROVE  Joined(S, q, s, q \o s)
  BY DEF Joined

LEMMA AppPlaces ==
  ASSUME app' \in Seq(AppMsgs), NEW j \in 1 .. Len(app')
  PROVE  app'[j] \in Messages(app)'
  BY DEF Messages

\* The connections of a lost eNB and the messages about them.
LostConns(e) == {c \in Conns : Live(c) /\ enb[c].at = e}
Deregs(order) == [i \in DOMAIN order |-> Deregistered(order[i])]
Gone(x, new) == [x EXCEPT !.phase = "gone", !.unnamed = new]
WithoutEnb(e) ==
  [c \in Conns |-> IF enb[c].at = e THEN Gone(enb[c], refs[c] = "new") ELSE enb[c]]

LEMMA GoneIs ==
  ASSUME NEW x \in EnbConns, NEW new \in BOOLEAN
  PROVE  /\ Gone(x, new) \in EnbConns /\ Gone(x, new).phase = "gone"
         /\ Gone(x, new).unnamed = new
         /\ Gone(x, new).at = x.at /\ Gone(x, new).asked = x.asked
  BY DEF Gone, EnbConns, Phases

LEMMA EnbLostOrdered ==
  ASSUME IInv, NEW e \in Enbs, e \notin lost, lost' = lost \cup {e},
         enb' = WithoutEnb(e),
         UNCHANGED <<ctx, emm, refs, s1ap, nas, rab, esm, left>>,
         NEW S, S = LostConns(e), NEW order \in Seq(S),
         \A x \in S : \E i \in 1 .. Len(order) : order[i] = x,
         app' = app \o Deregs(order)
  PROVE  IInv'
<1>p. StateTyped /\ QueuesOK /\ ConnectionsOK /\ S1apOK
  BY Parts
<1>0. /\ e \notin lost /\ lost' = lost \cup {e}
      /\ enb' = WithoutEnb(e)
      /\ UNCHANGED <<ctx, emm, refs, s1ap, nas, rab, esm, left>>
  OBVIOUS
<1>l. S = {c \in Conns : Live(c) /\ enb[c].at = e}
  BY DEF LostConns
<1> PICK deregs : deregs = Deregs(order)
  OBVIOUS
<1>d. ASSUME NEW c \in S
      PROVE  /\ Deregistered(c) \in AppMsgs /\ Deregistered(c).conn = c
             /\ Deregistered(c).type \in {"dereg", "deregNew"}
             /\ refs[c] # "new" => Deregistered(c).type = "dereg"
             /\ AppFresh(Deregistered(c), refs')
  <2>1. c \in Conns /\ Live(c) /\ c # None
    BY <1>l, ConnsAreNumbers
  <2>2. /\ Deregistered(c) \in AppMsgs /\ Deregistered(c).conn = c
        /\ \/ Deregistered(c).type = "dereg" /\ refs[c] # "new"
           \/ Deregistered(c).type = "deregNew" /\ refs[c] = "new"
    BY <2>1 DEF Deregistered, Msg, AppMsgs, NamesOne
  <2>3. refs[c] # "new" => c <= ctx.enb_ue /\ ~Rejected(c)
    BY <1>p, <2>1, HasIdNotRejected DEF Live, ConnectionsOK
  <2>4. enb[c].at # None
    BY <1>l, EnbsAssumption
  <2> QED
    BY <2>2, <2>3, <2>4 DEF AppFresh
<1>q. /\ deregs \in Seq(AppMsgs) /\ Len(deregs) = Len(order)
      /\ \A i \in 1 .. Len(order) : order[i] \in S /\ deregs[i] = Deregistered(order[i])
  <2>1. Len(order) \in Nat /\ DOMAIN order = 1 .. Len(order)
        /\ \A i \in 1 .. Len(order) : order[i] \in S
    OBVIOUS
  <2>2. deregs = [i \in 1 .. Len(order) |-> Deregistered(order[i])]
    BY <2>1 DEF Deregs
  <2>3. deregs \in [1 .. Len(order) -> AppMsgs]
    BY <1>d, <2>1, <2>2
  <2>4. deregs \in Seq(AppMsgs) /\ Len(deregs) = Len(order)
    <3> PICK n : n = Len(order)
      OBVIOUS
    <3>1. n \in Nat /\ deregs \in [1 .. n -> AppMsgs]
      BY <2>1, <2>3
    <3> QED
      BY <3>1, FunctionIsSequence, Zenon
  <2>5. \A i \in 1 .. Len(order) : deregs[i] = Deregistered(order[i])
    BY <2>2, Zenon
  <2> QED
    BY <2>1, <2>4, <2>5, Zenon
<1>g. /\ app' \in Seq(AppMsgs) /\ Len(app) \in Nat /\ Len(deregs) \in Nat
      /\ Len(app') = Len(app) + Len(deregs)
      /\ \A i \in 1 .. Len(app) : app'[i] = app[i]
      /\ \A i \in 1 .. Len(app') : i > Len(app) =>
           i - Len(app) \in 1 .. Len(deregs) /\ app'[i] = deregs[i - Len(app)]
      /\ \A i \in 1 .. Len(deregs) :
           Len(app) + i \in 1 .. Len(app') /\ app'[Len(app) + i] = deregs[i]
  <2>1. app \in Seq(AppMsgs) /\ app' = app \o deregs /\ deregs \in Seq(AppMsgs)
    BY <1>p, <1>q DEF QueuesOK
  <2>2. Joined(AppMsgs, app, deregs, app \o deregs)
    BY <2>1, PutAll, Zenon
  <2>3. Joined(AppMsgs, app, deregs, app')
    BY <2>1, <2>2, Zenon
  <2> QED
    BY <2>3 DEF Joined
<1>1. AppGrows
  <2>1. ASSUME NEW i \in 1 .. Len(app'), i > Len(app)
        PROVE  AppFresh(app'[i], refs')
    <3>1. i - Len(app) \in 1 .. Len(order) /\ app'[i] = deregs[i - Len(app)]
      BY <1>g, <1>q, <2>1
    <3> QED
      BY SMTT(60), <1>d, <1>q, <3>1
  <2>2. Len(app) <= Len(app')
    BY <1>g
  <2> QED
    BY <1>g, <2>1, <2>2 DEF AppGrows, Grows
<1>2. ASSUME NEW c \in S
      PROVE  refs[c] # "new" => InAppOf("dereg", c)'
  <2>1. PICK i \in 1 .. Len(order) : order[i] = c
    OBVIOUS
  <2>2. Len(app) + i \in 1 .. Len(app') /\ app'[Len(app) + i] = Deregistered(c)
    BY <1>g, <1>q, <2>1
  <2>3. Deregistered(c) \in Messages(app)'
    <3> PICK j : j = Len(app) + i
      OBVIOUS
    <3>1. app' \in Seq(AppMsgs) /\ j \in 1 .. Len(app') /\ app'[j] = Deregistered(c)
      BY <1>g, <2>2
    <3>2. app'[j] \in Messages(app)'
      BY <3>1, AppPlaces
    <3> QED
      BY <3>1, <3>2, Zenon
  <2> QED
    BY <1>d, <2>3 DEF InAppOf
<1>3. \A x \in Messages(app)' : x.type \in {"cancel", "detach"} => x \in Messages(app)
  <2> SUFFICES ASSUME NEW x \in Messages(app)', x \notin Messages(app)
               PROVE  x.type \in {"dereg", "deregNew"}
    OBVIOUS
  <2>1. PICK i \in 1 .. Len(app') : x = app'[i]
    BY <1>g DEF Messages
  <2>2. i > Len(app)
    <3>1. ~(i \in 1 .. Len(app))
      BY <1>g, <1>p, <2>1, Places DEF QueuesOK
    <3> QED
      BY <1>g, <3>1
  <2>3. i - Len(app) \in 1 .. Len(order) /\ x = deregs[i - Len(app)]
    BY <1>g, <1>q, <2>1, <2>2
  <2> QED
    BY SMTT(60), <1>d, <1>q, <2>3
<1>4. nas' \in Seq(NasMsgs) /\ SameUe
  BY <1>0, <1>p DEF SameUe, InNas, Messages, QueuesOK
<1>5. /\ enb' \in [Conns -> EnbConns]
      /\ \A c \in Conns :
           /\ enb'[c].at = enb[c].at /\ enb'[c].asked = enb[c].asked
           /\ enb[c].at = e => enb'[c].unnamed = (refs[c] = "new")
           /\ enb[c].at # e => enb'[c].unnamed = enb[c].unnamed
           /\ enb'[c].phase = enb[c].phase
                \/ (enb'[c].phase = "gone" /\ enb[c].at = e)
  <2>1. \A c \in Conns : enb[c] \in EnbConns
    BY <1>p DEF StateTyped
  <2>2. ASSUME NEW c \in Conns
        PROVE  /\ enb'[c] \in EnbConns
               /\ enb'[c].at = enb[c].at /\ enb'[c].asked = enb[c].asked
               /\ enb[c].at = e => enb'[c].unnamed = (refs[c] = "new")
               /\ enb[c].at # e => enb'[c].unnamed = enb[c].unnamed
               /\ enb'[c].phase = enb[c].phase
                    \/ (enb'[c].phase = "gone" /\ enb[c].at = e)
    <3> PICK new \in BOOLEAN : new = (refs[c] = "new")
      OBVIOUS
    <3>1. enb'[c] = IF enb[c].at = e THEN Gone(enb[c], new) ELSE enb[c]
      BY <1>0, Zenon DEF WithoutEnb
    <3>2. enb[c] \in EnbConns
      BY <2>1
    <3>3. CASE enb[c].at = e
      <4> PICK g : g = Gone(enb[c], new)
        OBVIOUS
      <4>1. /\ g \in EnbConns /\ g.phase = "gone" /\ g.unnamed = new
            /\ g.at = enb[c].at /\ g.asked = enb[c].asked
        BY <3>2, GoneIs
      <4> QED
        BY <3>1, <3>3, <4>1
    <3>4. CASE enb[c].at # e
      BY <3>1, <3>2, <3>4
    <3> QED
      BY <3>3, <3>4
  <2>3. enb' = [c \in Conns |-> enb'[c]]
    BY <1>0, Zenon DEF WithoutEnb
  <2> QED
    BY <2>2, <2>3
<1>6. Calm
  <2>1. \A c \in Conns : enb[c].phase = "none" => enb[c].at # e
    BY <1>p, EnbsAssumption DEF ConnectionsOK
  <2> QED
    BY <1>0, <1>5, <2>1 DEF Calm, Steady, HasId
<1>7. rab \in Nat /\ \A c \in Conns : Released(c) => Released(c)'
  <2>1. rab \in Nat
    BY <1>p DEF StateTyped
  <2> QED
    BY <1>0, <1>1, <1>p, <2>1, ReleasedStays
<1>8. ASSUME NEW c \in Conns, WantsRelease(c)'
      PROVE  Released(c)' \/ WantsRelease(c)
  <2>1. Live(c) /\ refs[c] # "crr" /\ (enb[c].at # e => WantsRelease(c))
    BY <1>0, <1>5, <1>8 DEF WantsRelease, Live, HasId
  <2>2. CASE enb[c].at = e
    <3>1. c \in S
      BY <1>l, <2>1, <2>2
    <3>2. refs[c] # "new"
      BY <1>0, <1>5, <1>8, <1>p, <2>2 DEF WantsRelease, ConnectionsOK
    <3> QED
      BY <1>2, <3>1, <3>2 DEF Released
  <2>3. CASE enb[c].at # e
    BY <2>1, <2>3
  <2> QED
    BY <2>2, <2>3
<1>9. lost' \subseteq Enbs /\ refs' \in [Conns -> RefStates]
  BY <1>0, <1>p DEF StateTyped
<1> QED
  BY <1>0, <1>1, <1>3, <1>4, <1>5, <1>6, <1>7, <1>8, <1>9, PutsInv

LEMMA EnbLostInv ==
  ASSUME IInv, NEW e \in Enbs, EnbLost(e)
  PROVE  IInv'
<1> PICK S : S = LostConns(e)
  OBVIOUS
<1>1. IsFiniteSet(S)
  <2>1. IsFiniteSet(Conns)
    BY BoundsAssumption, FS_Interval DEF Conns
  <2>2. S \subseteq Conns
    BY DEF LostConns
  <2> QED
    BY <2>1, <2>2, FS_Subset
<1>2. PICK order \in SetToSeqs(S) : app' = app \o Deregs(order)
  BY Zenon DEF EnbLost, Deregs, LostConns
<1>3. order \in Seq(S) /\ \A x \in S : \E i \in 1 .. Len(order) : order[i] = x
  BY <1>1, OrderedAll
<1>4. /\ e \notin lost /\ lost' = lost \cup {e}
      /\ enb' = WithoutEnb(e)
      /\ UNCHANGED <<ctx, emm, refs, s1ap, nas, rab, esm, left>>
  BY Zenon DEF EnbLost, WithoutEnb, Gone
<1> QED
  BY <1>2, <1>3, <1>4, EnbLostOrdered

-----------------------------------------------------------------------------
(* Release commands in TASK_S1AP *)

\* What silently removes a reference, and what is about another connection, comes when
\* S1AP has not taken up the connection of a registered UE.
LEMMA OtherFirst ==
  ASSUME IInv, s1ap # <<>>, Other(Head(s1ap), ctx.key), ctx.exists, ctx.registered,
         ctx.key # None
  PROVE  ctx.key \notin WithId
<1>p. StateTyped /\ QueuesOK /\ S1apOK /\ OthersBefore
  BY Parts
<1>1. Head(s1ap) = s1ap[1] /\ Len(s1ap) \in Nat /\ Len(s1ap) >= 1
  BY <1>p, Taken DEF QueuesOK
<1>2. PICK j \in 1 .. Len(s1ap) : s1ap[j].type = "notify" /\ s1ap[j].conn = ctx.key
  BY <1>1, <1>p DEF OthersBefore, Other
<1>3. s1ap[j] \in Messages(s1ap)
  BY <1>p, Places DEF QueuesOK
<1>4. \A r \in WithId : r < ctx.key
  BY <1>2, <1>3, <1>p DEF S1apOK
<1>5. ctx.key \in Nat
  <2>1. ctx.key \in Conns \cup {None}
    BY <1>p DEF StateTyped, Contexts
  <2> QED
    BY <2>1, ConnsAreNumbers
<1> QED
  BY <1>4, <1>5

\* A reference that has the MME UE S1AP ID but is found by a command about another
\* connection has a command of its own behind that.
LEMMA OwnCommand ==
  ASSUME IInv, s1ap # <<>>, s1ap' = Tail(s1ap), Effective(Head(s1ap)), ctx.exists,
         ctx.registered, NEW x \in WithId, x # Head(s1ap).conn
  PROVE  InCommand(x)'
<1>p. StateTyped /\ QueuesOK /\ ConnectionsOK /\ S1apOK /\ PresentOnly
  BY Parts
<1>1. x \in Conns /\ HasId(x) /\ Live(x) /\ x <= ctx.enb_ue /\ x # None
  BY <1>p, ConnsAreNumbers DEF WithId, ConnectionsOK, Live
<1>2. x # ctx.key
  <2> SUFFICES ASSUME x = ctx.key
               PROVE  FALSE
    OBVIOUS
  <2>1. Other(Head(s1ap), ctx.key)
    BY DEF Other
  <2> QED
    BY <1>1, <2>1, OtherFirst
<1>3. PICK m \in Messages(s1ap) : Removal(m, x)
  BY <1>1, <1>2, <1>p DEF PresentOnly
<1>4. m.type # "reject"
  BY <1>1, <1>3, <1>p, HasIdNotRejected DEF Rejected, InS1apOf, Removal
<1>5. Effective(m) /\ m.conn = x
  BY <1>3, <1>4 DEF Removal, Silent
<1>6. m \in Messages(s1ap)'
  BY <1>5, <1>p, S1apTaken
<1> QED
  BY <1>5, <1>6 DEF InCommand

LEMMA S1apReleasesInv ==
  ASSUME IInv, s1ap # <<>>, s1ap' = Tail(s1ap), NEW h, h = Head(s1ap), h.type = "command",
         refs' \in [Conns -> RefStates], enb' \in [Conns -> EnbConns],
         \A x \in Conns :
           /\ enb'[x].at = enb[x].at /\ enb'[x].asked = enb[x].asked
           /\ enb'[x].unnamed = enb[x].unnamed
           /\ \/ enb'[x].phase = enb[x].phase
              \/ enb'[x].phase = "commanded" /\ (enb[x].phase = "known" \/ x \in WithId),
         \A x \in Conns :
           \/ refs'[x] = refs[x]
           \/ x \in WithId /\ refs'[x] = "crr"
           \/ x \in WithId /\ refs'[x] = "untimed" /\ Effective(h) /\ x # h.conn
           \/ x \in WithId /\ refs'[x] = "none" /\ Silent(h) /\ InApp("complete")',
         app' = app \/ app' = Append(app, Msg("complete", None)),
         Effective(h) =>
           \A x \in Conns : x = h.conn /\ Live(x)' => refs'[x] = "crr" /\ ~Silent(h),
         UNCHANGED <<ctx, emm, lost, nas, rab, esm, left>>
  PROVE  IInv'
<1>p. /\ StateTyped /\ QueuesOK /\ Core /\ ConnectionsOK /\ PresentOnly /\ KeyGoes
      /\ OthersBefore /\ ReleaseUnderWay
  BY Parts
<1>r. \A x \in WithId : x \in Conns /\ HasId(x) /\ x <= ctx.enb_ue
                        /\ enb[x].phase # "none"
  BY <1>p DEF WithId, ConnectionsOK, HasId
<1>1. Calm
  <2>1. Steady
    BY <1>r DEF Steady, HasId
  <2> QED
    BY <1>r, <2>1 DEF Calm, HasId, WithId
<1>2. StateTyped'
  BY <1>p DEF StateTyped
<1>3. /\ AppGrows
      /\ \A x \in Messages(app)' : x.type \in {"cancel", "detach"} => x \in Messages(app)
  <2>1. CASE app' = app
    BY <1>p, <2>1, AppStays DEF Messages
  <2>2. CASE app' = Append(app, Msg("complete", None))
    <3>1. "complete" \in NamesAny /\ "complete" \notin {"cancel", "detach"}
      BY DEF NamesAny
    <3> QED
      BY <2>2, <3>1, PlainMessage
  <2> QED
    BY <2>1, <2>2
<1>4. AppMoves /\ ~AppTakes /\ Messages(app) \subseteq Messages(app)'
  <2>1. ~AppTakes
    BY <1>3, <1>p, Taken DEF AppGrows, Grows, AppTakes, QueuesOK
  <2> QED
    BY <1>3, <1>p, <2>1, AppGrown DEF AppMoves
<1>5. S1apTakes /\ S1apMoves
  BY DEF S1apTakes, S1apMoves, Removal, Silent
<1>6. Core' /\ QueuesOK'
  <2>1. Core' /\ app' \in Seq(AppMsgs) /\ s1ap' \in Seq(S1apMsgs)
    BY <1>p, <1>1, <1>4, <1>5, CoreKept
  <2> QED
    BY <1>p, <2>1 DEF QueuesOK
<1>7. PresentOnly' /\ OthersBefore'
  BY <1>p, <1>1, <1>5, PresentMoved, OthersTaken
<1>8. KeyGoes'
  <2> PICK k : k = ctx'.key
    OBVIOUS
  <2>1. k # None => k \in Conns
    BY <1>2 DEF StateTyped, Contexts
  <2>2. ctx.exists /\ k # None /\ refs'[k] = "none" /\ refs[k] # "none" =>
          ~ctx.registered /\ InApp("complete")'
    <3> SUFFICES ASSUME ctx.exists, k # None, refs'[k] = "none", refs[k] # "none"
                 PROVE  ~ctx.registered /\ InApp("complete")'
      OBVIOUS
    <3>1. k \in WithId /\ Silent(h) /\ InApp("complete")'
      BY <2>1
    <3>2. Other(h, k)
      BY <3>1 DEF Other, Silent
    <3> QED
      BY <3>1, <3>2, OtherFirst
  <2> QED
    BY <1>4, <1>p, <2>2, KeyKept
<1>9. ASSUME NEW x \in Conns, Live(x)', refs'[x] # "crr", InCommand(x)
      PROVE  InCommand(x)'
  <2>1. Effective(h) => x # h.conn
    BY <1>9
  <2> QED
    BY <1>9, <1>p, <2>1, S1apTaken DEF InCommand
<1>10. ReleaseUnderWay'
  <2>1. ASSUME ctx.exists, ctx.registered, NEW x \in Conns, WantsRelease(x)'
        PROVE  Released(x)' \/ (WantsRelease(x) /\ (Released(x) => Released(x)'))
    <3> SUFFICES ASSUME ~InCommand(x)'
                 PROVE  WantsRelease(x) /\ (Released(x) => Released(x)')
      BY DEF Released
    <3>0. refs'[x] = refs[x]
      <4>1. ~(x \in WithId /\ Effective(h) /\ x # h.conn)
        BY <2>1, OwnCommand
      <4> QED
        BY <2>1, <4>1 DEF WantsRelease, Live, HasId
    <3>1. WantsRelease(x) /\ (InCommand(x) => InCommand(x)')
      BY <1>9, <3>0, <2>1 DEF WantsRelease, Live, HasId
    <3>2. \A t : InAppOf(t, x) => InAppOf(t, x)'
      BY <1>4 DEF InAppOf
    <3>3. InApp("rabResponse") => InApp("rabResponse")'
      BY <1>4 DEF InApp
    <3> QED
      BY <3>1, <3>2, <3>3 DEF Released
  <2> QED
    BY <1>p, <2>1, ReleaseKept
<1>11. AttachedOK' /\ DetachOK' /\ DetachUnderWay'
  <2>1. EndUnderWay => EndUnderWay'
    <3>1. InApp("complete") => InApp("complete")'
      BY <1>4 DEF InApp
    <3>2. ctx.enb_ue \in Conns /\ refs[ctx.enb_ue] # "none" /\ refs'[ctx.enb_ue] = "none" =>
            InApp("complete")'
      OBVIOUS
    <3> QED
      BY <1>1, <1>9, <1>p, <3>1, <3>2, EndKept DEF Calm
  <2>2. SameUe
    BY DEF SameUe, InNas, Messages
  <2> QED
    BY <1>3, <1>4, <2>1, <2>2, UeKept
<1> QED
  BY <1>2, <1>6, <1>7, <1>8, <1>10, <1>11, Whole

\* The reference of the connection a command is about is found if it is live, and
\* its eNB is listed.
LEMMA CommandFinds ==
  ASSUME IInv, s1ap # <<>>, NEW h, h = Head(s1ap), h.type = "command",
         NEW c \in Conns, c = h.conn, Live(c), Effective(h)
  PROVE  /\ Listed(h.at) /\ FindRef(c, h.at) = {c} /\ c \in WithId
         /\ h.at = enb[c].at
<1>p. StateTyped /\ QueuesOK /\ ConnectionsOK /\ CommandsOK
  BY Parts
<1>1. h \in Messages(s1ap) /\ c # None
  BY <1>p, Taken, ConnsAreNumbers DEF QueuesOK
<1>2. h.at = enb[c].at
  BY <1>1, <1>p DEF CommandsOK
<1>3. enb[c].at \in Enbs
  BY <1>p DEF ConnectionsOK, Live, HasId
<1>4. c \in WithId
  BY <1>1, LiveHasId
<1> QED
  BY <1>1, <1>2, <1>3, <1>4 DEF Listed, FindRef

LEMMA S1apReleaseCommandInv ==
  ASSUME IInv, S1apReleaseCommand
  PROVE  IInv'
<1>p. StateTyped /\ QueuesOK /\ ConnectionsOK
  BY Parts
<1> PICK h : h = Head(s1ap)
  OBVIOUS
<1> PICK found : found = FindRef(h.conn, h.at)
  OBVIOUS
<1> PICK silent : silent = (h.cause \in {"implicit", "sctp"})
  OBVIOUS
<1>0. /\ s1ap # <<>> /\ h.type = "command" /\ s1ap' = Tail(s1ap)
      /\ UNCHANGED <<ctx, emm, lost, nas, rab, esm, left>>
  BY DEF S1apReleaseCommand, S1apMessage, Received
<1>s. Listed(h.at) => Effective(h) /\ (silent <=> Silent(h))
  BY <1>0, EnbsAssumption DEF Silent, Effective, Listed
<1>t. refs \in [Conns -> RefStates] /\ enb \in [Conns -> EnbConns]
      /\ \A x \in Conns : enb[x] \in EnbConns
  BY <1>p DEF StateTyped
<1>f. \A r \in found : r \in WithId /\ r \in Conns
  BY <1>0, LiveHasId DEF WithId, FindRef
<1>c. ASSUME NEW x \in Conns, x = h.conn, Live(x), Effective(h)
      PROVE  Listed(h.at) /\ found = {x} /\ h.at = enb[x].at
  BY <1>0, <1>c, CommandFinds
<1>e. ASSUME NEW x \in EnbConns, NEW y, y = Commanded(x)
      PROVE  /\ y \in EnbConns /\ y.at = x.at /\ y.asked = x.asked
             /\ y.unnamed = x.unnamed
             /\ y.phase = x.phase \/ y.phase = "commanded"
             /\ x.phase \in {"known", "up"} => y.phase = "commanded"
  BY <1>e DEF Commanded, EnbConns, Phases
<1>1. CASE ~Listed(h.at)
  <2>1. refs' = refs /\ enb' = enb /\ app' = app
    BY <1>1 DEF S1apReleaseCommand
  <2>2. Effective(h) => \A x \in Conns : ~(x = h.conn /\ Live(x)')
    BY <1>1, <1>c, <2>1 DEF Live, HasId
  <2> QED
    BY <1>0, <1>t, <2>1, <2>2, S1apReleasesInv
<1>2. CASE Listed(h.at) /\ found = {}
  <2>1. /\ refs' = refs /\ app' = Append(app, Msg("complete", None))
        /\ enb' = [c \in Conns |->
                    IF ~silent /\ enb[c].at = h.at /\ enb[c].phase = "known"
                    THEN Commanded(enb[c]) ELSE enb[c]]
    BY <1>2 DEF S1apReleaseCommand, ToApp
  <2>2. \A x \in Conns : ~(x = h.conn /\ Live(x)')
    BY <1>2, <1>c, <1>s, <2>1 DEF Live, HasId
  <2>3. ASSUME NEW x \in Conns
        PROVE  /\ enb'[x] \in EnbConns
               /\ enb'[x].at = enb[x].at /\ enb'[x].asked = enb[x].asked
               /\ enb'[x].unnamed = enb[x].unnamed
               /\ enb'[x].phase = enb[x].phase
                    \/ (enb'[x].phase = "commanded" /\ enb[x].phase = "known")
    <3>1. enb'[x] = enb[x] \/ (enb'[x] = Commanded(enb[x]) /\ enb[x].phase = "known")
      BY <2>1
    <3> QED
      BY <1>e, <1>t, <3>1
  <2>4. enb' \in [Conns -> EnbConns]
    <3>1. enb' = [c \in Conns |-> enb'[c]]
      BY <2>1
    <3> QED
      BY <2>3, <3>1
  <2> QED
    BY <1>0, <1>t, <2>1, <2>2, <2>3, <2>4, S1apReleasesInv
<1>3. ASSUME Listed(h.at), NEW r \in found, silent,
             refs' = [refs EXCEPT ![r] = "none"], app' = Append(app, Msg("complete", None)),
             enb' = enb
      PROVE  IInv'
  <2>1. refs' \in [Conns -> RefStates]
        /\ \A x \in Conns : refs'[x] = refs[x] \/ (x = r /\ refs'[x] = "none")
    BY <1>3, <1>t DEF RefStates
  <2>2. InApp("complete")'
    <3>1. "complete" \in NamesAny /\ "complete" \notin {"cancel", "detach"}
      BY DEF NamesAny
    <3> PICK m : m = Msg("complete", None)
      OBVIOUS
    <3>2. m \in Messages(app)' /\ m.type = "complete"
      BY <1>3, <3>1, PlainMessage
    <3> QED
      BY <3>2 DEF InApp
  <2>3. \A x \in Conns : ~(x = h.conn /\ Live(x)')
    <3> SUFFICES ASSUME NEW x \in Conns, x = h.conn, Live(x)'
                 PROVE  FALSE
      OBVIOUS
    <3>1. Live(x)
      BY <2>1 DEF Live, HasId
    <3>2. x = r
      BY <1>3, <1>c, <1>s, <3>1
    <3> QED
      BY <1>3, <1>t, <3>2 DEF Live, HasId
  <2> QED
    BY <1>0, <1>3, <1>f, <1>s, <1>t, <2>1, <2>2, <2>3, S1apReleasesInv
<1>4. ASSUME Listed(h.at), NEW r \in found, ~silent,
             refs' = [refs EXCEPT ![r] = IF enb[r].at = h.at THEN "crr" ELSE "untimed"],
             app' = app,
             enb' = IF enb[r].at = h.at THEN [enb EXCEPT ![r] = Commanded(enb[r])] ELSE enb
      PROVE  IInv'
  <2>1. /\ refs' \in [Conns -> RefStates]
        /\ \A x \in Conns : \/ (x # r /\ refs'[x] = refs[x])
                           \/ (x = r /\ refs'[x] = "crr")
                           \/ (x = r /\ refs'[x] = "untimed" /\ enb[r].at # h.at)
    BY <1>4, <1>t, <1>f DEF RefStates
  <2>u. enb[r].at # h.at => Effective(h) /\ r # h.conn
    BY <1>4, <1>c, <1>f, <1>s DEF WithId, Live
  <2>2. \A x \in Conns : x = h.conn /\ Live(x)' => refs'[x] = "crr"
    <3> SUFFICES ASSUME NEW x \in Conns, x = h.conn, Live(x)'
                 PROVE  refs'[x] = "crr"
      OBVIOUS
    <3>1. x = r \/ Live(x)
      BY <2>1 DEF Live, HasId
    <3>2. x = r
      BY <1>4, <1>c, <1>s, <3>1
    <3> QED
      BY <2>1, <2>u, <3>2
  <2>3. /\ enb' \in [Conns -> EnbConns]
        /\ \A x \in Conns :
             /\ enb'[x].at = enb[x].at /\ enb'[x].asked = enb[x].asked
             /\ enb'[x].unnamed = enb[x].unnamed
             /\ enb'[x].phase = enb[x].phase \/ (enb'[x].phase = "commanded" /\ x = r)
    <3>1. CASE enb[r].at = h.at
      <4> PICK y : y = Commanded(enb[r])
        OBVIOUS
      <4>1. /\ y \in EnbConns /\ y.at = enb[r].at /\ y.asked = enb[r].asked
            /\ y.unnamed = enb[r].unnamed
            /\ y.phase = enb[r].phase \/ y.phase = "commanded"
        BY <1>e, <1>f, <1>t
      <4>2. enb' = [enb EXCEPT ![r] = y]
        BY <1>4, <3>1
      <4> QED
        BY <1>t, <4>1, <4>2
    <3>2. CASE enb[r].at # h.at
      BY <1>4, <1>t, <3>2
    <3> QED
      BY <3>1, <3>2
  <2> QED
    BY <1>0, <1>4, <1>f, <1>s, <2>1, <2>2, <2>3, <2>u, S1apReleasesInv
<1>5. CASE Listed(h.at) /\ found # {}
  <2>1. PICK r \in found :
          IF silent
          THEN /\ refs' = [refs EXCEPT ![r] = "none"]
               /\ app' = Append(app, Msg("complete", None))
               /\ enb' = enb
          ELSE /\ refs' = [refs EXCEPT ![r] =
                              IF enb[r].at = h.at THEN "crr" ELSE "untimed"]
               /\ enb' = IF enb[r].at = h.at
                         THEN [enb EXCEPT ![r] = Commanded(enb[r])] ELSE enb
               /\ app' = app
    BY <1>5 DEF S1apReleaseCommand, ToApp
  <2> QED
    BY <1>3, <1>4, <1>5, <2>1
<1> QED
  BY <1>1, <1>2, <1>5

-----------------------------------------------------------------------------
(* Connections are taken up *)

\* S1AP gives the reference the MME UE S1AP ID: no other has it any more.
LEMMA S1apNewUeAssociationInv ==
  ASSUME IInv, S1apNewUeAssociation
  PROVE  IInv'
<1>p. /\ StateTyped /\ QueuesOK /\ Core /\ ConnectionsOK /\ AppOK /\ AppOrder /\ S1apOK
      /\ S1apOrder /\ CommandsOK /\ OlderRemoved /\ PresentOnly /\ KeyGoes /\ OthersBefore
      /\ ReleaseUnderWay
  BY Parts
<1> PICK h : h = Head(s1ap)
  OBVIOUS
<1> PICK c : c = h.conn
  OBVIOUS
<1>0. /\ s1ap # <<>> /\ h.type = "notify" /\ s1ap' = Tail(s1ap)
      /\ refs' = IF Live(c) THEN [refs EXCEPT ![c] = "ue"] ELSE refs
      /\ UNCHANGED <<ctx, emm, lost, enb, app, nas, rab, esm, left>>
  BY DEF S1apNewUeAssociation, S1apMessage, Received
<1>1. /\ h \in Messages(s1ap) /\ h = s1ap[1] /\ Len(s1ap) \in Nat /\ Len(s1ap) >= 1
      /\ c \in Conns /\ c \in Nat
  <2>1. h \in Messages(s1ap) /\ h = s1ap[1] /\ Len(s1ap) \in Nat /\ Len(s1ap) >= 1
    BY <1>0, <1>p, Taken DEF QueuesOK
  <2>2. c \in Conns
    BY <1>0, <1>p, <2>1, ConnsOfMessages
  <2> QED
    BY <2>1, <2>2, ConnsAreNumbers
<1>2. /\ c <= ctx.enb_ue /\ refs[c] \in {"new", "none"} /\ \A r \in WithId : r < c
      /\ ~Rejected(c)
  BY <1>0, <1>1, <1>p, ConnsAreNumbers DEF S1apOK
<1>3. WithId = {}
  <2> SUFFICES ASSUME NEW r \in WithId
               PROVE  FALSE
    OBVIOUS
  <2>1. r \in Conns /\ r < c /\ Live(r)
    BY <1>2 DEF WithId, Live, HasId
  <2>2. \E j \in 1 .. Len(s1ap) : j < 1 /\ Removal(s1ap[j], r)
    <3>1. 1 \in 1 .. Len(s1ap)
      BY <1>1
    <3> QED
      BY <1>0, <1>1, <1>p, <2>1, <3>1 DEF OlderRemoved
  <2> QED
    BY <1>1, <2>2
<1>4. /\ refs' \in [Conns -> RefStates]
      /\ \A x \in Conns : refs'[x] = refs[x] \/ (x = c /\ refs[x] = "new" /\ refs'[x] = "ue")
      /\ refs'[c] # "new"
  <2>1. refs \in [Conns -> RefStates]
    BY <1>p DEF StateTyped
  <2>2. Live(c) <=> refs[c] = "new"
    BY <1>2 DEF Live, HasId
  <2> QED
    BY <1>0, <1>1, <1>2, <2>1, <2>2 DEF RefStates
<1>5. \A x \in WithId' : x = c
  BY <1>3, <1>4 DEF WithId, HasId
<1>6. Steady
  BY <1>0, <1>2, <1>4 DEF Steady, HasId
<1>7. StateTyped'
  BY <1>0, <1>4, <1>p DEF StateTyped
<1>8. AppGrows /\ AppMoves /\ ~AppTakes
  <2>1. AppGrows
    BY <1>0, <1>p, AppStays
  <2>2. ~AppTakes
    BY <1>0, <1>p, Taken DEF AppTakes, QueuesOK
  <2> QED
    BY <2>1, <2>2 DEF AppMoves
<1>9. /\ s1ap' \in Seq(S1apMsgs) /\ S1apOrder' /\ \A n \in Messages(s1ap)' : S1apBehind(h, n)
      /\ Messages(s1ap)' \subseteq Messages(s1ap)
      /\ \A m \in Messages(s1ap) : m = h \/ m \in Messages(s1ap)'
  BY <1>0, <1>p, S1apFirst, S1apTaken
<1>10. \A r : ~Removal(h, r)
  BY <1>0 DEF Removal, Silent, Effective
<1>11. OlderRemoved' /\ CommandsOK'
  BY <1>0, <1>6, <1>9, <1>10, <1>p, OlderTaken, CommandsKept
<1>12. ConnectionsOK'
  <2> SUFFICES ASSUME NEW x \in Conns, refs'[x] = "new"
               PROVE  /\ InAppOf("initial", x) => InAppOf("initial", x)'
                      /\ InS1apOf("notify", x) => InS1apOf("notify", x)'
                      /\ InS1apOf("reject", x) => InS1apOf("reject", x)'
    BY <1>6, <1>p, ConnectionsKept
  <2>1. x # c
    BY <1>4
  <2> QED
    BY <1>0, <1>9, <2>1 DEF InAppOf, InS1apOf, Messages
<1>13. AppOK' /\ AppOrder'
  <2>1. AppOrder'
    BY <1>0, <1>p DEF AppOrder, AppBehind
  <2>2. Messages(app)' = Messages(app)
    BY <1>0 DEF Messages
  <2>3. \A x : Rejected(x)' => Rejected(x)
    BY <1>9 DEF Rejected, InS1apOf
  <2> QED
    BY <1>0, <1>6, <1>p, <2>1, <2>2, <2>3, AppKept
<1>14. S1apOK'
  <2> SUFFICES ASSUME NEW m \in Messages(s1ap)'
               PROVE  /\ m.type \in {"notify", "dl", "command"} /\ m.conn # None =>
                           m.conn <= ctx'.enb_ue /\ ~Rejected(m.conn)'
                      /\ m.type = "notify" =>
                           /\ refs'[m.conn] \in {"new", "none"}
                           /\ \A r \in WithId' : r < m.conn
                      /\ m.type = "reject" =>
                           /\ m.conn # ctx'.enb_ue /\ refs'[m.conn] \in {"new", "none"}
                           /\ enb'[m.conn].phase # "none"
                           /\ \A n \in Messages(app)' : n.type = "initial" => m.conn < n.conn
    BY DEF S1apOK, Rejected, InS1apOf
  <2>1. /\ m \in Messages(s1ap) /\ (m.type \in {"notify", "reject"} => m.conn \in Conns)
        /\ Messages(app)' = Messages(app)
    BY <1>0, <1>9, <1>p, ConnsOfMessages DEF Messages
  <2>2. m.type = "notify" => c < m.conn /\ m.conn # c
    BY <1>0, <1>1, <1>9, <2>1, ConnsAreNumbers DEF S1apBehind
  <2>3. m.type = "reject" => m.conn # c
    BY <1>2, <2>1 DEF Rejected, InS1apOf
  <2>4. m.type \in {"notify", "dl", "command"} /\ m.conn # None =>
          m.conn <= ctx'.enb_ue /\ ~Rejected(m.conn)'
    BY <1>0, <1>9, <1>p, <2>1 DEF S1apOK, Rejected, InS1apOf
  <2>5. m.type = "notify" =>
          refs'[m.conn] \in {"new", "none"} /\ \A r \in WithId' : r < m.conn
    BY <1>4, <1>5, <1>p, <2>1, <2>2 DEF S1apOK
  <2>6. m.type = "reject" =>
          /\ m.conn # ctx'.enb_ue /\ refs'[m.conn] \in {"new", "none"}
          /\ enb'[m.conn].phase # "none"
          /\ \A n \in Messages(app)' : n.type = "initial" => m.conn < n.conn
    BY <1>0, <1>4, <1>p, <2>1, <2>3 DEF S1apOK
  <2> QED
    BY <2>4, <2>5, <2>6
<1>15. OneWithId'
  BY <1>5 DEF OneWithId
<1>16. Core' /\ QueuesOK'
  BY <1>0, <1>9, <1>11, <1>12, <1>13, <1>14, <1>15, <1>p DEF Core, QueuesOK
<1>17. PresentOnly' /\ OthersBefore'
  <2>1. PresentOnly'
    BY <1>0, <1>6, <1>9, <1>10, <1>p, PresentKept
  <2> QED
    BY <1>0, <1>p, <2>1, OthersTaken
<1>18. \A x \in Conns : refs'[x] = "none" => refs[x] = "none"
  BY <1>4
<1>19. KeyGoes'
  <2> PICK k : k = ctx'.key
    OBVIOUS
  <2>1. k # None => k \in Conns
    BY <1>7 DEF StateTyped, Contexts
  <2>2. Messages(app)' = Messages(app)
    BY <1>0 DEF Messages
  <2>3. k = ctx.key /\ (k # None /\ refs'[k] = "none" => refs[k] = "none")
    BY <1>0, <1>18, <2>1
  <2> QED
    BY <1>0, <1>p, <2>2, <2>3, KeyKept
<1>20. \A x : InCommand(x) => InCommand(x)'
  BY <1>0, <1>9 DEF InCommand, Effective
<1>21. ReleaseUnderWay'
  <2>1. \A x \in Conns : WantsRelease(x)' => WantsRelease(x)
    BY <1>0, <1>4 DEF WantsRelease, Live, HasId
  <2>2. \A x \in Conns : Released(x) => Released(x)'
    BY <1>0, <1>20 DEF Released, InAppOf, InApp, Messages
  <2> QED
    BY <1>0, <1>p, <2>1, <2>2, ReleaseKept
<1>22. AttachedOK' /\ DetachOK' /\ DetachUnderWay'
  <2>1. InApp("complete") => InApp("complete")'
    BY <1>0 DEF InApp, Messages
  <2>2. EndUnderWay => EndUnderWay'
    BY <1>0, <1>6, <1>18, <1>20, <1>p, <2>1, EndKept
  <2>3. SameUe /\ Messages(app)' = Messages(app)
    BY <1>0 DEF SameUe, InNas, Messages
  <2> QED
    BY <1>8, <2>2, <2>3, UeKept
<1> QED
  BY <1>7, <1>16, <1>17, <1>19, <1>21, <1>22, Whole

\* The UE connects: no message is about the connection yet.
LEMMA ConnectInv ==
  ASSUME IInv, NEW c \in Conns, NEW e \in Enbs, Connect(c, e)
  PROVE  IInv'
<1>p. /\ StateTyped /\ QueuesOK /\ Core /\ ConnectionsOK /\ AppOK /\ AppOrder /\ S1apOK
      /\ S1apOrder /\ CommandsOK /\ OlderRemoved /\ PresentOnly /\ KeyGoes /\ OthersBefore
      /\ ReleaseUnderWay /\ AttachedOK /\ DetachOK /\ OneWithId
  BY Parts
<1> PICK n : n = [NoConnection EXCEPT !.at = e, !.phase = "up"]
  OBVIOUS
<1> PICK m : m = Msg("initial", c)
  OBVIOUS
<1>0. /\ ~left /\ e \notin lost /\ enb[c].phase = "none"
      /\ \A b \in Conns : b < c => enb[b].phase # "none"
      /\ enb' = [enb EXCEPT ![c] = n] /\ refs' = [refs EXCEPT ![c] = "new"]
      /\ app' = Append(app, m)
      /\ UNCHANGED <<ctx, emm, lost, s1ap, nas, rab, esm, left>>
  BY DEF Connect, ToApp
<1>m. m \in AppMsgs /\ m.type = "initial" /\ m.conn = c
  BY DEF Msg, AppMsgs, NamesOne
<1>n. n \in EnbConns /\ n.at = e /\ n.phase = "up" /\ n.asked = FALSE /\ e # None
  BY EnbsAssumption DEF NoConnection, EnbConns, Phases
<1>t. refs \in [Conns -> RefStates] /\ enb \in [Conns -> EnbConns] /\ ctx \in Contexts
      /\ (ctx.key # None => ctx.key = ctx.enb_ue)
  BY <1>p DEF StateTyped
<1>1. /\ refs' \in [Conns -> RefStates] /\ enb' \in [Conns -> EnbConns]
      /\ refs'[c] = "new" /\ enb'[c] = n
      /\ \A x \in Conns : x # c => refs'[x] = refs[x] /\ enb'[x] = enb[x]
  BY <1>0, <1>n, <1>t DEF RefStates
<1>2. /\ ctx.enb_ue < c /\ refs[c] = "none" /\ c \in Nat /\ ctx.enb_ue \in Nat
      /\ \A x \in Conns : x \in Nat
  <2>1. ctx.enb_ue \in Conns \cup {None}
    BY <1>t DEF Contexts
  <2>2. ~(c <= ctx.enb_ue) /\ refs[c] = "none"
    BY <1>0, <1>p DEF ConnectionsOK
  <2> QED
    BY <2>1, <2>2, ConnsAreNumbers
<1>3. /\ app' \in Seq(AppMsgs) /\ Messages(app)' = Messages(app) \cup {m}
      /\ \A x \in Messages(app)' : x \in Messages(app) \/ x = m
      /\ Messages(app) \subseteq Messages(app)' /\ m \in Messages(app)'
  <2>1. app' \in Seq(AppMsgs) /\ Messages(app)' = Messages(app) \cup {m}
    BY <1>0, <1>m, <1>p, AppPut
  <2> QED
    BY <2>1
<1>4. StateTyped' /\ QueuesOK'
  BY <1>0, <1>1, <1>3, <1>p DEF StateTyped, QueuesOK
<1>5. \A t, x : InAppOf(t, x) => InAppOf(t, x)'
  BY <1>3 DEF InAppOf
<1>6. ConnectionsOK'
  <2>1. \A b, x \in Conns : b < x /\ enb'[x].phase # "none" => enb'[b].phase # "none"
    BY <1>0, <1>1, <1>n, <1>p DEF ConnectionsOK
  <2>2. ASSUME NEW x \in Conns, x # c
        PROVE  /\ x <= ctx'.enb_ue => enb'[x].phase # "none"
               /\ enb'[x].phase = "none" => refs'[x] = "none" /\ enb'[x].at = None
               /\ enb'[x].phase # "none" => enb'[x].at \in Enbs
               /\ enb'[x].phase \in {"known", "commanded"} =>
                    x <= ctx'.enb_ue /\ refs'[x] # "new"
               /\ HasId(x)' \/ refs'[x] = "lapsed" => x <= ctx'.enb_ue
               /\ enb'[x].asked => refs'[x] # "new"
    BY <1>0, <1>1, <1>p, <2>2 DEF ConnectionsOK, HasId
  <2>3. ASSUME NEW x \in Conns, x # c, refs'[x] = "new"
        PROVE  /\ InAppOf("initial", x)' \/ InS1apOf("notify", x)' \/ InS1apOf("reject", x)'
               /\ enb'[x].at \in lost' => enb'[x].unnamed
    <3>1. /\ InAppOf("initial", x) \/ InS1apOf("notify", x) \/ InS1apOf("reject", x)
          /\ enb[x].at \in lost => enb[x].unnamed
      BY <1>1, <1>p, <2>3 DEF ConnectionsOK
    <3>2. \A t : InS1apOf(t, x) => InS1apOf(t, x)'
      BY <1>0 DEF InS1apOf, Messages
    <3> QED
      BY <1>0, <1>1, <1>5, <2>3, <3>1, <3>2
  <2>4. InAppOf("initial", c)'
    BY <1>3, <1>m DEF InAppOf
  <2> QED
    <3>1. ASSUME NEW x \in Conns
          PROVE  refs'[x] = "new" =>
                   /\ InAppOf("initial", x)' \/ InS1apOf("notify", x)' \/ InS1apOf("reject", x)'
                   /\ enb'[x].at \in lost' => enb'[x].unnamed
      BY <1>0, <1>1, <1>n, <2>3, <2>4
    <3>2. /\ c <= ctx'.enb_ue => enb'[c].phase # "none"
          /\ enb'[c].phase # "none" /\ enb'[c].at \in Enbs
          /\ enb'[c].phase \notin {"known", "commanded"} /\ ~enb'[c].asked
          /\ ~HasId(c)' /\ refs'[c] # "lapsed"
      BY <1>1, <1>n DEF HasId
    <3> QED
      BY <2>1, <2>2, <3>1, <3>2 DEF ConnectionsOK
<1>h. ASSUME NEW x \in Conns, enb[x].phase # "none"
      PROVE  x # c /\ x < c
  <2>1. ~(c < x) /\ x # c
    BY <1>0, <1>h, <1>p DEF ConnectionsOK
  <2> QED
    BY <1>2, <2>1
<1>7. ASSUME NEW x \in Messages(app), x.type = "initial"
      PROVE  x.conn \in Conns /\ x.conn # c /\ x.conn < c
  <2>1. x.conn \in Conns
    BY <1>7, <1>p, ConnsOfMessages DEF NamesOne
  <2> QED
    BY <1>7, <1>h, <1>p, <2>1 DEF AppOK
<1>8. AppOK'
  <2> SUFFICES ASSUME NEW x \in Messages(app)'
               PROVE  /\ x.type = "initial" =>
                           /\ ctx'.enb_ue < x.conn /\ refs'[x.conn] = "new"
                           /\ enb'[x.conn].phase # "none"
                      /\ x.type \in {"release", "dereg"} =>
                           x.conn <= ctx'.enb_ue /\ ~Rejected(x.conn)'
                      /\ x.type = "deregNew" => enb'[x.conn].at # None
                      /\ x.type = "complete" /\ x.conn # None =>
                           x.conn <= ctx'.enb_ue /\ refs'[x.conn] = "none"
    BY DEF AppOK, Rejected, InS1apOf
  <2>1. CASE x = m
    BY <1>0, <1>1, <1>2, <1>m, <1>n, <2>1
  <2>2. CASE x \in Messages(app)
    <3>0. x.conn \in Conns \cup {None} /\ (x.type \in NamesOne => x.conn \in Conns)
      BY <1>p, <2>2, ConnsOfMessages
    <3>1. x.type = "initial" =>
            /\ ctx'.enb_ue < x.conn /\ refs'[x.conn] = "new"
            /\ enb'[x.conn].phase # "none"
      BY <1>0, <1>1, <1>7, <1>p, <2>2 DEF AppOK
    <3>2. x.type \in {"release", "dereg"} => x.conn <= ctx'.enb_ue /\ ~Rejected(x.conn)'
      BY <1>0, <1>p, <2>2 DEF AppOK, Rejected, InS1apOf, Messages
    <3>3. x.type = "deregNew" => enb'[x.conn].at # None
      BY <1>1, <1>n, <1>p, <2>2, <3>0 DEF AppOK, NamesOne
    <3>4. x.type = "complete" /\ x.conn # None =>
            x.conn <= ctx'.enb_ue /\ refs'[x.conn] = "none"
      <4>1. x.type = "complete" /\ x.conn # None =>
              x.conn <= ctx.enb_ue /\ refs[x.conn] = "none"
        BY <1>p, <2>2 DEF AppOK
      <4> QED
        BY <1>0, <1>1, <1>2, <3>0, <4>1
    <3> QED
      BY <3>1, <3>2, <3>3, <3>4
  <2> QED
    BY <1>3, <2>1, <2>2
<1>9. AppOrder'
  <2>1. \A x \in Messages(app) : x.type # "cancel"
    BY <1>0, <1>p DEF DetachOK, InApp
  <2>2. \A x \in Messages(app) : AppBehind(x, m)
    BY <1>7, <1>m, <2>1 DEF AppBehind
  <2> QED
    BY <1>0, <1>m, <1>p, <2>2, AppLast
<1>w. /\ WithId' = WithId /\ Messages(s1ap)' = Messages(s1ap)
      /\ \A x \in Conns : x # c => (Live(x)' <=> Live(x))
  BY <1>0, <1>1, <1>2 DEF WithId, Messages, Live, HasId
<1>10. S1apOK' /\ S1apOrder' /\ OneWithId'
  <2>1. ASSUME NEW x \in Messages(s1ap), x.type \in {"notify", "reject"}
        PROVE  /\ refs'[x.conn] = refs[x.conn] /\ enb'[x.conn] = enb[x.conn]
               /\ x.type = "reject" => x.conn < c
    <3>1. x.conn \in Conns /\ x.conn # None
      BY <1>p, <2>1, ConnsOfMessages, ConnsAreNumbers
    <3>2. x.conn # c /\ (x.type = "reject" => x.conn < c)
      BY <1>2, <1>h, <1>p, <2>1, <3>1 DEF S1apOK
    <3> QED
      BY <1>1, <3>1, <3>2
  <2>2. S1apOK'
    <3> SUFFICES ASSUME NEW x \in Messages(s1ap)
                 PROVE  /\ x.type \in {"notify", "dl", "command"} /\ x.conn # None =>
                             x.conn <= ctx.enb_ue /\ ~Rejected(x.conn)
                        /\ x.type = "notify" =>
                             /\ refs'[x.conn] \in {"new", "none"}
                             /\ \A r \in WithId : r < x.conn
                        /\ x.type = "reject" =>
                             /\ x.conn # ctx.enb_ue /\ refs'[x.conn] \in {"new", "none"}
                             /\ enb'[x.conn].phase # "none"
                             /\ \A y \in Messages(app)' : y.type = "initial" => x.conn < y.conn
      BY <1>0, <1>w DEF S1apOK, Rejected, InS1apOf
    <3>1. x.type = "reject" =>
            \A y \in Messages(app)' : y.type = "initial" => x.conn < y.conn
      BY <1>3, <1>m, <1>p, <2>1 DEF S1apOK
    <3> QED
      BY <1>p, <2>1, <3>1 DEF S1apOK
  <2>3. S1apOrder'
    BY <1>0, <1>p DEF S1apOrder, S1apBehind
  <2> QED
    BY <1>w, <1>p, <2>2, <2>3 DEF OneWithId
<1>11. CommandsOK'
  <2> SUFFICES ASSUME NEW x \in Messages(s1ap), Effective(x)
               PROVE  x.conn # None /\ x.at = enb'[x.conn].at
    BY <1>w DEF CommandsOK
  <2>1. x.conn # None /\ x.at = enb[x.conn].at /\ x.type = "command"
    BY <1>p DEF CommandsOK, Effective
  <2>2. x.conn \in Conns /\ x.conn <= ctx.enb_ue
    BY <1>p, <2>1, ConnsOfMessages DEF S1apOK
  <2>3. x.conn # c
    BY <1>2, <2>2
  <2> QED
    BY <1>1, <2>1, <2>2, <2>3
<1>12. OlderRemoved'
  <2> SUFFICES ASSUME NEW i \in 1 .. Len(s1ap), s1ap[i].type = "notify",
                      NEW r \in Conns, r < s1ap[i].conn, Live(r)'
               PROVE  \E j \in 1 .. Len(s1ap) : j < i /\ Removal(s1ap[j], r)
    BY <1>0 DEF OlderRemoved
  <2>1. s1ap[i] \in Messages(s1ap)
    BY <1>p, Places DEF QueuesOK
  <2>2. s1ap[i].conn \in Conns /\ s1ap[i].conn <= ctx.enb_ue
    BY <1>p, <2>1, ConnsOfMessages, ConnsAreNumbers DEF S1apOK
  <2>3. r # c
    BY <1>2, <2>2
  <2>4. Live(r)
    BY <1>w, <2>3
  <2> QED
    BY <1>p, <2>4 DEF OlderRemoved
<1>13. Core'
  BY <1>6, <1>8, <1>9, <1>10, <1>11, <1>12 DEF Core
<1>14. PresentOnly'
  <2> SUFFICES ASSUME ctx.exists, NEW r \in Conns, r <= ctx.enb_ue, Live(r)'
               PROVE  r = ctx.key \/ \E x \in Messages(s1ap) : Removal(x, r)
    BY <1>0, <1>w DEF PresentOnly
  <2>1. r # c
    BY <1>2
  <2> QED
    BY <1>w, <1>p, <2>1 DEF PresentOnly
<1>15. KeyGoes'
  <2> PICK k : k = ctx.key
    OBVIOUS
  <2>1. k # None => k \in Conns /\ k # c
    BY <1>2, <1>t DEF Contexts
  <2>2. k # None /\ refs'[k] = "none" => refs[k] = "none"
    BY <1>1, <2>1
  <2>3. \A t : InApp(t) => InApp(t)'
    BY <1>3 DEF InApp
  <2> QED
    BY <1>0, <1>5, <1>p, <2>2, <2>3 DEF KeyGoes
<1>16. OthersBefore'
  BY <1>0, <1>p DEF OthersBefore
<1>17. ReleaseUnderWay'
  <2>1. ASSUME NEW x \in Conns, WantsRelease(x)'
        PROVE  WantsRelease(x)
    <3>1. x # c
      BY <1>0, <1>1, <1>n, <2>1 DEF WantsRelease
    <3> QED
      BY <1>0, <1>1, <1>w, <2>1, <3>1 DEF WantsRelease
  <2>2. ASSUME NEW x \in Conns, Released(x)
        PROVE  Released(x)'
    <3>1. InCommand(x) => InCommand(x)'
      BY <1>w DEF InS1apOf, InCommand
    <3>2. InApp("rabResponse") => InApp("rabResponse")'
      BY <1>3 DEF InApp
    <3> QED
      BY <1>0, <1>5, <2>2, <3>1, <3>2 DEF Released
  <2> QED
    BY <1>0, <1>p, <2>1, <2>2, ReleaseKept
<1>18. AttachedOK' /\ DetachOK' /\ DetachUnderWay'
  <2>1. /\ ctx.exists /\ ctx.registered /\ emm /\ esm = 0
        /\ ~InApp("detach") /\ ~InNas("detach") /\ ~InNas("implicit") /\ ~InApp("cancel")
    BY <1>0, <1>p DEF AttachedOK, DetachOK
  <2>2. /\ ~InApp("detach")' /\ ~InApp("cancel")'
        /\ ~InNas("detach")' /\ ~InNas("implicit")'
    BY <1>0, <1>3, <1>m, <2>1 DEF InApp, InNas, Messages
  <2> QED
    BY <1>0, <1>p, <2>1, <2>2 DEF AttachedOK, DetachOK, DetachUnderWay
<1> QED
  BY <1>4, <1>13, <1>14, <1>15, <1>16, <1>17, <1>18, Whole

\* MME_APP takes the connection up and gives up the one before.
LEMMA AppInitialUeMessageInv ==
  ASSUME IInv, AppInitialUeMessage
  PROVE  IInv'
<1>p. /\ StateTyped /\ QueuesOK /\ Core /\ ConnectionsOK /\ AppOK /\ AppOrder /\ S1apOK
      /\ S1apOrder /\ CommandsOK /\ OlderRemoved /\ PresentOnly
      /\ ReleaseUnderWay /\ AttachedOK /\ DetachOK /\ OneWithId /\ DetachUnderWay
  BY Parts
<1> PICK h : h = Head(app)
  OBVIOUS
<1> PICK c : c = h.conn
  OBVIOUS
<1> PICK m : m = Msg("notify", c)
  OBVIOUS
<1> PICK n : n = Msg("initial", c)
  OBVIOUS
<1> PICK u : u = ctx.enb_ue
  OBVIOUS
<1>0. /\ app # <<>> /\ h.type = "initial" /\ app' = Tail(app)
      /\ ctx' = ToConnected(ctx, c) /\ s1ap' = Append(s1ap, m) /\ nas' = Append(nas, n)
      /\ refs' = IF ctx.key # None /\ Live(u) THEN [refs EXCEPT ![u] = "none"] ELSE refs
      /\ UNCHANGED <<emm, lost, enb, rab, esm, left>>
  BY DEF AppInitialUeMessage, AppMessage, Received, ToNas, OldReferenceRemoved
<1>1. /\ h \in Messages(app) /\ app' \in Seq(AppMsgs)
      /\ Messages(app)' \subseteq Messages(app)
      /\ \A x \in Messages(app) : x = h \/ x \in Messages(app)'
      /\ AppOrder' /\ \A x \in Messages(app)' : AppBehind(h, x)
  BY <1>0, <1>p, AppFirst, AppTaken
<1>2. /\ c \in Conns /\ c \in Nat /\ c # None /\ u \in Conns \cup {None} /\ u \in Nat
      /\ \A x \in Conns : x \in Nat
  <2>1. c \in Conns
    BY <1>0, <1>1, <1>p, ConnsOfMessages DEF NamesOne
  <2>2. u \in Conns \cup {None}
    BY <1>p DEF StateTyped, Contexts
  <2> QED
    BY <2>1, <2>2, ConnsAreNumbers
<1>3. /\ u < c /\ refs[c] = "new" /\ enb[c].phase # "none"
      /\ \A x \in Messages(s1ap) : x.type = "reject" => x.conn < c
  BY <1>0, <1>1, <1>p DEF AppOK, S1apOK
<1>4. /\ ctx.exists /\ ctx.registered /\ emm /\ esm = 0
      /\ ~InApp("detach") /\ ~InNas("detach") /\ ~InNas("implicit")
  <2>1. InApp("initial")
    BY <1>0, <1>1 DEF InApp
  <2> QED
    BY <1>p, <2>1 DEF AttachedOK
<1>m. m \in S1apMsgs /\ m.type = "notify" /\ m.conn = c
      /\ n \in NasMsgs /\ n.type = "initial"
  BY <1>2 DEF Msg, S1apMsgs, NasMsgs
<1>x. /\ ctx' \in Contexts /\ ctx'.key = c /\ ctx'.enb_ue = c /\ ctx'.exists = ctx.exists
      /\ ctx'.registered = ctx.registered /\ ctx'.cause = ctx.cause
      /\ (ctx.key # None => ctx.key = u)
  BY <1>0, <1>2, <1>p DEF ToConnected, StateTyped, Contexts
<1>5. /\ refs' \in [Conns -> RefStates]
      /\ \A x \in Conns : refs'[x] = refs[x] \/ (x = u /\ refs'[x] = "none")
      /\ \A x \in Conns : x = ctx.key => ~Live(x)'
  <2>1. refs \in [Conns -> RefStates]
    BY <1>p DEF StateTyped
  <2>2. CASE ctx.key # None /\ Live(u)
    <3>1. u \in Conns
      BY <1>2, <1>x, <2>2, <1>p DEF StateTyped, Contexts
    <3> QED
      BY <1>0, <1>x, <2>1, <2>2, <3>1 DEF RefStates, Live, HasId
  <2>3. CASE ~(ctx.key # None /\ Live(u))
    <3>1. \A x \in Conns : x = ctx.key => ~Live(x)
      BY <1>x, <2>3, ConnsAreNumbers
    <3> QED
      BY <1>0, <2>1, <2>3, <3>1 DEF Live, HasId
  <2> QED
    BY <2>2, <2>3
<1>6. /\ \A x \in Conns : Live(x)' => Live(x) /\ refs'[x] = refs[x]
      /\ \A x \in Conns : u < x => refs'[x] = refs[x]
      /\ \A x \in Conns : refs'[x] # "none" => refs'[x] = refs[x]
      /\ WithId' \subseteq WithId
  BY <1>2, <1>5 DEF Live, WithId, HasId
<1>7. /\ s1ap' \in Seq(S1apMsgs) /\ Messages(s1ap)' = Messages(s1ap) \cup {m}
      /\ nas' \in Seq(NasMsgs) /\ Messages(nas)' = Messages(nas) \cup {n}
  BY <1>0, <1>m, <1>p, S1apPut, NasPut
<1>8. StateTyped' /\ QueuesOK'
  BY <1>0, <1>1, <1>5, <1>7, <1>p, <1>x DEF StateTyped, QueuesOK
<1>9. /\ \A t, x : t # "initial" /\ InAppOf(t, x) => InAppOf(t, x)'
      /\ \A x : InAppOf("initial", x) => x = c \/ InAppOf("initial", x)'
      /\ \A t, x : InS1apOf(t, x) => InS1apOf(t, x)'
      /\ InS1apOf("notify", c)'
  BY <1>0, <1>1, <1>7, <1>m DEF InAppOf, InS1apOf
<1>c. \A x : (InCommand(x)' <=> InCommand(x)) /\ (Rejected(x)' <=> Rejected(x))
  BY <1>7, <1>m DEF InCommand, Effective, Rejected, InS1apOf
<1>10. ConnectionsOK'
  <2>1. \A b, x \in Conns : b < x /\ enb'[x].phase # "none" => enb'[b].phase # "none"
    BY <1>0, <1>p DEF ConnectionsOK
  <2>2. ASSUME NEW x \in Conns
        PROVE  /\ x <= c => enb'[x].phase # "none"
               /\ enb'[x].phase = "none" => refs'[x] = "none" /\ enb'[x].at = None
               /\ enb'[x].phase # "none" => enb'[x].at \in Enbs
    <3>1. x <= c => x < c \/ x = c
      BY <1>2
    <3>2. x <= c => enb[x].phase # "none"
      BY <1>2, <1>3, <1>p, <3>1 DEF ConnectionsOK
    <3>3. enb[x].phase = "none" => refs'[x] = "none"
      BY <1>6, <1>p DEF ConnectionsOK
    <3> QED
      BY <1>0, <1>p, <3>2, <3>3 DEF ConnectionsOK
  <2>3. ASSUME NEW x \in Conns
        PROVE  /\ enb'[x].phase \in {"known", "commanded"} => x <= c /\ refs'[x] # "new"
               /\ HasId(x)' \/ refs'[x] = "lapsed" => x <= c
               /\ enb'[x].asked => refs'[x] # "new"
    <3>1. x <= u => x <= c
      BY <1>2, <1>3
    <3> QED
      BY <1>0, <1>6, <1>p, <3>1 DEF ConnectionsOK, HasId
  <2>4. ASSUME NEW x \in Conns, refs'[x] = "new"
        PROVE  /\ InAppOf("initial", x)' \/ InS1apOf("notify", x)' \/ InS1apOf("reject", x)'
               /\ enb'[x].at \in lost' => enb'[x].unnamed
    <3>1. /\ InAppOf("initial", x) \/ InS1apOf("notify", x) \/ InS1apOf("reject", x)
          /\ enb[x].at \in lost => enb[x].unnamed
      BY <1>6, <1>p, <2>4 DEF ConnectionsOK
    <3> QED
      BY <1>0, <1>9, <3>1
  <2> QED
    BY <1>x, <2>1, <2>2, <2>3, <2>4 DEF ConnectionsOK
<1>11. AppOK'
  <2> SUFFICES ASSUME NEW x \in Messages(app)'
               PROVE  /\ x.type = "initial" =>
                           /\ c < x.conn /\ refs'[x.conn] = "new"
                           /\ enb'[x.conn].phase # "none"
                      /\ x.type \in {"release", "dereg"} => x.conn <= c /\ ~Rejected(x.conn)'
                      /\ x.type = "deregNew" => enb'[x.conn].at # None
                      /\ x.type = "complete" /\ x.conn # None =>
                           x.conn <= c /\ refs'[x.conn] = "none"
    BY <1>x DEF AppOK, Rejected, InS1apOf
  <2>1. /\ x \in Messages(app) /\ x.conn \in Conns \cup {None} /\ x.conn \in Nat
        /\ x.type \in NamesOne => x.conn \in Conns
    BY <1>1, <1>p, ConnsOfMessages, ConnsAreNumbers
  <2>2. ASSUME x.type = "initial"
        PROVE  c < x.conn /\ refs'[x.conn] = "new" /\ enb'[x.conn].phase # "none"
    <3>1. x.conn \in Conns /\ c < x.conn
      BY <1>0, <1>1, <2>1, <2>2 DEF NamesOne, AppBehind
    <3>2. u < x.conn /\ refs[x.conn] = "new" /\ enb[x.conn].phase # "none"
      BY <1>p, <2>1, <2>2 DEF AppOK
    <3> QED
      BY <1>0, <1>6, <3>1, <3>2
  <2>3. x.type \in {"release", "dereg"} => x.conn <= c /\ ~Rejected(x.conn)'
    <3>1. x.type \in {"release", "dereg"} => x.conn <= u /\ ~Rejected(x.conn)
      BY <1>p, <2>1 DEF AppOK
    <3> QED
      BY <1>2, <1>3, <1>c, <2>1, <3>1
  <2>4. x.type = "deregNew" => enb'[x.conn].at # None
    BY <1>0, <1>p, <2>1 DEF AppOK
  <2>5. x.type = "complete" /\ x.conn # None => x.conn <= c /\ refs'[x.conn] = "none"
    <3>1. x.type = "complete" /\ x.conn # None => x.conn <= u /\ refs[x.conn] = "none"
      BY <1>p, <2>1 DEF AppOK
    <3> QED
      BY <1>2, <1>3, <1>5, <2>1, <3>1
  <2> QED
    BY <2>2, <2>3, <2>4, <2>5
<1>12. \A x \in Messages(s1ap) :
         /\ x.type \in {"dl", "command"} /\ x.conn # None => x.conn < c
         /\ x.type = "notify" => x.conn < c
  <2> SUFFICES ASSUME NEW x \in Messages(s1ap),
                      x.type \in {"dl", "command", "notify"}, x.conn # None
               PROVE  x.conn < c
    BY <1>p, ConnsOfMessages, ConnsAreNumbers
  <2>1. x.conn <= u /\ x.conn \in Nat
    BY <1>p, ConnsOfMessages, ConnsAreNumbers DEF S1apOK
  <2> QED
    BY <1>2, <1>3, <2>1
<1>13. S1apOK'
  <2> SUFFICES ASSUME NEW x \in Messages(s1ap)'
               PROVE  /\ x.type \in {"notify", "dl", "command"} /\ x.conn # None =>
                           x.conn <= c /\ ~Rejected(x.conn)'
                      /\ x.type = "notify" =>
                           /\ refs'[x.conn] \in {"new", "none"}
                           /\ \A r \in WithId' : r < x.conn
                      /\ x.type = "reject" =>
                           /\ x.conn # c /\ refs'[x.conn] \in {"new", "none"}
                           /\ enb'[x.conn].phase # "none"
                           /\ \A y \in Messages(app)' : y.type = "initial" => x.conn < y.conn
    BY <1>x DEF S1apOK, Rejected, InS1apOf
  <2>1. CASE x = m
    <3>1. refs'[c] = "new"
      BY <1>2, <1>3, <1>6
    <3>2. \A r \in WithId' : r <= u /\ r \in Nat
      BY <1>2, <1>6, <1>p DEF ConnectionsOK, WithId, HasId
    <3>3. \A r \in WithId' : r < c
      BY <1>2, <1>3, <3>2
    <3> QED
      BY <1>2, <1>3, <1>c, <1>m, <2>1, <3>1, <3>3 DEF Rejected, InS1apOf
  <2>2. CASE x \in Messages(s1ap)
    <3>1. x.conn \in Conns \cup {None} /\ x.conn \in Nat
          /\ (x.type \in {"notify", "reject"} => x.conn \in Conns)
      BY <1>p, <2>2, ConnsOfMessages, ConnsAreNumbers
    <3>2. x.type \in {"notify", "reject"} => refs'[x.conn] \in {"new", "none"}
      BY <1>5, <1>p, <2>2, <3>1 DEF S1apOK
    <3>3. x.type = "notify" => \A r \in WithId' : r < x.conn
      BY <1>6, <1>p, <2>2 DEF S1apOK
    <3>4. x.type = "reject" =>
            /\ x.conn # c /\ enb'[x.conn].phase # "none"
            /\ \A y \in Messages(app)' : y.type = "initial" => x.conn < y.conn
      BY <1>0, <1>1, <1>2, <1>3, <1>p, <2>2, <3>1 DEF S1apOK
    <3>5. x.type \in {"notify", "dl", "command"} /\ x.conn # None =>
            x.conn <= c /\ ~Rejected(x.conn)'
      BY <1>2, <1>12, <1>c, <1>p, <2>2, <3>1 DEF S1apOK
    <3> QED
      BY <3>2, <3>3, <3>4, <3>5
  <2> QED
    BY <1>7, <2>1, <2>2
<1>14. S1apOrder'
  <2>1. \A x \in Messages(s1ap) : S1apBehind(x, m)
    <3> SUFFICES ASSUME NEW x \in Messages(s1ap)
                 PROVE  /\ x.type = "notify" => x.conn < c
                        /\ x.type \in {"dl", "command"} => x.conn # c
      BY <1>m DEF S1apBehind
    <3>1. x.conn \in Nat
      BY <1>p, ConnsOfMessages, ConnsAreNumbers
    <3> QED
      BY <1>2, <1>12, <3>1
  <2> QED
    BY <1>0, <1>m, <1>p, <2>1, S1apLast
<1>15. CommandsOK'
  <2>1. \A x \in Messages(s1ap)' : x \in Messages(s1ap) \/ ~Effective(x)
    BY <1>7, <1>m DEF Effective
  <2>2. \A x \in Messages(s1ap)' : x \in S1apMsgs
    BY <1>7, <1>m, <1>p, ConnsOfMessages
  <2> QED
    BY <1>0, <1>p, <2>1, <2>2, CommandsKept
<1>16. ASSUME NEW r \in Conns, r < c, Live(r)'
       PROVE  \E x \in Messages(s1ap) : Removal(x, r)
  <2>1. Live(r) /\ refs'[r] = refs[r]
    BY <1>6, <1>16
  <2> SUFFICES ASSUME ~Rejected(r)
               PROVE  \E x \in Messages(s1ap) : Removal(x, r)
    BY DEF Rejected, InS1apOf, Removal
  <2>2. r <= u
    <3>1. CASE HasId(r)
      BY <1>p, <3>1 DEF ConnectionsOK
    <3>2. CASE refs[r] = "new"
      <4>1. InAppOf("initial", r) \/ InS1apOf("notify", r)
        BY <1>p, <3>2 DEF ConnectionsOK, Rejected
      <4>2. ~InAppOf("initial", r)
        <5> SUFFICES ASSUME NEW x \in Messages(app), x.type = "initial", x.conn = r
                     PROVE  FALSE
          BY DEF InAppOf
        <5>1. x = h \/ c < x.conn
          BY <1>0, <1>1 DEF AppBehind
        <5> QED
          BY <1>16, <1>2, <5>1
      <4>3. InS1apOf("notify", r) => r <= u
        BY <1>2, <1>p, ConnsAreNumbers DEF InS1apOf, S1apOK
      <4> QED
        BY <4>1, <4>2, <4>3
    <3> QED
      BY <2>1, <3>1, <3>2 DEF Live, HasId
  <2>3. r # ctx.key
    BY <1>5, <1>16
  <2> QED
    BY <1>4, <1>p, <2>1, <2>2, <2>3 DEF PresentOnly
<1>17. OlderRemoved'
  BY <1>0, <1>6, <1>m, <1>p, <1>16, OlderPut
<1>18. Core'
  <2>1. OneWithId'
    BY <1>6, <1>p DEF OneWithId
  <2> QED
    BY <1>1, <1>10, <1>11, <1>13, <1>14, <1>15, <1>17, <2>1 DEF Core
<1>19. PresentOnly'
  <2> SUFFICES ASSUME NEW r \in Conns, r <= c, Live(r)', r # c
               PROVE  \E x \in Messages(s1ap)' : Removal(x, r)
    BY <1>x DEF PresentOnly
  <2>1. r < c
    BY <1>2
  <2> QED
    BY <1>7, <1>16, <2>1
<1>20. KeyGoes' /\ OthersBefore'
  <2>1. refs'[c] = "new"
    BY <1>2, <1>3, <1>6
  <2>2. KeyGoes'
    BY <1>x, <2>1 DEF KeyGoes
  <2> QED
    BY <1>0, <1>m, <1>p, <1>x, <2>2, OthersNotified
<1>21. ReleaseUnderWay'
  <2>1. ASSUME NEW x \in Conns, WantsRelease(x)'
        PROVE  WantsRelease(x) /\ (Released(x) => Released(x)')
    <3>1. WantsRelease(x) /\ x # ctx.key
      BY <1>0, <1>5, <1>6, <2>1 DEF WantsRelease
    <3>2. Released(x) => Released(x)'
      BY <1>9, <1>c, <3>1 DEF Released
    <3> QED
      BY <3>1, <3>2
  <2> QED
    BY <1>p, <1>x, <2>1, ReleaseKept
<1>22. AttachedOK' /\ DetachOK' /\ DetachUnderWay'
  <2>1. /\ ~InApp("detach")' /\ ~InNas("detach")' /\ ~InNas("implicit")'
        /\ (InApp("cancel")' <=> InApp("cancel"))
    BY <1>0, <1>1, <1>4, <1>7, <1>m DEF InApp, InNas
  <2>2. AttachedOK' /\ DetachOK'
    BY <1>0, <1>4, <1>p, <1>x, <2>1 DEF AttachedOK, DetachOK
  <2>3. DetachUnderWay'
    BY <1>0, <1>4, <1>p, <2>1 DEF DetachUnderWay
  <2> QED
    BY <2>2, <2>3
<1> QED
  BY <1>8, <1>18, <1>19, <1>20, <1>21, <1>22, Whole

\* MME_APP rejects the connection: it is not taken up.
LEMMA AppInitialUeMessageFullInv ==
  ASSUME IInv, AppInitialUeMessageFull
  PROVE  IInv'
<1>p. /\ StateTyped /\ QueuesOK /\ Core /\ ConnectionsOK /\ AppOK /\ AppOrder /\ S1apOK
      /\ S1apOrder /\ CommandsOK /\ OlderRemoved /\ PresentOnly /\ KeyGoes /\ OthersBefore
      /\ ReleaseUnderWay /\ AttachedOK /\ DetachOK /\ OneWithId /\ DetachUnderWay
  BY Parts
<1> PICK h : h = Head(app)
  OBVIOUS
<1> PICK c : c = h.conn
  OBVIOUS
<1> PICK m : m = Msg("reject", c)
  OBVIOUS
<1>0. /\ app # <<>> /\ h.type = "initial" /\ app' = Tail(app) /\ s1ap' = Append(s1ap, m)
      /\ UNCHANGED <<ctx, emm, refs, lost, enb, nas, rab, esm, left>>
  BY DEF AppInitialUeMessageFull, AppMessage, Received
<1>1. /\ h \in Messages(app) /\ app' \in Seq(AppMsgs)
      /\ Messages(app)' \subseteq Messages(app)
      /\ \A x \in Messages(app) : x = h \/ x \in Messages(app)'
      /\ AppOrder' /\ \A x \in Messages(app)' : AppBehind(h, x)
  BY <1>0, <1>p, AppFirst, AppTaken
<1>2. /\ c \in Conns /\ c \in Nat /\ ctx.enb_ue \in Nat
      /\ \A x \in Conns \cup {None} : x \in Nat
  <2>1. c \in Conns
    BY <1>0, <1>1, <1>p, ConnsOfMessages DEF NamesOne
  <2>2. ctx.enb_ue \in Conns \cup {None}
    BY <1>p DEF StateTyped, Contexts
  <2> QED
    BY <2>1, <2>2, ConnsAreNumbers
<1>3. ctx.enb_ue < c /\ refs[c] = "new" /\ enb[c].phase # "none"
  BY <1>0, <1>1, <1>p DEF AppOK
<1>m. m \in S1apMsgs /\ m.type = "reject" /\ m.conn = c
  BY <1>2 DEF Msg, S1apMsgs
<1>7. /\ s1ap' \in Seq(S1apMsgs) /\ Messages(s1ap)' = Messages(s1ap) \cup {m}
      /\ Len(s1ap) \in Nat /\ Len(s1ap') = Len(s1ap) + 1 /\ s1ap'[Len(s1ap) + 1] = m
      /\ \A i \in 1 .. Len(s1ap) : s1ap'[i] = s1ap[i]
  BY <1>0, <1>m, <1>p, S1apPut, Put DEF QueuesOK
<1>8. StateTyped' /\ QueuesOK'
  BY <1>0, <1>1, <1>7, <1>p DEF StateTyped, QueuesOK
<1>9. /\ \A t, x : t # "initial" /\ InAppOf(t, x) => InAppOf(t, x)'
      /\ \A t : t # "initial" => (InApp(t)' <=> InApp(t))
      /\ \A x : InAppOf("initial", x) => x = c \/ InAppOf("initial", x)'
      /\ \A t, x : InS1apOf(t, x) => InS1apOf(t, x)'
      /\ \A x : Rejected(x)' => x = c \/ Rejected(x)
      /\ \A x : InCommand(x) => InCommand(x)'
      /\ InS1apOf("reject", c)'
  BY <1>0, <1>1, <1>7, <1>m DEF InAppOf, InApp, InS1apOf, InCommand, Rejected
<1>s. /\ Calm /\ Steady
      /\ \A x \in Conns : (Live(x)' <=> Live(x)) /\ (WantsRelease(x)' <=> WantsRelease(x))
      /\ WithId' = WithId
  BY <1>0 DEF Calm, Steady, Live, HasId, WithId, WantsRelease
<1>10. ConnectionsOK'
  BY <1>9, <1>s, <1>p, ConnectionsKept
<1>11. AppOK'
  <2> SUFFICES ASSUME NEW x \in Messages(app)'
               PROVE  /\ x.type = "initial" =>
                           ctx.enb_ue < x.conn /\ refs[x.conn] = "new" /\ enb[x.conn].phase # "none"
                      /\ x.type \in {"release", "dereg"} =>
                           x.conn <= ctx.enb_ue /\ ~Rejected(x.conn)'
                      /\ x.type = "deregNew" => enb[x.conn].at # None
                      /\ x.type = "complete" /\ x.conn # None =>
                           x.conn <= ctx.enb_ue /\ refs[x.conn] = "none"
    BY <1>0 DEF AppOK, Rejected, InS1apOf
  <2>1. x.type \in {"release", "dereg"} => x.conn # c
    BY <1>1, <1>2, <1>3, <1>p DEF AppOK
  <2> QED
    BY <1>1, <1>9, <1>p, <2>1 DEF AppOK
<1>13. S1apOK'
  <2> SUFFICES ASSUME NEW x \in Messages(s1ap)'
               PROVE  /\ x.type \in {"notify", "dl", "command"} /\ x.conn # None =>
                           x.conn <= ctx.enb_ue /\ ~Rejected(x.conn)'
                      /\ x.type = "notify" =>
                           /\ refs[x.conn] \in {"new", "none"}
                           /\ \A r \in WithId : r < x.conn
                      /\ x.type = "reject" =>
                           /\ x.conn # ctx.enb_ue /\ refs[x.conn] \in {"new", "none"}
                           /\ enb[x.conn].phase # "none"
                           /\ \A y \in Messages(app)' : y.type = "initial" => x.conn < y.conn
    BY <1>0, <1>s DEF S1apOK, Rejected, InS1apOf
  <2>1. CASE x = m
    <3>1. \A y \in Messages(app)' : y.type = "initial" => c < y.conn
      BY <1>0, <1>1 DEF AppBehind
    <3> QED
      BY <1>2, <1>3, <1>m, <2>1, <3>1
  <2>2. CASE x \in Messages(s1ap)
    <3>1. x.type \in {"notify", "dl", "command"} /\ x.conn # None => x.conn # c
      BY <1>2, <1>3, <1>p, <2>2 DEF S1apOK
    <3> QED
      BY <1>1, <1>9, <1>p, <2>2, <3>1 DEF S1apOK
  <2> QED
    BY <1>7, <2>1, <2>2
<1>14. S1apOrder'
  <2>1. \A x \in Messages(s1ap) : S1apBehind(x, m)
    BY <1>m DEF S1apBehind
  <2> QED
    BY <1>0, <1>m, <1>p, <2>1, S1apLast
<1>15. CommandsOK' /\ OlderRemoved'
  <2>1. CommandsOK'
    BY <1>0, <1>7, <1>m, <1>p, CommandsKept DEF Effective
  <2>2. OlderRemoved'
    BY <1>0, <1>m, <1>p, <1>s, OlderPut
  <2> QED
    BY <2>1, <2>2
<1>16. OneWithId'
  BY <1>s, <1>p, OneKept
<1>17. Core'
  BY <1>1, <1>10, <1>11, <1>13, <1>14, <1>15, <1>16 DEF Core
<1>18. PresentOnly'
  <2> SUFFICES ASSUME ctx.exists, NEW r \in Conns, r <= ctx.enb_ue, Live(r)
               PROVE  r = ctx.key \/ \E x \in Messages(s1ap)' : Removal(x, r)
    BY <1>0, <1>s DEF PresentOnly
  <2> QED
    BY <1>7, <1>p DEF PresentOnly
<1>19. KeyGoes'
  <2> PICK k : k = ctx'.key
    OBVIOUS
  <2>1. \A x \in Messages(app) : x.type = "complete" => x \in Messages(app)'
    BY <1>0, <1>1
  <2> QED
    BY <1>0, <1>p, <2>1, KeyKept
<1>20. OthersBefore'
  <2>1. ~Other(m, ctx.key)
    BY <1>m DEF Other, Effective
  <2> SUFFICES ASSUME ctx'.exists, ctx'.registered, ctx'.key # None,
                      NEW i \in 1 .. Len(s1ap'), Other(s1ap'[i], ctx.key)
               PROVE  \E j \in 1 .. Len(s1ap') :
                        i < j /\ s1ap'[j].type = "notify" /\ s1ap'[j].conn = ctx'.key
    BY <1>0 DEF OthersBefore, Other, Silent, Effective
  <2>2. i \in 1 .. Len(s1ap) /\ Other(s1ap[i], ctx.key)
    BY <1>7, <2>1
  <2>3. PICK j \in 1 .. Len(s1ap) : i < j /\ s1ap[j].type = "notify" /\ s1ap[j].conn = ctx.key
    BY <1>0, <1>p, <2>2 DEF OthersBefore, Other
  <2> QED
    BY <1>0, <1>7, <2>3
<1>21. ReleaseUnderWay'
  <2>1. \A x \in Conns : Released(x) => Released(x)'
    BY <1>0, <1>9 DEF Released
  <2> QED
    BY <1>0, <1>p, <1>s, <2>1, ReleaseKept
<1>22. AttachedOK' /\ DetachOK' /\ DetachUnderWay'
  <2>1. /\ ctx.exists /\ ctx.registered /\ emm /\ esm = 0
        /\ ~InApp("detach") /\ ~InNas("detach") /\ ~InNas("implicit")
    <3>1. InApp("initial")
      BY <1>0, <1>1 DEF InApp
    <3> QED
      BY <1>p, <3>1 DEF AttachedOK
  <2>2. /\ ~InApp("detach")' /\ ~InNas("detach")' /\ ~InNas("implicit")'
        /\ (InApp("cancel")' <=> InApp("cancel"))
    BY <1>0, <1>9, <2>1 DEF InNas, Messages
  <2> QED
    BY <1>0, <1>p, <2>1, <2>2 DEF AttachedOK, DetachOK, DetachUnderWay
<1> QED
  BY <1>8, <1>17, <1>18, <1>19, <1>20, <1>21, <1>22, Whole

\* S1AP removes the reference of a rejected connection.
LEMMA S1apRejectInv ==
  ASSUME IInv, S1apReject
  PROVE  IInv'
<1>p. /\ StateTyped /\ QueuesOK /\ Core /\ ConnectionsOK /\ S1apOK /\ PresentOnly /\ KeyGoes
      /\ OthersBefore /\ ReleaseUnderWay
  BY Parts
<1> PICK h : h = Head(s1ap)
  OBVIOUS
<1> PICK c : c = h.conn
  OBVIOUS
<1>0. /\ s1ap # <<>> /\ h.type = "reject" /\ s1ap' = Tail(s1ap)
      /\ UNCHANGED <<ctx, emm, lost, app, nas, rab, esm, left>>
  BY DEF S1apReject, S1apMessage, Received
<1>1. /\ h \in Messages(s1ap) /\ c \in Conns /\ Rejected(c)
      /\ Messages(s1ap)' \subseteq Messages(s1ap)
      /\ \A m \in Messages(s1ap) : m = h \/ m \in Messages(s1ap)'
  BY <1>0, <1>p, S1apTaken, ConnsOfMessages DEF Rejected, InS1apOf
<1>2. c # ctx.enb_ue /\ refs[c] \in {"new", "none"} /\ enb[c].phase # "none"
  BY <1>0, <1>1, <1>p DEF S1apOK
<1>3. /\ refs' \in [Conns -> RefStates] /\ enb' \in [Conns -> EnbConns]
      /\ \A x \in Conns : x # c => refs'[x] = refs[x] /\ enb'[x] = enb[x]
      /\ refs'[c] = "none"
      /\ enb'[c].at = enb[c].at /\ enb'[c].asked = enb[c].asked
      /\ enb'[c].unnamed = enb[c].unnamed /\ enb'[c].phase \in {enb[c].phase, "gone"}
  <2>1. refs \in [Conns -> RefStates] /\ enb \in [Conns -> EnbConns] /\ enb[c] \in EnbConns
    BY <1>1, <1>p DEF StateTyped
  <2>2. CASE Live(c)
    <3>1. refs' = [refs EXCEPT ![c] = "none"] /\ enb' = [enb EXCEPT ![c].phase = "gone"]
      BY <2>2 DEF S1apReject
    <3> QED
      BY <1>1, <2>1, <3>1 DEF RefStates, EnbConns, Phases
  <2>3. CASE ~Live(c)
    <3>1. refs' = refs /\ enb' = enb
      BY <2>3 DEF S1apReject
    <3> QED
      BY <1>2, <2>1, <2>3, <3>1 DEF Live
  <2> QED
    BY <2>2, <2>3
<1>4. Calm
  BY <1>0, <1>1, <1>2, <1>3 DEF Calm, Steady, HasId
<1>5. AppGrows /\ AppMoves /\ ~AppTakes /\ Messages(app)' = Messages(app)
  <2>1. ~AppTakes
    BY <1>0, <1>p, Taken DEF AppTakes, QueuesOK
  <2> QED
    BY <1>0, <1>p, <2>1, AppStays DEF AppMoves, Messages
<1>6. S1apTakes /\ S1apMoves
  BY <1>0, <1>3 DEF S1apTakes, S1apMoves, Removal, Live, HasId
<1>7. StateTyped' /\ Core' /\ QueuesOK'
  <2>1. Core' /\ app' \in Seq(AppMsgs) /\ s1ap' \in Seq(S1apMsgs)
    BY <1>p, <1>4, <1>5, <1>6, CoreKept
  <2> QED
    BY <1>0, <1>3, <1>p, <2>1 DEF QueuesOK, StateTyped
<1>8. PresentOnly' /\ OthersBefore'
  BY <1>0, <1>p, <1>4, <1>6, PresentMoved, OthersTaken
<1>9. KeyGoes'
  <2> PICK k : k = ctx'.key
    OBVIOUS
  <2>1. k = ctx.key /\ (k # None => k \in Conns /\ k # c)
    BY <1>0, <1>2, <1>p DEF StateTyped, Contexts
  <2>2. k # None /\ refs'[k] = "none" => refs[k] = "none"
    BY <1>3, <2>1
  <2> QED
    BY <1>0, <1>5, <1>p, <2>1, <2>2, KeyKept
<1>10. \A x : InCommand(x) => InCommand(x)'
  BY <1>0, <1>1 DEF InCommand, Effective
<1>11. ReleaseUnderWay'
  <2>1. \A x \in Conns : WantsRelease(x)' => WantsRelease(x)
    BY <1>0, <1>3 DEF WantsRelease, Live, HasId
  <2>2. \A x \in Conns : Released(x) => Released(x)'
    BY <1>0, <1>5, <1>10 DEF Released, InAppOf, InApp
  <2> QED
    BY <1>0, <1>p, <2>1, <2>2, ReleaseKept
<1>12. AttachedOK' /\ DetachOK' /\ DetachUnderWay'
  <2>1. EndUnderWay => EndUnderWay'
    <3>1. InApp("complete") => InApp("complete")'
      BY <1>5 DEF InApp
    <3>2. ctx.enb_ue \in Conns /\ refs'[ctx.enb_ue] = "none" => refs[ctx.enb_ue] = "none"
      BY <1>2, <1>3
    <3> QED
      BY <1>0, <1>4, <1>10, <1>p, <3>1, <3>2, EndKept DEF Calm
  <2>2. SameUe
    BY <1>0 DEF SameUe, InNas, Messages
  <2> QED
    BY <1>5, <2>1, <2>2, UeKept
<1> QED
  BY <1>7, <1>8, <1>9, <1>11, <1>12, Whole

-----------------------------------------------------------------------------
(* The invariant holds initially and in every step *)

LEMMA EmptyQueue ==
  ASSUME NEW q, q = <<>>
  PROVE  q \in Seq(AppMsgs) /\ q \in Seq(S1apMsgs) /\ q \in Seq(NasMsgs)
         /\ Len(q) = 0 /\ Messages(q) = {} /\ \A i \in Nat : ~(i \in 1 .. Len(q))
  BY DEF Messages

LEMMA InitInv ==
  Init => IInv
<1> SUFFICES ASSUME Init
             PROVE  IInv
  OBVIOUS
<1>0. /\ emm = TRUE /\ lost = {} /\ rab = 0 /\ esm = 0 /\ left = FALSE
      /\ app = <<>> /\ s1ap = <<>> /\ nas = <<>>
  BY DEF Init
<1>1. /\ QueuesOK /\ Messages(app) = {} /\ Messages(s1ap) = {} /\ Messages(nas) = {}
      /\ Len(app) = 0 /\ Len(s1ap) = 0
  BY <1>0, EmptyQueue DEF QueuesOK
<1>2. /\ ctx \in Contexts /\ ctx.exists /\ ctx.registered /\ ctx.cause # "implicit"
      /\ ctx.key = ctx.enb_ue
      /\ refs \in [Conns -> RefStates] /\ enb \in [Conns -> EnbConns]
      /\ \A c \in Conns : ~enb[c].asked
      /\ \/ /\ ctx.enb_ue = None
            /\ \A c \in Conns : refs[c] = "none" /\ enb[c].phase = "none" /\ enb[c].at = None
         \/ /\ ctx.enb_ue = 1 /\ 1 \in Conns
            /\ refs[1] = "ue" /\ enb[1].phase = "known" /\ enb[1].at \in Enbs
            /\ \A c \in Conns : c # 1 =>
                 refs[c] = "none" /\ enb[c].phase = "none" /\ enb[c].at = None
  <2>1. 1 \in Conns /\ None = 0
    BY BoundsAssumption DEF Conns, None
  <2>n. /\ NoConnection \in EnbConns /\ NoConnection.phase = "none"
        /\ NoConnection.at = None /\ NoConnection.asked = FALSE
    BY DEF NoConnection, EnbConns, Phases
  <2>2. ASSUME NEW cause \in {"told", "sctp", "invalid"}, NEW x, x = IdleContext(cause)
        PROVE  /\ x \in Contexts /\ x.exists /\ x.registered /\ x.cause = cause
               /\ x.key = None /\ x.enb_ue = None
    BY <2>2 DEF IdleContext, Contexts, Causes, Kinds
  <2>3. CASE /\ ctx \in {IdleContext("told"), IdleContext("sctp")}
             /\ refs = [c \in Conns |-> "none"]
             /\ enb = [c \in Conns |-> NoConnection]
    <3>1. /\ ctx \in Contexts /\ ctx.exists /\ ctx.registered /\ ctx.cause # "implicit"
          /\ ctx.key = None /\ ctx.enb_ue = None
      BY <2>2, <2>3
    <3>2. /\ refs \in [Conns -> RefStates] /\ enb \in [Conns -> EnbConns]
          /\ \A c \in Conns : refs[c] = "none" /\ enb[c] = NoConnection
      BY <2>3, <2>n DEF RefStates
    <3> QED
      BY <2>n, <3>1, <3>2
  <2>4. ASSUME ctx = ConnectedContext,
               refs = [c \in Conns |-> IF c = 1 THEN "ue" ELSE "none"],
               NEW e \in Enbs, NEW n, n = [NoConnection EXCEPT !.at = e, !.phase = "known"],
               enb = [c \in Conns |-> IF c = 1 THEN n ELSE NoConnection]
        PROVE  /\ ctx \in Contexts /\ ctx.exists /\ ctx.registered /\ ctx.cause # "implicit"
               /\ ctx.key = 1 /\ ctx.enb_ue = 1
               /\ refs \in [Conns -> RefStates] /\ enb \in [Conns -> EnbConns]
               /\ \A c \in Conns : ~enb[c].asked
               /\ refs[1] = "ue" /\ enb[1].phase = "known" /\ enb[1].at \in Enbs
               /\ \A c \in Conns : c # 1 =>
                    refs[c] = "none" /\ enb[c].phase = "none" /\ enb[c].at = None
    <3> PICK x : x = IdleContext("invalid")
      OBVIOUS
    <3>1. x \in Contexts /\ x.exists /\ x.registered /\ x.cause = "invalid"
      BY <2>2
    <3>2. ctx = [x EXCEPT !.key = 1, !.enb_ue = 1, !.timers = {}]
      BY <2>4 DEF ConnectedContext
    <3>3. /\ ctx \in Contexts /\ ctx.exists /\ ctx.registered /\ ctx.cause # "implicit"
          /\ ctx.key = 1 /\ ctx.enb_ue = 1
      BY <2>1, <3>1, <3>2 DEF Contexts
    <3>4. n \in EnbConns /\ n.phase = "known" /\ n.at = e /\ n.asked = FALSE
      BY <2>4 DEF NoConnection, EnbConns, Phases
    <3>5. /\ refs \in [Conns -> RefStates] /\ enb \in [Conns -> EnbConns]
          /\ refs[1] = "ue" /\ enb[1] = n
          /\ \A c \in Conns : c # 1 => refs[c] = "none" /\ enb[c] = NoConnection
      BY <2>1, <2>4, <2>n, <3>4 DEF RefStates
    <3> QED
      BY <2>n, <3>3, <3>4, <3>5
  <2>5. \/ /\ ctx \in {IdleContext("told"), IdleContext("sctp")}
           /\ refs = [c \in Conns |-> "none"]
           /\ enb = [c \in Conns |-> NoConnection]
        \/ /\ ctx = ConnectedContext
           /\ refs = [c \in Conns |-> IF c = 1 THEN "ue" ELSE "none"]
           /\ \E e \in Enbs : enb = [c \in Conns |-> IF c = 1 THEN
                 [NoConnection EXCEPT !.at = e, !.phase = "known"] ELSE NoConnection]
    BY DEF Init
  <2>6. CASE /\ ctx = ConnectedContext
             /\ refs = [c \in Conns |-> IF c = 1 THEN "ue" ELSE "none"]
             /\ \E e \in Enbs : enb = [c \in Conns |-> IF c = 1 THEN
                   [NoConnection EXCEPT !.at = e, !.phase = "known"] ELSE NoConnection]
    <3> PICK e \in Enbs : enb = [c \in Conns |-> IF c = 1 THEN
                   [NoConnection EXCEPT !.at = e, !.phase = "known"] ELSE NoConnection]
      BY <2>6
    <3> QED
      BY ZenonT(60), <2>1, <2>4, <2>6
  <2> QED
    BY <2>3, <2>5, <2>6
<1>3. StateTyped
  BY <1>0, <1>2 DEF StateTyped
<1>4. \A c \in Conns : c \in Nat /\ c > 0
  BY ConnsAreNumbers
<1>5. ConnectionsOK
  <2>1. \A c \in Conns :
          /\ ~HasId(c) \/ (c = 1 /\ ctx.enb_ue = 1)
          /\ refs[c] # "new"
    BY <1>2 DEF HasId
  <2> QED
    BY <1>2, <1>4, <2>1, ConnsAreNumbers DEF ConnectionsOK, HasId
<1>6. Core
  <2>1. AppOK /\ AppOrder /\ S1apOK /\ S1apOrder /\ CommandsOK /\ OlderRemoved
    BY <1>1 DEF AppOK, AppOrder, S1apOK, S1apOrder, CommandsOK, OlderRemoved
  <2>2. OneWithId
    BY <1>2 DEF OneWithId, WithId, HasId
  <2> QED
    BY <1>5, <2>1, <2>2 DEF Core
<1>7. PresentOnly /\ KeyGoes /\ OthersBefore
  BY <1>1, <1>2, ConnsAreNumbers DEF PresentOnly, KeyGoes, OthersBefore, Live, HasId
<1>8. AttachedOK /\ DetachOK /\ DetachUnderWay
  BY <1>0, <1>1, <1>2 DEF AttachedOK, DetachOK, DetachUnderWay, InApp, InNas
<1>9. ReleaseUnderWay
  BY <1>0, <1>2 DEF ReleaseUnderWay, WantsRelease
<1> QED
  BY <1>1, <1>3, <1>6, <1>7, <1>8, <1>9, TypeOKIs DEF IInv, Core

LEMMA StayInv ==
  ASSUME IInv, UNCHANGED vars
  PROVE  IInv'
<1>p. StateTyped /\ QueuesOK
  BY Parts
<1>0. UNCHANGED <<ctx, emm, refs, lost, enb, app, s1ap, nas, rab, esm, left>>
  BY DEF vars
<1>1. AppGrows /\ Calm /\ SameUe
  BY <1>0, <1>p, AppStays, CalmStays DEF SameUe, InNas, Messages
<1>2. \A c \in Conns : (WantsRelease(c)' <=> WantsRelease(c)) /\ (Released(c)' <=> Released(c))
  BY <1>0 DEF WantsRelease, Live, Released, InAppOf, InApp, InS1apOf, Messages, HasId, InCommand
<1>3. Messages(app)' = Messages(app)
  BY <1>0 DEF Messages
<1> QED
  BY <1>0, <1>1, <1>2, <1>3, <1>p, PutsInv DEF StateTyped, QueuesOK

\* A timer that expires finds no context: its argument is not the id of the UE.
LEMMA AppTimerHasExpiredInv ==
  ASSUME IInv, NEW k \in Kinds, AppTimerHasExpired(k)
  PROVE  IInv'
<1>1. ~FindContext(TimerArg)
  BY DEF FindContext, TimerArg
<1>2. UNCHANGED vars
  BY <1>1 DEF AppTimerHasExpired, vars
<1> QED
  BY <1>2, StayInv

LEMMA NextInv ==
  IInv /\ [Next]_vars => IInv'
<1> SUFFICES ASSUME IInv, [Next]_vars
             PROVE  IInv'
  OBVIOUS
<1>1. CASE AppNext
  BY <1>1, AppInitialUeMessageInv, AppInitialUeMessageFullInv, AppReleaseRequestInv, AppEnbDeregisteredInv,
     AppReleaseCompleteInv, AppReleaseBearersResponseInv, AppConnectionEstablishmentCnfInv,
     AppSetupResponseInv, AppSetupFailureInv, AppNasDownlinkInv, AppCancelLocationInv,
     AppDetachRequestInv DEF AppNext
<1>2. CASE S1apNext
  BY <1>2, S1apNewUeAssociationInv, S1apConnectionEstablishmentCnfInv, S1apDownlinkNasInv,
     S1apReleaseCommandInv, S1apRejectInv DEF S1apNext
<1>3. CASE NasNext
  BY <1>3, NasInitialInv, NasImplicitDetachInv, NasDetachRequestInv DEF NasNext
<1>4. CASE EsmDetach \/ SgwAnswers \/ HssCancelsLocation \/ UNCHANGED vars
  BY <1>4, EsmDetachInv, SgwAnswersInv, HssCancelsLocationInv, StayInv
<1>5. ASSUME NEW k \in Kinds, AppTimerHasExpired(k)
      PROVE  IInv'
  BY <1>5, AppTimerHasExpiredInv
<1>6. ASSUME NEW c \in Conns,
             \/ S1apReleaseTimerExpiry(c) \/ ReleaseRequest(c) \/ ReleaseComplete(c)
             \/ UeDetaches(c)
      PROVE  IInv'
  BY <1>6, S1apReleaseTimerExpiryInv, ReleaseRequestInv, ReleaseCompleteInv, UeDetachesInv
<1>7. ASSUME NEW c \in Conns, NEW e \in Enbs, Connect(c, e)
      PROVE  IInv'
  BY <1>7, ConnectInv
<1>8. ASSUME NEW c \in Conns, NEW type \in {"icsResponse", "icsFailure"}, SetupAnswer(c, type)
      PROVE  IInv'
  BY <1>8, SetupAnswerInv
<1>9. ASSUME NEW e \in Enbs, EnbLost(e)
      PROVE  IInv'
  BY <1>9, EnbLostInv
<1> QED
  BY <1>1, <1>2, <1>3, <1>4, <1>5, <1>6, <1>7, <1>8, <1>9 DEF Next

-----------------------------------------------------------------------------
(* What holds of every connection of the UE *)

\* IInv is an invariant of TASK_MME_APP, TASK_S1AP and TASK_NAS_EMM: all the
\* theorems below rest on it.
THEOREM Invariance == Spec => []IInv
  BY InitInv, NextInv, PTL DEF Spec

\* The shape of the state: enb_s1ap_id_key is only set together with the ids of the
\* eNB, and an initial UE message never reaches MME_APP after the UE context or the
\* EMM context was removed.
THEOREM TypeCorrect == Spec => []TypeOK
<1>1. IInv => TypeOK
  BY DEF IInv
<1> QED
  BY <1>1, Invariance, PTL

\* S1AP never has two references with the MME UE S1AP ID of the UE, and whenever
\* nothing is under way the UE context and S1AP agree on its connection.
THEOREM Agreement == Spec => []ConnectionAgrees
<1>1. ASSUME IInv
      PROVE  ConnectionAgrees
  <2>p. /\ StateTyped /\ ConnectionsOK /\ PresentOnly /\ OneWithId /\ KeyGoes
    BY <1>1, Parts
  <2>1. Cardinality(WithId) <= 1
    <3>1. CASE WithId = {}
      BY <3>1, FS_EmptySet
    <3>2. ASSUME NEW r \in WithId
          PROVE  Cardinality(WithId) <= 1
      <4>1. WithId = {r}
        BY <2>p DEF OneWithId
      <4>2. Cardinality({r}) = 1
        BY FS_Singleton
      <4> QED
        BY <4>1, <4>2
    <3> QED
      BY <3>1, <3>2
  <2>2. ASSUME Quiet, ctx.exists
        PROVE  /\ \A c \in Conns : refs[c] \in {"new", "ue"} => ctx.key = c
               /\ ctx.registered /\ (\A c \in Conns : ~Live(c)) /\ ~Lapsed => ctx.key = None
    <3>1. Messages(app) = {} /\ Messages(s1ap) = {}
      BY <2>2, EmptyQueue DEF Quiet
    <3>2. ASSUME NEW c \in Conns, refs[c] \in {"new", "ue"}
          PROVE  ctx.key = c
      <4>1. refs[c] = "ue"
        BY <2>p, <3>1, <3>2 DEF ConnectionsOK, InAppOf, InS1apOf, InCommand
      <4>2. c <= ctx.enb_ue /\ Live(c)
        BY <2>p, <4>1 DEF ConnectionsOK, Live, HasId
      <4> QED
        BY <2>2, <2>p, <3>1, <4>2 DEF PresentOnly
    <3>3. ASSUME \A c \in Conns : ~Live(c), ~Lapsed, ctx.key # None
          PROVE  FALSE
      <4>1. ctx.key \in Conns /\ ctx.key = ctx.enb_ue /\ refs[ctx.key] \in RefStates
        BY <2>p, <3>3 DEF StateTyped, Contexts
      <4>2. refs[ctx.key] = "none"
        BY <3>3, <4>1 DEF Live, Lapsed, RefStates, HasId
      <4> QED
        BY <2>2, <2>p, <3>1, <3>3, <4>2 DEF KeyGoes, InAppOf, InApp
    <3> QED
      BY <3>2, <3>3
  <2> QED
    BY <2>1, <2>2 DEF ConnectionAgrees
<1> QED
  BY <1>1, Invariance, PTL

\* A release comes to its end, whatever it crosses: when nothing is under way no
\* reference is left of a connection whose eNB asked for the release or was lost,
\* and none is left of the context of a UE that detached.  Excepted are connections
\* whose loss S1AP told of without the MME UE S1AP ID, what the release timer ended
\* (the message does not tell MME_APP which), and of a detached UE the reference whose
\* release timer has the key of another eNB.
THEOREM Releases == Spec => []ReleasesEnd
<1>1. ASSUME IInv
      PROVE  ReleasesEnd
  <2>p. /\ ReleaseUnderWay /\ DetachUnderWay /\ PresentOnly /\ StateTyped /\ ConnectionsOK
    BY <1>1, Parts
  <2> SUFFICES ASSUME Quiet, \A c \in Conns : refs[c] # "crr", ctx.exists
               PROVE  /\ \A c \in Conns : Live(c) /\ ~(Untimed(c) /\ ~ctx.registered) =>
                           ~enb[c].asked /\ (enb[c].at \in lost => enb[c].unnamed)
                      /\ left => Lapsed \/ Untimed(ctx.enb_ue)
    BY DEF ReleasesEnd
  <2>1. /\ Messages(app) = {} /\ Messages(s1ap) = {} /\ Messages(nas) = {}
        /\ rab = 0 /\ esm = 0
    BY EmptyQueue DEF Quiet
  <2>2. \A c : ~Released(c)
    BY <2>1 DEF Released, InAppOf, InApp, InCommand
  <2>3. ctx.registered => \A c \in Conns : ~WantsRelease(c)
    BY <2>2, <2>p DEF ReleaseUnderWay, Released
  <2>5. ~ctx.registered \/ left => ctx.enb_ue # None /\ refs[ctx.enb_ue] \in {"untimed", "lapsed"}
    <3>1. ~ctx.registered => left
      BY <1>1, <2>1, Parts DEF AttachedOK
    <3>2. left => EndUnderWay
      BY <2>1, <2>p DEF DetachUnderWay, InApp, InNas
    <3>3. ctx.enb_ue \in Conns \cup {None}
      BY <2>p DEF StateTyped, Contexts
    <3> QED
      BY <2>1, <3>1, <3>2, <3>3 DEF EndUnderWay, InApp, InCommand
  <2>6. ASSUME NEW c \in Conns, Live(c), ~ctx.registered
        PROVE  Untimed(c) \/ (~enb[c].asked /\ (enb[c].at \in lost => enb[c].unnamed))
    <3>1. CASE refs[c] = "new"
      <4>1. c <= ctx.enb_ue \/ InAppOf("initial", c) \/ InS1apOf("notify", c) \/ InS1apOf("reject", c)
        BY <2>p, <3>1 DEF ConnectionsOK
      <4> QED
        BY <2>1, <2>p, <3>1 DEF ConnectionsOK, InAppOf, InS1apOf
    <3>2. CASE HasId(c)
      <4>1. c = ctx.key
        BY <2>1, <2>6, <2>p, <3>2 DEF PresentOnly, ConnectionsOK
      <4>2. c = ctx.enb_ue /\ c # None
        BY <2>p, <4>1, ConnsAreNumbers DEF StateTyped
      <4> QED
        BY <2>5, <2>6, <3>2, <4>2 DEF Untimed, HasId
    <3> QED
      BY <2>6, <3>1, <3>2 DEF Live
  <2>7. \A c \in Conns : Live(c) /\ ~(Untimed(c) /\ ~ctx.registered) =>
          ~enb[c].asked /\ (enb[c].at \in lost => enb[c].unnamed)
    BY <2>3, <2>6 DEF WantsRelease
  <2> QED
    BY <2>5, <2>7 DEF Lapsed, Untimed
<1> QED
  BY <1>1, Invariance, PTL
=============================================================================
