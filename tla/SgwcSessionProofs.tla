--------------------------- MODULE SgwcSessionProofs ---------------------------
(***************************************************************************)
(* Proofs about SgwcSession for every number of subscribers, connections,   *)
(* bearers and requests.                                                    *)
(***************************************************************************)
EXTENDS SgwcSession, FiniteSetTheorems, SequenceTheorems, WellFoundedInduction, TLAPS

IsMap(m) == m = [x \in DOMAIN m |-> m[x]]

ProcRecords ==
  [type : {"create", "ddn"}, tx : Nat]
    \cup [type : {"delete"}, tx : Nat, pdn : Nat]
    \cup [type : {"modify"}, tx : Nat, pdn_bearers : SUBSET [tx : Nat, pdn : Nat]]
    \cup [type : {"release"}, tx : Nat, bearers : Int]

Requests ==
  [type : {"create", "delete", "modify", "release"}, tx : Nat, teid : Nat, pgw : Nat, enb : Nat]

PdnRecords ==
  [apn : APNs, default_bearer : EBIs, enb_fteid_s1u : EnbFteids \cup {NoFteid}, pgw : Nat]

\* The types TypeOK leaves open.
EbcShape ==
  /\ IsMap(ebc)
  /\ \A c \in DOMAIN ebc :
       /\ ebc[c] = Context(ebc[c].imsi, Conns(c), Procs(c))
       /\ ebc[c].imsi \in IMSIs
       /\ IsMap(Conns(c)) /\ DOMAIN Conns(c) \subseteq APNs
       /\ Procs(c) \in Seq(ProcRecords)
PdnShape == IsMap(pdn) /\ \A t \in DOMAIN pdn : pdn[t] \in PdnRecords
ShapesOK ==
  /\ teid_s11_cp \in Nat /\ teid_s5s8_cp \in Nat /\ uid \in Nat
  /\ IsMap(imsi2sgw_eps_bearer_context) /\ IsMap(s5s8lteid2sgw_contexts)
  /\ DOMAIN imsi2sgw_eps_bearer_context \subseteq IMSIs
  /\ IsMap(answers) /\ IsMap(made)
  /\ EbcShape /\ PdnShape
  /\ s5s8 \subseteq Requests

\* TablesAgree, with the table of IMSIs read in both directions.
ContextsByTeid == s11lteid2sgw_eps_bearer_context = [c \in DOMAIN ebc |-> c]
ContextsByImsi ==
  /\ \A c \in DOMAIN ebc :
       /\ ebc[c].imsi \in DOMAIN imsi2sgw_eps_bearer_context
       /\ imsi2sgw_eps_bearer_context[ebc[c].imsi] = c
  /\ \A i \in DOMAIN imsi2sgw_eps_bearer_context :
       /\ imsi2sgw_eps_bearer_context[i] \in DOMAIN ebc
       /\ ebc[imsi2sgw_eps_bearer_context[i]].imsi = i
PdnsByTeid ==
  /\ DOMAIN s5s8lteid2sgw_contexts = DOMAIN pdn
  /\ \A t \in DOMAIN pdn :
       LET c == s5s8lteid2sgw_contexts[t]
       IN c \in DOMAIN ebc /\ pdn[t].apn \in DOMAIN Conns(c) /\ Conns(c)[pdn[t].apn] = t
PdnsByApn ==
  \A c \in DOMAIN ebc : \A a \in DOMAIN Conns(c) :
    LET t == Conns(c)[a]
    IN t \in DOMAIN pdn /\ s5s8lteid2sgw_contexts[t] = c /\ pdn[t].apn = a
SomePdn == \A c \in DOMAIN ebc : DOMAIN Conns(c) # {}

Tables == ContextsByTeid /\ ContextsByImsi /\ PdnsByTeid /\ PdnsByApn /\ SomePdn

\* Everything that was given a number has one up to the counter.
Bounded ==
  /\ DOMAIN ebc \subseteq 1 .. teid_s11_cp /\ told \subseteq 1 .. teid_s11_cp
  /\ DOMAIN pdn \subseteq 1 .. teid_s5s8_cp /\ DOMAIN made = 1 .. teid_s5s8_cp
  /\ \A t \in DOMAIN pdn : pdn[t].pgw <= uid
  /\ \A x \in s5s8 : x.tx <= uid /\ x.teid \in 1 .. teid_s5s8_cp /\ x.pgw <= uid
                     /\ x.enb \in EnbFteids \cup {NoFteid}
  /\ \A c \in DOMAIN ebc : \A k \in DOMAIN Procs(c) : Procs(c)[k].tx <= uid
  /\ DOMAIN answers \subseteq 1 .. uid /\ unnamed \subseteq 1 .. uid

\* A request to create a session is about the connection its transaction made.
CreatesOwn ==
  /\ OwnSession
  /\ \A x \in s5s8 : x.type = "create" => made[x.teid] = x.tx

\* Only the emulated delete requests have transaction 0; their connections are
\* gone when they are made.
DefaultTxGone == \A x \in s5s8 : x.tx = 0 => ~Live(x.teid)

Shared(type, tx) == type = "delete" /\ tx \in unnamed

\* A transaction belongs to one procedure, except that of a delete request
\* without a bearer, which belongs to one for each connection.
OneProcedure ==
  \A c, d \in DOMAIN ebc : \A k \in DOMAIN Procs(c), j \in DOMAIN Procs(d), tx \in 1 .. uid :
    HasTrxnId(Procs(c)[k], tx) /\ HasTrxnId(Procs(d)[j], tx) =>
      /\ Procs(c)[k].type = Procs(d)[j].type
      /\ (c = d /\ k = j) \/ Shared(Procs(c)[k].type, tx)

\* A request to PGW-C and a procedure with its transaction are of one type.
OneType ==
  \A x \in s5s8, c \in DOMAIN ebc : \A k \in DOMAIN Procs(c) :
    x.tx # 0 /\ HasTrxnId(Procs(c)[k], x.tx) => Procs(c)[k].type = x.type

\* Only release requests and those of an unnamed delete share a transaction.
OneRequest ==
  \A x, y \in s5s8 :
    x.tx = y.tx /\ x.tx # 0 =>
      x.type = y.type /\ (x = y \/ x.type = "release" \/ Shared(x.type, x.tx))

BearersOK ==
  \A c \in DOMAIN ebc : \A k \in DOMAIN Procs(c) :
    LET p == Procs(c)[k] IN
    p.type = "modify" => p.tx # 0 /\ \A b \in p.pdn_bearers : b.tx \in 1 .. uid

\* Nothing that has been answered will be answered again.
NoSecondAnswer ==
  /\ \A x \in s5s8 : x.tx \in DOMAIN answers =>
       x.type # "create" /\ (x.type = "delete" => x.tx \in unnamed)
  /\ \A c \in DOMAIN ebc : \A k \in DOMAIN Procs(c) :
       LET p == Procs(c)[k] IN
       p.tx \in DOMAIN answers =>
         p.type # "modify" /\ (p.type = "release" => p.bearers <= 0)

Transactions ==
  DefaultTxGone /\ OneProcedure /\ OneType /\ OneRequest /\ BearersOK /\ NoSecondAnswer /\ AnsweredOnce

\* The requests about live connections of context c, and the procedures, that
\* carry transaction tx.
OpenDeletes(c, tx) ==
  {x \in s5s8 : x.type = "delete" /\ x.tx = tx /\ Live(x.teid) /\ s5s8lteid2sgw_contexts[x.teid] = c}
ProcsOf(c, tx) == {k \in DOMAIN Procs(c) : HasTrxnId(Procs(c)[k], tx)}

\* Each open delete request has a procedure of its own to find.
DeletesFind ==
  \A c \in DOMAIN ebc, tx \in 1 .. uid :
    \E f \in [OpenDeletes(c, tx) -> ProcsOf(c, tx)] :
      \A x, y \in OpenDeletes(c, tx) : f[x] = f[y] => x = y

OthersFind ==
  \A x \in s5s8 : Live(x.teid) /\ x.type \in {"create", "release"} =>
    ProcsOf(s5s8lteid2sgw_contexts[x.teid], x.tx) # {}

\* A procedure that waits for a live connection is in the context of it.
Waits(c, type, tx, t) ==
  Live(t) => /\ s5s8lteid2sgw_contexts[t] = c
             /\ \E x \in s5s8 : x.type = type /\ x.tx = tx /\ x.teid = t
DeletesWait ==
  \A c \in DOMAIN ebc : \A k \in DOMAIN Procs(c) :
    LET p == Procs(c)[k] IN
    p.type = "delete" /\ p.tx \notin unnamed =>
      p.pdn <= teid_s5s8_cp /\ Waits(c, "delete", p.tx, p.pdn)
ModifiesWait ==
  \A c \in DOMAIN ebc : \A k \in DOMAIN Procs(c) :
    LET p == Procs(c)[k] IN
    p.type = "modify" => \A b \in p.pdn_bearers :
      b.pdn <= teid_s5s8_cp /\ Waits(c, "modify", b.tx, b.pdn)

Waiting == DeletesFind /\ OthersFind /\ DeletesWait /\ ModifiesWait

Base == ShapesOK /\ Tables /\ Bounded /\ CreatesOwn
IInv == Base /\ Transactions /\ Waiting
------------------------------------------------------------------------------
(* What the operators of the model return *)

LEMMA LeastNatural ==
  ASSUME NEW S \in SUBSET Nat, S # {}
  PROVE  \E x \in S : \A y \in S : x <= y
<1>1. PICK x \in S : \A y \in S : ~ (<<y, x>> \in OpToRel(<, Nat))
  BY Zenon, NatLessThanWellFounded, WFMin
<1>2. ASSUME NEW y \in S, y < x PROVE FALSE
  <2>1. <<y, x>> \in Nat \X Nat
    OBVIOUS
  <2>2. <<y, x>>[1] < <<y, x>>[2]
    BY <1>2
  <2>3. <<y, x>> \in OpToRel(<, Nat)
    BY <2>1, <2>2, Zenon DEF OpToRel
  <2> QED  BY Zenon, <2>3, <1>1
<1> QED  BY <1>2

\* The procedure that is found has the transaction; when none is found none has.
LEMMA FindResult ==
  ASSUME NEW c, NEW tx, NEW T, Procs(c) \in Seq(T)
  PROVE  /\ FindProcedure(c, tx) = 0 =>
              \A i \in DOMAIN Procs(c) : ~HasTrxnId(Procs(c)[i], tx)
         /\ FindProcedure(c, tx) # 0 =>
              /\ FindProcedure(c, tx) \in DOMAIN Procs(c)
              /\ HasTrxnId(Procs(c)[FindProcedure(c, tx)], tx)
<1> DEFINE s == Procs(c)
           I == {i \in 1 .. Len(s) : HasTrxnId(s[i], tx)}
<1>1. FindProcedure(c, tx) = IF I # {} THEN Min(I) ELSE 0
  BY DEF SelectInSeq, FindProcedure
<1>2. I # {} => Min(I) \in I
  <2>1. I \subseteq Nat
    OBVIOUS
  <2>2. I # {} => \E x \in I : \A y \in I : x =< y
    BY <2>1, LeastNatural
  <2> QED  BY <2>2 DEF Min
<1> QED  BY <1>1, <1>2

\* A bearer leads to at most one connection of the context, which has it.
LEMMA FindBearer ==
  ASSUME NEW c, NEW e, DOMAIN Conns(c) \subseteq Nat
  PROVE  \/ FindPdnConnection(c, e) = {}
         \/ \E a \in DOMAIN Conns(c) : /\ FindPdnConnection(c, e) = {Conns(c)[a]}
                                       /\ pdn[Conns(c)[a]].default_bearer = e
<1> DEFINE hits == {a \in DOMAIN Conns(c) : pdn[Conns(c)[a]].default_bearer = e}
           first == CHOOSE a \in hits : \A b \in hits : a <= b
<1>1. CASE hits = {}
  BY <1>1 DEF FindPdnConnection
<1>2. CASE hits # {}
  <2>1. \E a \in hits : \A b \in hits : a <= b
    BY <1>2, LeastNatural
  <2>2. first \in hits
    BY <2>1
  <2>3. FindPdnConnection(c, e) = {Conns(c)[first]}
    BY <1>2 DEF FindPdnConnection
  <2> QED  BY <2>2, <2>3
<1> QED  BY <1>1, <1>2

LEMMA SeqOfNone == SetToSeq({}) = <<>>
  BY FS_EmptySet DEF SetToSeq, IsInjective

LEMMA SeqOfOne ==
  ASSUME NEW t
  PROVE  SetToSeq({t}) = <<t>>
<1>1. Cardinality({t}) = 1
  BY FS_Singleton
<1>2. <<t>> \in [1 .. 1 -> {t}] /\ IsInjective(<<t>>)
  BY DEF IsInjective
<1>3. SetToSeq({t}) \in [1 .. 1 -> {t}]
  BY <1>1, <1>2 DEF SetToSeq
<1> QED  BY <1>3

\* Two sequences one after the other.
LEMMA Joined ==
  ASSUME NEW T, NEW s \in Seq(T), NEW n \in Seq(T)
  PROVE  /\ s \o n \in Seq(T) /\ Len(s \o n) = Len(s) + Len(n)
         /\ DOMAIN (s \o n) = 1 .. Len(s) + Len(n)
         /\ \A i \in 1 .. Len(s) : (s \o n)[i] = s[i]
         /\ \A i \in 1 .. Len(n) : (s \o n)[Len(s) + i] = n[i]
OBVIOUS

LEMMA Removed ==
  ASSUME NEW T, NEW s \in Seq(T), NEW r \in DOMAIN s
  PROVE  /\ RemoveAt(s, r) \in Seq(T)
         /\ Len(RemoveAt(s, r)) = Len(s) - 1
         /\ DOMAIN RemoveAt(s, r) = 1 .. Len(s) - 1
         /\ \A i \in 1 .. Len(s) - 1 :
              /\ i < r => RemoveAt(s, r)[i] = s[i]
              /\ i >= r => RemoveAt(s, r)[i] = s[i + 1]
<1> DEFINE u == SubSeq(s, 1, r - 1)
           v == SubSeq(s, r + 1, Len(s))
<1>1. u \in Seq(T) /\ Len(u) = r - 1 /\ \A i \in 1 .. r - 1 : u[i] = s[i]
  OBVIOUS
<1>2. v \in Seq(T) /\ Len(v) = Len(s) - r /\ \A i \in 1 .. Len(s) - r : v[i] = s[r + i]
  OBVIOUS
<1> HIDE DEF u, v
<1>3. RemoveAt(s, r) = u \o v
  BY DEF RemoveAt, u, v
<1>4. u \o v \in Seq(T) /\ Len(u \o v) = Len(s) - 1
  BY <1>1, <1>2
<1>5. \A i \in 1 .. Len(s) - 1 : i < r => (u \o v)[i] = s[i]
  BY <1>1, <1>2
<1>6. \A i \in 1 .. Len(s) - 1 : i >= r => (u \o v)[i] = s[i + 1]
  <2> TAKE i \in 1 .. Len(s) - 1
  <2> HAVE i >= r
  <2>5. i \in Len(u) + 1 .. Len(u) + Len(v)
    BY <1>1, <1>2
  <2>4. (u \o v)[i] = v[i - Len(u)]
    <3> DEFINE k == i - Len(u)
    <3>1. k \in 1 .. Len(v) /\ i = Len(u) + k
      BY SMTT(60), <2>5, <1>1, <1>2
    <3> HIDE DEF k
    <3>3. u \in Seq(T) /\ v \in Seq(T)
      BY <1>1, <1>2
    <3>4. \A n \in 1 .. Len(v) : (u \o v)[Len(u) + n] = v[n]
      BY <3>3, Joined
    <3>2. (u \o v)[Len(u) + k] = v[k]
      BY <3>1, <3>4, Zenon
    <3> QED  BY SMTT(60), <3>1, <3>2, <1>1, <1>2
  <2>1. (u \o v)[i] = v[i - (r - 1)]
    BY <2>4, <1>1
  <2>2. v[i - (r - 1)] = s[r + (i - (r - 1))]
    BY SMTT(60), <1>2
  <2> QED  BY <2>1, <2>2
<1> QED  BY SMTT(60), <1>3, <1>4, <1>5, <1>6

\* The rank of an element under a numbering of the set.
Rank(S, f, t) == Cardinality({u \in S : f[u] <= f[t]})

LEMMA RankBounds ==
  ASSUME NEW S, IsFiniteSet(S), NEW f \in [S -> Nat], NEW t \in S
  PROVE  Rank(S, f, t) \in 1 .. Cardinality(S)
<1> DEFINE L == {u \in S : f[u] <= f[t]}
<1>1. IsFiniteSet(L) /\ Cardinality(L) <= Cardinality(S)
  BY FS_Subset
<1>2. Cardinality(L) \in Nat /\ Cardinality(S) \in Nat
  BY <1>1, FS_CardinalityType
<1>3. Cardinality(L) # 0
  BY <1>1, FS_EmptySet
<1> QED  BY <1>1, <1>2, <1>3 DEF Rank

LEMMA RankInjective ==
  ASSUME NEW S, IsFiniteSet(S), NEW f \in [S -> Nat],
         \A t, u \in S : f[t] = f[u] => t = u,
         NEW t \in S, NEW u \in S, Rank(S, f, t) = Rank(S, f, u)
  PROVE  t = u
<1> DEFINE L(x) == {y \in S : f[y] <= f[x]}
<1>1. ASSUME NEW x \in S, NEW y \in S, f[x] < f[y] PROVE Rank(S, f, x) # Rank(S, f, y)
  <2>1. L(x) \in SUBSET L(y) /\ y \in L(y) /\ y \notin L(x)
    BY <1>1
  <2>2. IsFiniteSet(L(y))
    BY FS_Subset
  <2>3. Cardinality(L(x)) # Cardinality(L(y))
    BY <2>1, <2>2, FS_Subset
  <2> QED  BY <2>3 DEF Rank
<1> QED  BY <1>1
------------------------------------------------------------------------------
(* What a step does with a context, and what that means for the tables *)

\* Context c is there with these contents; the others are as before.
Placed(c, imsi, conns, procs) ==
  /\ IsMap(ebc') /\ DOMAIN ebc' = DOMAIN ebc \cup {c}
  /\ ebc'[c] = Context(imsi, conns, procs)
  /\ \A d \in DOMAIN ebc \ {c} : ebc'[d] = ebc[d]

LEMMA SetProcs ==
  ASSUME EbcShape, NEW c \in DOMAIN ebc, NEW procs,
         ebc' = [ebc EXCEPT ![c].pending_procedures = procs]
  PROVE  Placed(c, ebc[c].imsi, Conns(c), procs)
<1>1. ebc[c] = Context(ebc[c].imsi, Conns(c), Procs(c))
  BY DEF EbcShape
<1>2. [ebc[c] EXCEPT !.pending_procedures = procs] = Context(ebc[c].imsi, Conns(c), procs)
  BY <1>1 DEF Context
<1>3. ebc' = [ebc EXCEPT ![c] = [ebc[c] EXCEPT !.pending_procedures = procs]]
  OBVIOUS
<1> QED  BY ZenonT(60), <1>2, <1>3 DEF Placed, EbcShape, IsMap

LEMMA SetBoth ==
  ASSUME EbcShape, NEW c \in DOMAIN ebc, NEW conns, NEW procs,
         ebc' = [ebc EXCEPT ![c].pdn_connections = conns, ![c].pending_procedures = procs]
  PROVE  Placed(c, ebc[c].imsi, conns, procs)
<1>1. ebc[c] = Context(ebc[c].imsi, Conns(c), Procs(c))
  BY DEF EbcShape
<1> DEFINE e1 == [ebc EXCEPT ![c].pdn_connections = conns]
<1>7. [ebc[c] EXCEPT !.pdn_connections = conns] = Context(ebc[c].imsi, conns, Procs(c))
  BY <1>1 DEF Context
<1>2. e1 = [ebc EXCEPT ![c] = Context(ebc[c].imsi, conns, Procs(c))]
  BY <1>7
<1>3. ebc' = [e1 EXCEPT ![c].pending_procedures = procs]
  OBVIOUS
<1>4. DOMAIN e1 = DOMAIN ebc /\ e1[c] = Context(ebc[c].imsi, conns, Procs(c))
  BY <1>2
<1>5. \A d \in DOMAIN ebc \ {c} : e1[d] = ebc[d]
  BY <1>2
<1> HIDE DEF e1
<1>8. [e1[c] EXCEPT !.pending_procedures = procs] = Context(ebc[c].imsi, conns, procs)
  BY <1>4 DEF Context
<1>6. ebc' = [e1 EXCEPT ![c] = Context(ebc[c].imsi, conns, procs)]
  BY <1>3, <1>8
<1> QED  BY ZenonT(60), <1>4, <1>5, <1>6 DEF Placed, IsMap

LEMMA EbcPlaced ==
  ASSUME EbcShape, NEW c, NEW imsi \in IMSIs, NEW conns, NEW procs \in Seq(ProcRecords),
         Placed(c, imsi, conns, procs), IsMap(conns), DOMAIN conns \subseteq APNs
  PROVE  EbcShape'
<1> SUFFICES ASSUME NEW d \in DOMAIN ebc'
             PROVE  /\ ebc'[d] = Context(ebc'[d].imsi, Conns(d)', Procs(d)')
                    /\ ebc'[d].imsi \in IMSIs
                    /\ IsMap(Conns(d)') /\ DOMAIN Conns(d)' \subseteq APNs
                    /\ Procs(d)' \in Seq(ProcRecords)
  BY DEF EbcShape, Placed, IsMap
<1>1. CASE d = c
  <2>1. ebc'[d] = Context(imsi, conns, procs)
    BY <1>1 DEF Placed
  <2> QED  BY <2>1 DEF Context, Conns, Procs
<1>2. CASE d # c
  <2>1. d \in DOMAIN ebc /\ ebc'[d] = ebc[d]
    BY <1>2 DEF Placed
  <2>2. Conns(d)' = Conns(d) /\ Procs(d)' = Procs(d)
    BY <2>1 DEF Conns, Procs
  <2>3. ebc[d] = Context(ebc[d].imsi, Conns(d), Procs(d)) /\ ebc[d].imsi \in IMSIs
    BY <2>1 DEF EbcShape
  <2>4. IsMap(Conns(d)) /\ DOMAIN Conns(d) \subseteq APNs /\ Procs(d) \in Seq(ProcRecords)
    BY <2>1 DEF EbcShape
  <2> QED  BY <2>1, <2>2, <2>3, <2>4
<1> QED  BY <1>1, <1>2

LEMMA EbcErased ==
  ASSUME EbcShape, NEW c, ebc' = MapErase(ebc, c)
  PROVE  EbcShape'
<1> SUFFICES ASSUME NEW d \in DOMAIN ebc'
             PROVE  /\ ebc'[d] = Context(ebc'[d].imsi, Conns(d)', Procs(d)')
                    /\ ebc'[d].imsi \in IMSIs
                    /\ IsMap(Conns(d)') /\ DOMAIN Conns(d)' \subseteq APNs
                    /\ Procs(d)' \in Seq(ProcRecords)
  BY DEF EbcShape, MapErase, IsMap
<1>1. d \in DOMAIN ebc /\ ebc'[d] = ebc[d]
  BY DEF MapErase
<1>2. Conns(d)' = Conns(d) /\ Procs(d)' = Procs(d)
  BY <1>1 DEF Conns, Procs
<1>3. ebc[d] = Context(ebc[d].imsi, Conns(d), Procs(d)) /\ ebc[d].imsi \in IMSIs
  BY <1>1 DEF EbcShape
<1>4. IsMap(Conns(d)) /\ DOMAIN Conns(d) \subseteq APNs /\ Procs(d) \in Seq(ProcRecords)
  BY <1>1 DEF EbcShape
<1> QED  BY <1>1, <1>2, <1>3, <1>4

\* The connections stay: nothing the tables say changes.
LEMMA TablesKept ==
  ASSUME Tables, NEW c \in DOMAIN ebc, NEW procs,
         Placed(c, ebc[c].imsi, Conns(c), procs),
         UNCHANGED <<tables, s5s8lteid2sgw_contexts>>,
         DOMAIN pdn' = DOMAIN pdn, \A t \in DOMAIN pdn : pdn'[t].apn = pdn[t].apn
  PROVE  Tables'
<1>1. DOMAIN ebc' = DOMAIN ebc
  BY DEF Placed
<1>2. \A d \in DOMAIN ebc : ebc'[d].imsi = ebc[d].imsi /\ Conns(d)' = Conns(d)
  BY DEF Placed, Context, Conns
<1>4. /\ imsi2sgw_eps_bearer_context' = imsi2sgw_eps_bearer_context
      /\ s11lteid2sgw_eps_bearer_context' = s11lteid2sgw_eps_bearer_context
      /\ s5s8lteid2sgw_contexts' = s5s8lteid2sgw_contexts
  BY DEF tables
<1>5. ContextsByTeid' /\ ContextsByImsi'
  BY <1>1, <1>2, <1>4 DEF Tables, ContextsByTeid, ContextsByImsi
<1>6. PdnsByTeid'
  BY <1>1, <1>2, <1>4 DEF Tables, PdnsByTeid
<1>7. PdnsByApn' /\ SomePdn'
  BY SMTT(60), <1>1, <1>2, <1>4 DEF Tables, PdnsByApn, SomePdn, PdnsByTeid
<1> QED  BY <1>5, <1>6, <1>7 DEF Tables

LEMMA NoEntries ==
  ASSUME NEW m, IsMap(m)
  PROVE  m = EmptyMap <=> DOMAIN m = {}
BY DEF IsMap, EmptyMap

\* The two outcomes of the end of a connection.
ContextKept(c, t, procs) ==
  /\ Placed(c, ebc[c].imsi, MapErase(Conns(c), pdn[t].apn), procs)
  /\ DOMAIN MapErase(Conns(c), pdn[t].apn) # {}
  /\ imsi2sgw_eps_bearer_context' = imsi2sgw_eps_bearer_context
  /\ s11lteid2sgw_eps_bearer_context' = s11lteid2sgw_eps_bearer_context
ContextGone(c, t) ==
  /\ ebc' = MapErase(ebc, c)
  /\ DOMAIN Conns(c) \subseteq {pdn[t].apn}
  /\ imsi2sgw_eps_bearer_context' = MapErase(imsi2sgw_eps_bearer_context, ebc[c].imsi)
  /\ s11lteid2sgw_eps_bearer_context' = MapErase(s11lteid2sgw_eps_bearer_context, c)

LEMMA EndPdnDone ==
  ASSUME EbcShape, Tables, NEW t \in DOMAIN pdn, NEW procs, EndPdn(t, procs)
  PROVE  /\ s5s8lteid2sgw_contexts[t] \in DOMAIN ebc
         /\ pdn' = MapErase(pdn, t)
         /\ s5s8lteid2sgw_contexts' = MapErase(s5s8lteid2sgw_contexts, t)
         /\ \/ ContextKept(s5s8lteid2sgw_contexts[t], t, procs)
            \/ ContextGone(s5s8lteid2sgw_contexts[t], t)
<1> DEFINE c == s5s8lteid2sgw_contexts[t]
           conns == MapErase(Conns(c), pdn[t].apn)
<1>1. c \in DOMAIN ebc
  BY DEF Tables, PdnsByTeid
<1>2. IsMap(conns) /\ IsMap(ebc)
  BY DEF IsMap, MapErase, EbcShape
<1>3. Unused(conns) <=> DOMAIN conns = {}
  BY <1>2, NoEntries DEF Unused
<1>4. /\ pdn' = MapErase(pdn, t)
      /\ s5s8lteid2sgw_contexts' = MapErase(s5s8lteid2sgw_contexts, t)
      /\ \/ /\ ~Unused(conns)
            /\ ebc' = [ebc EXCEPT ![c] = Context(ebc[c].imsi, conns, procs)]
            /\ UNCHANGED tables
         \/ /\ Unused(conns)
            /\ ebc' = MapErase(ebc, c)
            /\ imsi2sgw_eps_bearer_context' =
                 MapErase(imsi2sgw_eps_bearer_context, ebc[c].imsi)
            /\ s11lteid2sgw_eps_bearer_context' =
                 MapErase(s11lteid2sgw_eps_bearer_context, c)
  BY DEF EndPdn
<1>5. CASE ~Unused(conns)
  <2>1. ebc' = [ebc EXCEPT ![c] = Context(ebc[c].imsi, conns, procs)] /\ UNCHANGED tables
    BY <1>4, <1>5
  <2>2. Placed(c, ebc[c].imsi, conns, procs)
    BY <2>1, <1>1, <1>2 DEF Placed, IsMap
  <2> QED  BY <1>1, <1>3, <1>4, <1>5, <2>1, <2>2 DEF ContextKept, tables
<1>6. CASE Unused(conns)
  <2>1. DOMAIN Conns(c) \subseteq {pdn[t].apn}
    BY <1>3, <1>6 DEF MapErase
  <2> QED  BY <1>1, <1>4, <1>6, <2>1 DEF ContextGone
<1> QED  BY <1>5, <1>6

LEMMA TablesClosed ==
  ASSUME EbcShape, Tables, NEW t \in DOMAIN pdn, NEW procs, EndPdn(t, procs)
  PROVE  Tables'
<1>0. PICK c, a : c = s5s8lteid2sgw_contexts[t] /\ a = pdn[t].apn
  OBVIOUS
<1>1. /\ c \in DOMAIN ebc
      /\ pdn' = MapErase(pdn, t)
      /\ s5s8lteid2sgw_contexts' = MapErase(s5s8lteid2sgw_contexts, t)
      /\ ContextKept(c, t, procs) \/ ContextGone(c, t)
  BY <1>0, EndPdnDone
<1>2. a \in DOMAIN Conns(c) /\ Conns(c)[a] = t
  BY <1>0 DEF Tables, PdnsByTeid
<1>3. DOMAIN pdn' = DOMAIN pdn \ {t} /\ \A u \in DOMAIN pdn \ {t} : pdn'[u] = pdn[u]
  BY <1>1 DEF MapErase
<1>4. DOMAIN s5s8lteid2sgw_contexts' = DOMAIN pdn \ {t}
      /\ \A u \in DOMAIN pdn \ {t} : s5s8lteid2sgw_contexts'[u] = s5s8lteid2sgw_contexts[u]
  BY <1>1 DEF MapErase, Tables, PdnsByTeid
<1>5. CASE ContextKept(c, t, procs)
  <2>1. DOMAIN ebc' = DOMAIN ebc
    BY <1>1, <1>5 DEF ContextKept, Placed
  <2>2. \A d \in DOMAIN ebc : ebc'[d].imsi = ebc[d].imsi
    BY <1>5 DEF ContextKept, Placed, Context
  <2>3. \A d \in DOMAIN ebc \ {c} : Conns(d)' = Conns(d)
    BY <1>5 DEF ContextKept, Placed, Context, Conns
  <2>4. Conns(c)' = MapErase(Conns(c), a)
    <3> DEFINE conns == MapErase(Conns(c), a)
    <3>1. Placed(c, ebc[c].imsi, conns, procs)
      BY <1>0, <1>5 DEF ContextKept
    <3> HIDE DEF conns
    <3>2. Conns(c)' = conns
      BY <3>1 DEF Placed, Context, Conns
    <3> QED  BY <3>2 DEF conns
  <2>5. DOMAIN Conns(c)' = DOMAIN Conns(c) \ {a} /\ DOMAIN Conns(c)' # {}
        /\ \A b \in DOMAIN Conns(c) \ {a} : Conns(c)'[b] = Conns(c)[b]
    BY <1>0, <1>5, <2>4 DEF ContextKept, MapErase
  <2>6. ContextsByTeid' /\ ContextsByImsi'
    BY <1>5, <2>1, <2>2 DEF Tables, ContextsByTeid, ContextsByImsi, ContextKept
  <2>9. \A u \in DOMAIN pdn : LET d == s5s8lteid2sgw_contexts[u]
                            IN /\ d \in DOMAIN ebc /\ pdn[u].apn \in DOMAIN Conns(d)
                               /\ Conns(d)[pdn[u].apn] = u
    BY DEF Tables, PdnsByTeid
  <2>10. \A u \in DOMAIN pdn \ {t} : s5s8lteid2sgw_contexts[u] = c => pdn[u].apn # a
    BY <1>2, <2>9
  <2>7. PdnsByTeid'
    <3> SUFFICES ASSUME NEW u \in DOMAIN pdn \ {t}, NEW d, d = s5s8lteid2sgw_contexts[u]
                 PROVE  /\ d \in DOMAIN ebc' /\ pdn[u].apn \in DOMAIN Conns(d)'
                        /\ Conns(d)'[pdn[u].apn] = u
      BY <1>3, <1>4 DEF PdnsByTeid
    <3>1. CASE d = c
      <4>1. u \in DOMAIN pdn /\ s5s8lteid2sgw_contexts[u] = c
        BY <3>1
      <4>2. pdn[u].apn \in DOMAIN Conns(c) /\ Conns(c)[pdn[u].apn] = u
        BY <2>9, <4>1
      <4>3. pdn[u].apn # a
        BY <2>10, <4>1
      <4>4. pdn[u].apn \in DOMAIN Conns(c)' /\ Conns(c)'[pdn[u].apn] = u
        BY <2>5, <4>2, <4>3
      <4>5. c \in DOMAIN ebc'
        BY <1>1, <2>1
      <4> QED  BY <3>1, <4>4, <4>5
    <3>2. CASE d # c
      BY <2>1, <2>3, <2>9, <3>2
    <3> QED  BY <3>1, <3>2
  <2>8. PdnsByApn' /\ SomePdn'
    <3>1. SomePdn'
      BY <2>1, <2>3, <2>5 DEF Tables, SomePdn
    <3>2. \A d \in DOMAIN ebc : \A b \in DOMAIN Conns(d) :
            LET u == Conns(d)[b]
            IN u \in DOMAIN pdn /\ s5s8lteid2sgw_contexts[u] = d /\ pdn[u].apn = b
      BY DEF Tables, PdnsByApn
    <3>3. \A d \in DOMAIN ebc' : \A b \in DOMAIN Conns(d)' :
            b \in DOMAIN Conns(d) /\ Conns(d)'[b] = Conns(d)[b] /\ Conns(d)[b] # t
      BY <1>0, <1>2, <2>1, <2>3, <2>5, <3>2
    <3>4. PdnsByApn'
      BY <1>3, <1>4, <2>1, <3>2, <3>3 DEF PdnsByApn
    <3> QED  BY <3>1, <3>4
  <2> QED  BY <2>6, <2>7, <2>8 DEF Tables
<1>6. CASE ContextGone(c, t)
  <2>1. DOMAIN ebc' = DOMAIN ebc \ {c} /\ \A d \in DOMAIN ebc \ {c} : ebc'[d] = ebc[d]
    BY <1>6 DEF ContextGone, MapErase
  <2>2. \A d \in DOMAIN ebc \ {c} : Conns(d)' = Conns(d)
    BY <2>1 DEF Conns
  <2>3. ContextsByTeid'
    BY <1>6, <2>1 DEF Tables, ContextsByTeid, ContextGone, MapErase
  <2>4. ContextsByImsi'
    BY <1>1, <1>6, <2>1 DEF Tables, ContextsByImsi, ContextGone, MapErase
  <2>5. \A u \in DOMAIN pdn \ {t} : s5s8lteid2sgw_contexts[u] # c
    BY <1>0, <1>2, <1>6 DEF ContextGone, Tables, PdnsByTeid
  <2>6. PdnsByTeid'
    BY <1>3, <1>4, <2>1, <2>2, <2>5 DEF Tables, PdnsByTeid
  <2>7. PdnsByApn' /\ SomePdn'
    BY <1>0, <1>1, <1>3, <1>4, <2>1, <2>2 DEF Tables, PdnsByApn, SomePdn, PdnsByTeid
  <2> QED  BY <2>3, <2>4, <2>6, <2>7 DEF Tables
<1> QED  BY <1>1, <1>5, <1>6

\* A new context with one connection.
LEMMA TablesFirst ==
  ASSUME EbcShape, Tables, NEW imsi, NEW c, NEW t, NEW a, NEW procs,
         imsi \notin DOMAIN imsi2sgw_eps_bearer_context, c \notin DOMAIN ebc, t \notin DOMAIN pdn,
         imsi2sgw_eps_bearer_context' = MapAssign(imsi2sgw_eps_bearer_context, imsi, c),
         s11lteid2sgw_eps_bearer_context' = MapAssign(s11lteid2sgw_eps_bearer_context, c, c),
         s5s8lteid2sgw_contexts' = MapAssign(s5s8lteid2sgw_contexts, t, c),
         Placed(c, imsi, MapAssign(EmptyMap, a, t), procs),
         DOMAIN pdn' = DOMAIN pdn \cup {t}, \A u \in DOMAIN pdn : pdn'[u] = pdn[u],
         pdn'[t].apn = a
  PROVE  Tables'
<1>1. DOMAIN ebc' = DOMAIN ebc \cup {c} /\ \A d \in DOMAIN ebc : ebc'[d] = ebc[d]
  BY DEF Placed
<1>2. \A d \in DOMAIN ebc : Conns(d)' = Conns(d)
  BY <1>1 DEF Conns
<1>3. ebc'[c].imsi = imsi /\ Conns(c)' = MapAssign(EmptyMap, a, t)
  BY DEF Placed, Context, Conns
<1>4. DOMAIN Conns(c)' = {a} /\ Conns(c)'[a] = t
  BY <1>3 DEF MapAssign, EmptyMap
<1>5. /\ DOMAIN s5s8lteid2sgw_contexts' = DOMAIN pdn \cup {t}
      /\ s5s8lteid2sgw_contexts'[t] = c
      /\ \A u \in DOMAIN pdn : s5s8lteid2sgw_contexts'[u] = s5s8lteid2sgw_contexts[u]
  BY DEF MapAssign, Tables, PdnsByTeid
<1>6. ContextsByTeid'
  BY <1>1 DEF Tables, ContextsByTeid, MapAssign
<1>7. ContextsByImsi'
  BY <1>1, <1>3 DEF Tables, ContextsByImsi, MapAssign
<1>8. PdnsByTeid'
  BY <1>1, <1>2, <1>4, <1>5 DEF Tables, PdnsByTeid
<1>9. PdnsByApn' /\ SomePdn'
  BY <1>1, <1>2, <1>4, <1>5 DEF Tables, PdnsByApn, SomePdn
<1> QED  BY <1>6, <1>7, <1>8, <1>9 DEF Tables

\* Connections "hit" leave context c, and those of "new" come, for an APN that is free.
TablesMove(c, hit, new, conns, procs, a) ==
  /\ c \in DOMAIN ebc /\ Placed(c, ebc[c].imsi, conns, procs)
  /\ hit \subseteq {Conns(c)[b] : b \in DOMAIN Conns(c)} /\ DOMAIN conns # {}
  /\ \A b \in DOMAIN conns : \/ b \in DOMAIN Conns(c) /\ conns[b] = Conns(c)[b] /\ conns[b] \notin hit
                             \/ b = a /\ conns[b] \in new
  /\ \A b \in DOMAIN Conns(c) : Conns(c)[b] \notin hit => b \in DOMAIN conns /\ conns[b] = Conns(c)[b]
  /\ \A t \in new : t \notin DOMAIN pdn /\ a \in DOMAIN conns /\ conns[a] = t
  /\ imsi2sgw_eps_bearer_context' = imsi2sgw_eps_bearer_context
  /\ s11lteid2sgw_eps_bearer_context' = s11lteid2sgw_eps_bearer_context
  /\ DOMAIN s5s8lteid2sgw_contexts' = (DOMAIN pdn \ hit) \cup new
  /\ \A u \in DOMAIN pdn \ hit : s5s8lteid2sgw_contexts'[u] = s5s8lteid2sgw_contexts[u]
  /\ \A u \in new : s5s8lteid2sgw_contexts'[u] = c
  /\ DOMAIN pdn' = (DOMAIN pdn \ hit) \cup new
  /\ \A u \in DOMAIN pdn \ hit : pdn'[u] = pdn[u]
  /\ \A u \in new : pdn'[u].apn = a

LEMMA TablesMoved ==
  ASSUME Tables, NEW c, NEW hit, NEW new, NEW conns, NEW procs, NEW a,
         TablesMove(c, hit, new, conns, procs, a)
  PROVE  Tables'
<1> USE DEF TablesMove
<1>1. DOMAIN ebc' = DOMAIN ebc
  BY DEF Placed
<1>2. \A d \in DOMAIN ebc : ebc'[d].imsi = ebc[d].imsi
  BY DEF Placed, Context
<1>3. \A d \in DOMAIN ebc \ {c} : Conns(d)' = Conns(d)
  BY DEF Placed, Conns
<1>4. Conns(c)' = conns
  BY DEF Placed, Context, Conns
<1>5. ContextsByTeid' /\ ContextsByImsi'
  BY <1>1, <1>2 DEF Tables, ContextsByTeid, ContextsByImsi
<1>6. PdnsByTeid'
  BY <1>1, <1>3, <1>4 DEF Tables, PdnsByTeid
<1>7. PdnsByApn'
  BY <1>1, <1>3, <1>4 DEF Tables, PdnsByApn
<1>8. SomePdn'
  BY <1>1, <1>3, <1>4 DEF Tables, SomePdn
<1> QED  BY <1>5, <1>6, <1>7, <1>8 DEF Tables
------------------------------------------------------------------------------
(* A new request: what it adds to the procedures and to the requests made of *)
(* PGW-C, and why the transactions stay apart                                *)

\* The procedures of "new" come behind those context c has.
SlotsAdded(c, new, base) ==
  /\ DOMAIN ebc' = DOMAIN ebc \cup {c} /\ base \in Nat
  /\ \A d \in DOMAIN ebc' : \A k \in DOMAIN Procs(d)' :
       \/ d \in DOMAIN ebc /\ k \in DOMAIN Procs(d) /\ Procs(d)'[k] = Procs(d)[k]
       \/ d = c /\ \E i \in DOMAIN new : k = base + i /\ Procs(d)'[k] = new[i]
  /\ \A d \in DOMAIN ebc : \A k \in DOMAIN Procs(d) :
       k \in DOMAIN Procs(d)' /\ Procs(d)'[k] = Procs(d)[k]
  /\ \A i \in DOMAIN new : base + i \in DOMAIN Procs(c)' /\ Procs(c)'[base + i] = new[i]

LEMMA PlacedAdds ==
  ASSUME EbcShape, NEW c, NEW imsi, NEW conns, NEW new \in Seq(ProcRecords),
         \/ c \in DOMAIN ebc /\ Placed(c, imsi, conns, Procs(c) \o new)
         \/ c \notin DOMAIN ebc /\ Placed(c, imsi, conns, new)
  PROVE  \E base : SlotsAdded(c, new, base)
<1>1. DOMAIN ebc' = DOMAIN ebc \cup {c} /\ \A d \in DOMAIN ebc \ {c} : Procs(d)' = Procs(d)
  BY DEF Placed, Procs
<1>2. CASE c \in DOMAIN ebc
  <2> DEFINE s == Procs(c)
  <2>1. PICK old : old = Procs(c)
    OBVIOUS
  <2>2. old \in Seq(ProcRecords)
    BY <1>2, <2>1 DEF EbcShape
  <2>3. Placed(c, imsi, conns, old \o new)
    BY <1>2, <2>1
  <2>4. PICK all : all = old \o new
    OBVIOUS
  <2>5. Procs(c)' = all
    BY <2>3, <2>4 DEF Placed, Context, Procs
  <2>6. /\ DOMAIN all = 1 .. Len(old) + Len(new) /\ Len(old) \in Nat
        /\ \A i \in 1 .. Len(old) : all[i] = old[i]
        /\ \A i \in 1 .. Len(new) : all[Len(old) + i] = new[i]
    BY <2>2, <2>4, Joined
  <2>7. DOMAIN old = 1 .. Len(old) /\ DOMAIN new = 1 .. Len(new) /\ Len(new) \in Nat
    BY <2>2
  <2>8. \A k \in DOMAIN all :
          \/ k \in DOMAIN old /\ all[k] = old[k]
          \/ \E i \in DOMAIN new : k = Len(old) + i /\ all[k] = new[i]
    <3> SUFFICES ASSUME NEW k \in DOMAIN all, k \notin DOMAIN old
                 PROVE  \E i \in DOMAIN new : k = Len(old) + i /\ all[k] = new[i]
      BY <2>6, <2>7
    <3>1. k - Len(old) \in DOMAIN new /\ k = Len(old) + (k - Len(old))
      BY <2>6, <2>7
    <3> QED  BY <2>6, <2>7, <3>1
  <2>9. SlotsAdded(c, new, Len(old))
    <3>1. \A d \in DOMAIN ebc \ {c} : Procs(d)' = Procs(d)
      BY <1>1
    <3>2. \A k \in DOMAIN Procs(c) : k \in DOMAIN Procs(c)' /\ Procs(c)'[k] = Procs(c)[k]
      BY <2>1, <2>5, <2>6, <2>7
    <3>3. \A i \in DOMAIN new : Len(old) + i \in DOMAIN Procs(c)' /\ Procs(c)'[Len(old) + i] = new[i]
      BY <2>5, <2>6, <2>7
    <3>4. \A d \in DOMAIN ebc : \A k \in DOMAIN Procs(d) :
            k \in DOMAIN Procs(d)' /\ Procs(d)'[k] = Procs(d)[k]
      <4> SUFFICES ASSUME NEW d \in DOMAIN ebc
                   PROVE  \A k \in DOMAIN Procs(d) : k \in DOMAIN Procs(d)' /\ Procs(d)'[k] = Procs(d)[k]
        OBVIOUS
      <4>1. CASE d = c
        BY <3>2, <4>1
      <4>2. CASE d # c
        BY <3>1, <4>2
      <4> QED  BY <4>1, <4>2
    <3>5. \A d \in DOMAIN ebc' : \A k \in DOMAIN Procs(d)' :
            \/ d \in DOMAIN ebc /\ k \in DOMAIN Procs(d) /\ Procs(d)'[k] = Procs(d)[k]
            \/ d = c /\ \E i \in DOMAIN new : k = Len(old) + i /\ Procs(d)'[k] = new[i]
      <4> SUFFICES ASSUME NEW d \in DOMAIN ebc', NEW k \in DOMAIN Procs(d)'
                   PROVE  \/ d \in DOMAIN ebc /\ k \in DOMAIN Procs(d) /\ Procs(d)'[k] = Procs(d)[k]
                          \/ d = c /\ \E i \in DOMAIN new : k = Len(old) + i /\ Procs(d)'[k] = new[i]
        OBVIOUS
      <4>1. CASE d = c
        BY <1>2, <2>1, <2>5, <2>8, <4>1
      <4>2. CASE d # c
        BY <1>1, <3>1, <4>2
      <4> QED  BY <4>1, <4>2
    <3> QED  BY <1>1, <3>3, <3>4, <3>5 DEF SlotsAdded
  <2> QED  BY <2>9
<1>3. CASE c \notin DOMAIN ebc
  <2>1. Procs(c)' = new
    BY <1>3 DEF Placed, Context, Procs
  <2>2. \A i \in DOMAIN new : 0 + i = i
    OBVIOUS
  <2>3. SlotsAdded(c, new, 0)
    BY <1>1, <1>3, <2>1, <2>2 DEF SlotsAdded
  <2> QED  BY <2>3
<1> QED  BY <1>2, <1>3

\* The connections that are live were, in the same context, or are new.
LiveFrom ==
  \A t \in DOMAIN s5s8lteid2sgw_contexts' :
    \/ t > teid_s5s8_cp
    \/ Live(t) /\ s5s8lteid2sgw_contexts'[t] = s5s8lteid2sgw_contexts[t]

\* A request of type typ takes the transactions up to n.
NewRequest(c, new, xs, typ, n, base) ==
  /\ SlotsAdded(c, new, base) /\ LiveFrom
  /\ n \in Nat /\ n > uid /\ uid' = n
  /\ unnamed \subseteq unnamed' /\ unnamed' \subseteq unnamed \cup {Tx}
  /\ Tx \in unnamed' => typ = "delete"
  /\ answers' = answers /\ s5s8' = s5s8 \cup xs
  /\ new \in Seq(ProcRecords) /\ xs \subseteq Requests
  /\ \A x \in xs : \/ x.tx = 0 /\ x.type = "delete" /\ ~Live(x.teid)'
                   \/ x.tx \in Tx .. n /\ x.type = typ
  /\ \A i \in DOMAIN new :
       \/ new[i].tx = 0 /\ new[i].type = "delete"
       \/ new[i].tx = Tx /\ new[i].type = typ
  /\ \A i \in DOMAIN new :
       new[i].type = "modify" => \A b \in new[i].pdn_bearers : b.tx \in Tx .. n
  /\ \A i, j \in DOMAIN new : new[i].tx = Tx /\ new[j].tx = Tx => i = j \/ Tx \in unnamed'
  /\ \A x, y \in xs : x.tx = y.tx /\ x.tx # 0 => x = y \/ typ = "release" \/ (x.tx = Tx /\ Tx \in unnamed')

\* Transactions that procedures have are not above the counter.
LEMMA OldTransactions ==
  ASSUME ShapesOK, Bounded, BearersOK, NEW c \in DOMAIN ebc, NEW k \in DOMAIN Procs(c), NEW tx,
         HasTrxnId(Procs(c)[k], tx)
  PROVE  tx <= uid /\ tx \in Nat
<1>1. Procs(c) \in Seq(ProcRecords)
  BY DEF ShapesOK, EbcShape
<1>2. Procs(c)[k] \in ProcRecords
  BY <1>1
<1>3. Procs(c)[k].tx \in Nat /\ Procs(c)[k].tx <= uid
  BY <1>2 DEF ProcRecords, Bounded
<1>4. Procs(c)[k].type = "modify" => \A b \in Procs(c)[k].pdn_bearers : b.tx \in 1 .. uid
  BY DEF BearersOK
<1> QED  BY <1>3, <1>4 DEF HasTrxnId, ShapesOK

LEMMA NewTransactions ==
  ASSUME uid \in Nat, NEW c, NEW new, NEW xs, NEW typ, NEW n, NEW base,
         NewRequest(c, new, xs, typ, n, base),
         NEW i \in DOMAIN new, NEW tx, HasTrxnId(new[i], tx), tx # 0
  PROVE  tx \in Tx .. n /\ new[i].type = typ /\ new[i].tx = Tx
<1>1. \/ new[i].tx = 0 /\ new[i].type = "delete"
      \/ new[i].tx = Tx /\ new[i].type = typ
  BY DEF NewRequest
<1>2. new[i].type = "modify" => \A b \in new[i].pdn_bearers : b.tx \in Tx .. n
  BY DEF NewRequest
<1>3. n \in Nat /\ n > uid
  BY DEF NewRequest
<1> QED  BY <1>1, <1>2, <1>3 DEF HasTrxnId, Tx
LEMMA TransactionsRequest ==
  ASSUME ShapesOK, Bounded, Transactions,
         NEW c, NEW new, NEW xs, NEW typ, NEW n, NEW base, NewRequest(c, new, xs, typ, n, base)
  PROVE  Transactions'
<1> USE DEF Transactions
<1>1. uid \in Nat /\ n \in Nat /\ n > uid /\ uid' = n
  BY DEF NewRequest, ShapesOK
<1>2. \A d \in DOMAIN ebc' : \A k \in DOMAIN Procs(d)' :
        \/ d \in DOMAIN ebc /\ k \in DOMAIN Procs(d) /\ Procs(d)'[k] = Procs(d)[k]
        \/ d = c /\ \E i \in DOMAIN new : k = base + i /\ Procs(d)'[k] = new[i]
  BY DEF NewRequest, SlotsAdded
<1>3. \A d \in DOMAIN ebc : \A k \in DOMAIN Procs(d) : \A tx :
        HasTrxnId(Procs(d)[k], tx) => tx <= uid /\ tx \in Nat
  BY OldTransactions
<1>4. \A i \in DOMAIN new : \A tx :
        HasTrxnId(new[i], tx) /\ tx # 0 => tx \in Tx .. n /\ new[i].type = typ /\ new[i].tx = Tx
  BY <1>1, NewTransactions
<1>5. s5s8' = s5s8 \cup xs /\ answers' = answers
  BY DEF NewRequest
<1>6. \A x \in s5s8 : x.tx \in Nat /\ x.tx <= uid /\ x.teid <= teid_s5s8_cp
  BY DEF Bounded, ShapesOK, Requests
<1>7. \A x \in xs : \/ x.tx = 0 /\ x.type = "delete" /\ ~Live(x.teid)'
                    \/ x.tx \in Tx .. n /\ x.type = typ
  BY DEF NewRequest
<1>8. DefaultTxGone'
  <2> SUFFICES ASSUME NEW x \in s5s8', x.tx = 0, x.teid \in DOMAIN s5s8lteid2sgw_contexts'
               PROVE  FALSE
    BY DEF DefaultTxGone, Live
  <2>1. CASE x \in s5s8
    <3>1. x.teid \in Nat /\ x.teid <= teid_s5s8_cp /\ teid_s5s8_cp \in Nat
      BY <1>6, <2>1 DEF ShapesOK, Requests
    <3>2. x.teid > teid_s5s8_cp \/ Live(x.teid)
      BY DEF NewRequest, LiveFrom
    <3> QED  BY <2>1, <3>1, <3>2 DEF DefaultTxGone
  <2>2. CASE x \in xs
    BY <1>1, <1>7, <2>2 DEF Live, Tx
  <2> QED  BY <1>5, <2>1, <2>2
<1>9. \A tx : tx <= uid /\ tx \in Nat => (tx \in unnamed' <=> tx \in unnamed)
  BY <1>1 DEF NewRequest, Tx
<1>10. OneProcedure'
  <2> SUFFICES ASSUME NEW d \in DOMAIN ebc', NEW e \in DOMAIN ebc', NEW k \in DOMAIN Procs(d)',
                      NEW j \in DOMAIN Procs(e)', NEW tx \in 1 .. n,
                      HasTrxnId(Procs(d)'[k], tx), HasTrxnId(Procs(e)'[j], tx)
               PROVE  /\ Procs(d)'[k].type = Procs(e)'[j].type
                      /\ (d = e /\ k = j) \/ (Procs(d)'[k].type = "delete" /\ tx \in unnamed')
    BY <1>1 DEF OneProcedure, Shared
  <2>1. CASE tx <= uid
    <3>1. d \in DOMAIN ebc /\ k \in DOMAIN Procs(d) /\ Procs(d)'[k] = Procs(d)[k]
      BY <1>1, <1>2, <1>4, <2>1 DEF Tx
    <3>2. e \in DOMAIN ebc /\ j \in DOMAIN Procs(e) /\ Procs(e)'[j] = Procs(e)[j]
      BY <1>1, <1>2, <1>4, <2>1 DEF Tx
    <3>3. tx \in 1 .. uid
      BY <1>1, <2>1
    <3>4. /\ Procs(d)[k].type = Procs(e)[j].type
          /\ (d = e /\ k = j) \/ Shared(Procs(d)[k].type, tx)
      BY <3>1, <3>2, <3>3 DEF OneProcedure
    <3> QED  BY <1>9, <2>1, <3>1, <3>2, <3>4 DEF Shared
  <2>2. CASE tx > uid
    <3>1. PICK i \in DOMAIN new : d = c /\ k = base + i /\ Procs(d)'[k] = new[i]
      BY <1>1, <1>2, <1>3, <2>2
    <3>2. PICK m \in DOMAIN new : e = c /\ j = base + m /\ Procs(e)'[j] = new[m]
      BY <1>1, <1>2, <1>3, <2>2
    <3>3. /\ new[i].type = typ /\ new[i].tx = Tx
          /\ new[m].type = typ /\ new[m].tx = Tx
      BY <1>4, <3>1, <3>2
    <3>4. i = m \/ (typ = "delete" /\ Tx \in unnamed')
      BY <3>3 DEF NewRequest
    <3>5. typ = "delete" => tx = Tx
      BY <3>1, <3>3 DEF HasTrxnId
    <3> QED  BY <3>1, <3>2, <3>3, <3>4, <3>5 DEF Shared
  <2> QED  BY <1>1, <2>1, <2>2
<1>11. OneType'
  <2> SUFFICES ASSUME NEW x \in s5s8', NEW d \in DOMAIN ebc', NEW k \in DOMAIN Procs(d)',
                      x.tx # 0, HasTrxnId(Procs(d)'[k], x.tx)
               PROVE  Procs(d)'[k].type = x.type
    BY DEF OneType
  <2>1. CASE x \in s5s8
    <3>1. d \in DOMAIN ebc /\ k \in DOMAIN Procs(d) /\ Procs(d)'[k] = Procs(d)[k]
      BY <1>1, <1>2, <1>4, <1>6, <2>1 DEF Tx
    <3> QED  BY <2>1, <3>1 DEF OneType
  <2>2. CASE x \in xs
    <3>1. x.tx \in Tx .. n /\ x.type = typ
      BY <1>7, <2>2
    <3>2. PICK i \in DOMAIN new : Procs(d)'[k] = new[i]
      BY <1>1, <1>2, <1>3, <3>1 DEF Tx
    <3> QED  BY <1>4, <3>1, <3>2
  <2> QED  BY <1>5, <2>1, <2>2
<1>12. OneRequest'
  <2> SUFFICES ASSUME NEW x \in s5s8', NEW y \in s5s8', x.tx = y.tx, x.tx # 0
               PROVE  /\ x.type = y.type
                      /\ x = y \/ x.type = "release" \/ (x.type = "delete" /\ x.tx \in unnamed')
    BY DEF OneRequest, Shared
  <2>1. CASE x \in s5s8 /\ y \in s5s8
    <3>1. x.type = y.type /\ (x = y \/ x.type = "release" \/ Shared(x.type, x.tx))
      BY <2>1 DEF OneRequest
    <3> QED  BY <1>6, <1>9, <2>1, <3>1 DEF Shared
  <2>2. CASE x \in s5s8 /\ y \in xs
    BY <1>1, <1>6, <1>7, <2>2 DEF Tx
  <2>3. CASE x \in xs /\ y \in s5s8
    BY <1>1, <1>6, <1>7, <2>3 DEF Tx
  <2>4. CASE x \in xs /\ y \in xs
    <3>1. x.type = typ /\ y.type = typ
      BY <1>7, <2>4
    <3>2. x = y \/ typ = "release" \/ (x.tx = Tx /\ Tx \in unnamed')
      BY <2>4 DEF NewRequest
    <3>3. Tx \in unnamed' => typ = "delete"
      BY DEF NewRequest
    <3> QED  BY <3>1, <3>2, <3>3 DEF Shared
  <2> QED  BY <1>5, <2>1, <2>2, <2>3, <2>4
<1>13. BearersOK'
  <2> SUFFICES ASSUME NEW d \in DOMAIN ebc', NEW k \in DOMAIN Procs(d)', Procs(d)'[k].type = "modify"
               PROVE  Procs(d)'[k].tx # 0 /\ \A b \in Procs(d)'[k].pdn_bearers : b.tx \in 1 .. n
    BY <1>1 DEF BearersOK
  <2>1. CASE d \in DOMAIN ebc /\ k \in DOMAIN Procs(d) /\ Procs(d)'[k] = Procs(d)[k]
    BY <1>1, <2>1 DEF BearersOK
  <2>2. ASSUME NEW i \in DOMAIN new, Procs(d)'[k] = new[i]
        PROVE  Procs(d)'[k].tx # 0 /\ \A b \in Procs(d)'[k].pdn_bearers : b.tx \in 1 .. n
    <3>1. new[i].tx = Tx
      BY <2>2 DEF NewRequest
    <3>2. \A b \in new[i].pdn_bearers : b.tx \in Tx .. n
      BY <2>2 DEF NewRequest
    <3> QED  BY <1>1, <2>2, <3>1, <3>2 DEF Tx
  <2> QED  BY <1>2, <2>1, <2>2
<1>14. NoSecondAnswer'
  <2>1. \A tx \in DOMAIN answers : tx \in 1 .. uid
    BY DEF Bounded
  <2>2. ASSUME NEW x \in s5s8', x.tx \in DOMAIN answers
        PROVE  x.type # "create" /\ (x.type = "delete" => x.tx \in unnamed')
    <3>1. x \in s5s8
      BY <1>1, <1>5, <1>7, <2>1, <2>2 DEF Tx
    <3> QED  BY <2>2, <3>1 DEF NoSecondAnswer, NewRequest
  <2>3. ASSUME NEW d \in DOMAIN ebc', NEW k \in DOMAIN Procs(d)', Procs(d)'[k].tx \in DOMAIN answers
        PROVE  /\ Procs(d)'[k].type # "modify"
               /\ Procs(d)'[k].type = "release" => Procs(d)'[k].bearers <= 0
    <3>1. Procs(d)'[k].tx \in 1 .. uid
      BY <2>1, <2>3
    <3>2. \A i \in DOMAIN new : new[i].tx \notin 1 .. uid
      BY <1>1 DEF NewRequest, Tx
    <3>3. d \in DOMAIN ebc /\ k \in DOMAIN Procs(d) /\ Procs(d)'[k] = Procs(d)[k]
      BY <1>2, <3>1, <3>2
    <3> QED  BY <2>3, <3>3 DEF NoSecondAnswer
  <2> QED  BY <1>5, <2>2, <2>3 DEF NoSecondAnswer
<1>15. AnsweredOnce'
  BY <1>5 DEF AnsweredOnce, NewRequest
<1> QED  BY <1>8, <1>10, <1>11, <1>12, <1>13, <1>14, <1>15
\* The procedures of the request find their answers, and wait for them.
NewWaits(c, new, xs, typ) ==
  /\ teid_s5s8_cp' \in Nat /\ teid_s5s8_cp' >= teid_s5s8_cp
  /\ \A x \in xs : x.tx # 0 => s5s8lteid2sgw_contexts'[x.teid] = c
  /\ typ = "delete" => \E f \in [xs -> DOMAIN new] :
       /\ \A x, y \in xs : f[x] = f[y] => x = y
       /\ \A x \in xs : HasTrxnId(new[f[x]], x.tx)
  /\ \A x \in xs : x.type \in {"create", "release"} => \E i \in DOMAIN new : HasTrxnId(new[i], x.tx)
  /\ \A i \in DOMAIN new : new[i].type = "delete" /\ new[i].tx \notin unnamed' =>
       /\ new[i].pdn <= teid_s5s8_cp'
       /\ Live(new[i].pdn)' =>
            /\ s5s8lteid2sgw_contexts'[new[i].pdn] = c
            /\ \E x \in xs : x.type = "delete" /\ x.tx = new[i].tx /\ x.teid = new[i].pdn
  /\ \A i \in DOMAIN new : new[i].type = "modify" => \A b \in new[i].pdn_bearers :
       /\ b.pdn <= teid_s5s8_cp'
       /\ Live(b.pdn)' =>
            /\ s5s8lteid2sgw_contexts'[b.pdn] = c
            /\ \E x \in xs : x.type = "modify" /\ x.tx = b.tx /\ x.teid = b.pdn

\* What waits for a connection that stays live goes on to do so.
LEMMA WaitsOn ==
  ASSUME LiveFrom, teid_s5s8_cp \in Nat, NEW c, NEW type, NEW tx, NEW t \in Nat,
         t <= teid_s5s8_cp, Waits(c, type, tx, t),
         \A x \in s5s8 : x.type = type /\ x.tx = tx /\ x.teid = t => x \in s5s8'
  PROVE  Waits(c, type, tx, t)'
BY DEF Waits, Live, LiveFrom

LEMMA PdnTypes ==
  ASSUME ShapesOK, NEW c \in DOMAIN ebc, NEW k \in DOMAIN Procs(c)
  PROVE  /\ Procs(c)[k].type = "delete" => Procs(c)[k].pdn \in Nat
         /\ Procs(c)[k].type = "modify" => \A b \in Procs(c)[k].pdn_bearers : b.pdn \in Nat
<1>1. Procs(c) \in Seq(ProcRecords)
  BY DEF ShapesOK, EbcShape
<1>2. Procs(c)[k] \in ProcRecords
  BY <1>1
<1> QED  BY <1>2 DEF ProcRecords

LEMMA WaitingRequest ==
  ASSUME ShapesOK, Tables, Bounded, Transactions, Waiting,
         NEW c, NEW new, NEW xs, NEW typ, NEW n, NEW base,
         NewRequest(c, new, xs, typ, n, base), NewWaits(c, new, xs, typ)
  PROVE  Waiting'
<1> USE DEF Waiting
<1>1. /\ uid \in Nat /\ n \in Nat /\ n > uid /\ uid' = n /\ s5s8' = s5s8 \cup xs
      /\ teid_s5s8_cp \in Nat /\ teid_s5s8_cp' \in Nat /\ teid_s5s8_cp' >= teid_s5s8_cp
  BY DEF NewRequest, ShapesOK, NewWaits
<1>2. \A d \in DOMAIN ebc' : \A k \in DOMAIN Procs(d)' :
        \/ d \in DOMAIN ebc /\ k \in DOMAIN Procs(d) /\ Procs(d)'[k] = Procs(d)[k]
        \/ d = c /\ \E i \in DOMAIN new : k = base + i /\ Procs(d)'[k] = new[i]
  BY DEF NewRequest, SlotsAdded
<1>3. \A d \in DOMAIN ebc : \A k \in DOMAIN Procs(d) :
        d \in DOMAIN ebc' /\ k \in DOMAIN Procs(d)' /\ Procs(d)'[k] = Procs(d)[k]
  BY DEF NewRequest, SlotsAdded
<1>4. \A i \in DOMAIN new :
        base + i \in DOMAIN Procs(c)' /\ Procs(c)'[base + i] = new[i]
  BY DEF NewRequest, SlotsAdded
<1>5. \A x \in s5s8 : x.tx \in Nat /\ x.tx <= uid /\ x.teid \in Nat /\ x.teid <= teid_s5s8_cp
  BY DEF Bounded, ShapesOK, Requests
<1>6. \A x \in xs : \/ x.tx = 0 /\ x.type = "delete" /\ ~Live(x.teid)'
                    \/ x.tx \in Tx .. n /\ x.type = typ
  BY DEF NewRequest
<1>7. \A x \in s5s8 : Live(x.teid)' =>
        /\ Live(x.teid) /\ s5s8lteid2sgw_contexts'[x.teid] = s5s8lteid2sgw_contexts[x.teid]
        /\ s5s8lteid2sgw_contexts[x.teid] \in DOMAIN ebc
  BY <1>1, <1>5 DEF NewRequest, LiveFrom, Live, Tables, PdnsByTeid
<1>8. \A d \in DOMAIN ebc : \A tx : ProcsOf(d, tx) \subseteq ProcsOf(d, tx)'
  BY <1>3 DEF ProcsOf
<1>9. DeletesFind'
  <2> SUFFICES ASSUME NEW d \in DOMAIN ebc', NEW tx \in 1 .. n
               PROVE  \E f \in [OpenDeletes(d, tx)' -> ProcsOf(d, tx)'] :
                        \A x, y \in OpenDeletes(d, tx)' : f[x] = f[y] => x = y
    BY <1>1 DEF DeletesFind
  <2>1. CASE tx <= uid
    <3>1. OpenDeletes(d, tx)' \subseteq s5s8
      BY <1>1, <1>6, <2>1 DEF OpenDeletes, Tx
    <3>2. CASE d \in DOMAIN ebc
      <4>1. OpenDeletes(d, tx)' \subseteq OpenDeletes(d, tx)
        BY <1>7, <3>1 DEF OpenDeletes
      <4>2. tx \in 1 .. uid
        BY <1>1, <2>1
      <4>3. PICK f \in [OpenDeletes(d, tx) -> ProcsOf(d, tx)] :
              \A x, y \in OpenDeletes(d, tx) : f[x] = f[y] => x = y
        BY <3>2, <4>2 DEF DeletesFind
      <4> DEFINE g == [x \in OpenDeletes(d, tx)' |-> f[x]]
      <4>4. g \in [OpenDeletes(d, tx)' -> ProcsOf(d, tx)']
        BY <1>8, <3>2, <4>1, <4>3
      <4>5. \A x, y \in OpenDeletes(d, tx)' : g[x] = g[y] => x = y
        BY <4>1, <4>3
      <4> HIDE DEF g
      <4> QED  BY <4>4, <4>5
    <3>3. CASE d \notin DOMAIN ebc
      <4>1. OpenDeletes(d, tx)' = {}
        BY <1>7, <3>1, <3>3 DEF OpenDeletes
      <4> DEFINE g == [x \in {} |-> 0]
      <4>2. g \in [OpenDeletes(d, tx)' -> ProcsOf(d, tx)']
        BY <4>1
      <4> QED  BY <4>1, <4>2
    <3> QED  BY <3>2, <3>3
  <2>2. CASE tx > uid
    <3>1. \A x \in OpenDeletes(d, tx)' : x \in xs /\ typ = "delete" /\ d = c /\ x.tx = tx
      BY <1>1, <1>5, <1>6, <2>2 DEF OpenDeletes, NewWaits, Tx
    <3>2. CASE OpenDeletes(d, tx)' = {}
      <4> DEFINE g == [x \in {} |-> 0]
      <4>2. g \in [OpenDeletes(d, tx)' -> ProcsOf(d, tx)']
        BY <3>2
      <4> QED  BY <3>2, <4>2
    <3>3. CASE OpenDeletes(d, tx)' # {}
      <4>1. typ = "delete" /\ d = c
        BY <3>1, <3>3
      <4>2. PICK f \in [xs -> DOMAIN new] :
              /\ \A x, y \in xs : f[x] = f[y] => x = y
              /\ \A x \in xs : HasTrxnId(new[f[x]], x.tx)
        BY <4>1 DEF NewWaits
      <4> DEFINE g == [x \in OpenDeletes(d, tx)' |-> base + f[x]]
      <4>3. \A x \in OpenDeletes(d, tx)' :
              f[x] \in DOMAIN new /\ base + f[x] \in ProcsOf(c, tx)'
        BY <1>4, <3>1, <4>2 DEF ProcsOf
      <4>4. g \in [OpenDeletes(d, tx)' -> ProcsOf(d, tx)']
        BY <4>1, <4>3
      <4>5. base \in Nat /\ \A i \in DOMAIN new : i \in Nat
        BY DEF NewRequest, SlotsAdded
      <4>6. \A x, y \in OpenDeletes(d, tx)' : g[x] = g[y] => x = y
        BY <3>1, <4>2, <4>3, <4>5
      <4> HIDE DEF g
      <4> QED  BY <4>4, <4>6
    <3> QED  BY <3>2, <3>3
  <2> QED  BY <1>1, <2>1, <2>2
<1>10. OthersFind'
  <2> SUFFICES ASSUME NEW x \in s5s8', Live(x.teid)', x.type \in {"create", "release"},
                      NEW d, d = s5s8lteid2sgw_contexts'[x.teid]
               PROVE  ProcsOf(d, x.tx)' # {}
    BY DEF OthersFind
  <2>1. CASE x \in s5s8
    <3>1. ProcsOf(d, x.tx) # {} /\ d \in DOMAIN ebc
      BY <1>7, <2>1 DEF OthersFind
    <3> QED  BY <1>8, <3>1
  <2>2. CASE x \in xs
    <3>1. PICK i \in DOMAIN new : HasTrxnId(new[i], x.tx)
      BY <2>2 DEF NewWaits
    <3>2. d = c
      BY <1>1, <1>6, <2>2 DEF NewWaits, Tx
    <3>3. base + i \in ProcsOf(d, x.tx)'
      BY <1>4, <3>1, <3>2 DEF ProcsOf
    <3> QED  BY <3>3
  <2> QED  BY <1>1, <2>1, <2>2
<1>11. DeletesWait'
  <2> SUFFICES ASSUME NEW d \in DOMAIN ebc', NEW k \in DOMAIN Procs(d)', NEW p, p = Procs(d)'[k],
                      p.type = "delete", p.tx \notin unnamed'
               PROVE  p.pdn <= teid_s5s8_cp' /\ Waits(d, "delete", p.tx, p.pdn)'
    BY DEF DeletesWait
  <2>1. CASE d \in DOMAIN ebc /\ k \in DOMAIN Procs(d) /\ p = Procs(d)[k]
    <3>1. p.pdn <= teid_s5s8_cp /\ Waits(d, "delete", p.tx, p.pdn) /\ p.pdn \in Nat
      BY <2>1, PdnTypes DEF DeletesWait, NewRequest
    <3>2. LiveFrom
      BY DEF NewRequest
    <3>3. Waits(d, "delete", p.tx, p.pdn)'
      BY <1>1, <3>1, <3>2, WaitsOn
    <3> QED  BY <1>1, <3>1, <3>3
  <2>2. ASSUME NEW i \in DOMAIN new, d = c, p = new[i]
        PROVE  p.pdn <= teid_s5s8_cp' /\ Waits(d, "delete", p.tx, p.pdn)'
    BY <1>1, <2>2 DEF NewWaits, Waits
  <2> QED  BY <1>2, <2>1, <2>2
<1>12. ModifiesWait'
  <2> SUFFICES ASSUME NEW d \in DOMAIN ebc', NEW k \in DOMAIN Procs(d)', NEW p, p = Procs(d)'[k],
                      p.type = "modify", NEW b \in p.pdn_bearers
               PROVE  b.pdn <= teid_s5s8_cp' /\ Waits(d, "modify", b.tx, b.pdn)'
    BY DEF ModifiesWait
  <2>1. CASE d \in DOMAIN ebc /\ k \in DOMAIN Procs(d) /\ p = Procs(d)[k]
    <3>1. b.pdn <= teid_s5s8_cp /\ Waits(d, "modify", b.tx, b.pdn) /\ b.pdn \in Nat
      BY <2>1, PdnTypes DEF ModifiesWait
    <3>2. LiveFrom
      BY DEF NewRequest
    <3>3. Waits(d, "modify", b.tx, b.pdn)'
      BY <1>1, <3>1, <3>2, WaitsOn
    <3> QED  BY <1>1, <3>1, <3>3
  <2>2. ASSUME NEW i \in DOMAIN new, d = c, p = new[i]
        PROVE  b.pdn <= teid_s5s8_cp' /\ Waits(d, "modify", b.tx, b.pdn)'
    BY <1>1, <2>2 DEF NewWaits, Waits
  <2> QED  BY <1>2, <2>1, <2>2
<1> QED  BY <1>9, <1>10, <1>11, <1>12
------------------------------------------------------------------------------
(* The end of a request made of PGW-C *)

\* Each procedure that is left comes from one there was, and has no more to wait
\* for: src says from which.
SlotsInherit(src) ==
  /\ DOMAIN ebc' \subseteq DOMAIN ebc
  /\ \A d \in DOMAIN ebc' : \A k \in DOMAIN Procs(d)' :
       /\ src[d][k] \in DOMAIN Procs(d)
       /\ Procs(d)'[k].type = Procs(d)[src[d][k]].type
       /\ Procs(d)'[k].tx = Procs(d)[src[d][k]].tx
       /\ Procs(d)'[k].type = "delete" => Procs(d)'[k].pdn = Procs(d)[src[d][k]].pdn
       /\ Procs(d)'[k].type = "modify" =>
            Procs(d)'[k].pdn_bearers \subseteq Procs(d)[src[d][k]].pdn_bearers
       /\ Procs(d)'[k].type = "release" => Procs(d)'[k].bearers <= Procs(d)[src[d][k]].bearers
  /\ \A d \in DOMAIN ebc' : \A k, j \in DOMAIN Procs(d)' : src[d][k] = src[d][j] => k = j

LiveStill ==
  \A t \in DOMAIN s5s8lteid2sgw_contexts' :
    Live(t) /\ s5s8lteid2sgw_contexts'[t] = s5s8lteid2sgw_contexts[t]

Ended(x) ==
  /\ x \in s5s8 /\ s5s8' = s5s8 \ {x}
  /\ uid' = uid /\ unnamed' = unnamed /\ teid_s5s8_cp' = teid_s5s8_cp
  /\ LiveStill

\* An answer to transaction tx is the only one, and stays it.
LastAnswer(tx) ==
  /\ tx \in 1 .. uid
  /\ tx \in DOMAIN answers => tx \in unnamed
  /\ \A y \in s5s8' : y.tx = tx => y.type # "create" /\ (y.type = "delete" => tx \in unnamed)
  /\ \A d \in DOMAIN ebc' : \A k \in DOMAIN Procs(d)' :
       Procs(d)'[k].tx = tx =>
         /\ Procs(d)'[k].type # "modify"
         /\ Procs(d)'[k].type = "release" => Procs(d)'[k].bearers <= 0

LEMMA ProcTypes ==
  ASSUME ShapesOK, NEW c \in DOMAIN ebc, NEW k \in DOMAIN Procs(c)
  PROVE  /\ Procs(c)[k] \in ProcRecords /\ Procs(c)[k].tx \in Nat
         /\ Procs(c)[k].type = "release" => Procs(c)[k].bearers \in Int
<1>1. Procs(c) \in Seq(ProcRecords)
  BY DEF ShapesOK, EbcShape
<1>2. Procs(c)[k] \in ProcRecords
  BY <1>1
<1>3. Procs(c)[k].tx \in Nat
  BY <1>2 DEF ProcRecords
<1>4. Procs(c)[k].type = "release" => Procs(c)[k].bearers \in Int
  BY <1>2 DEF ProcRecords
<1> QED  BY <1>2, <1>3, <1>4

LEMMA AnswerDone ==
  ASSUME NEW tx, IsMap(answers), Answer(tx)
  PROVE  /\ IsMap(answers') /\ DOMAIN answers' = DOMAIN answers \cup {tx}
         /\ \A u \in DOMAIN answers \ {tx} : answers'[u] = answers[u]
         /\ tx \notin DOMAIN answers => answers'[tx] = 1
BY DEF Answer, MapAssign, IsMap

LEMMA InheritedTrxnId ==
  ASSUME NEW src, SlotsInherit(src), NEW d \in DOMAIN ebc', NEW k \in DOMAIN Procs(d)',
         NEW tx, HasTrxnId(Procs(d)'[k], tx)
  PROVE  d \in DOMAIN ebc /\ src[d][k] \in DOMAIN Procs(d) /\ HasTrxnId(Procs(d)[src[d][k]], tx)
         /\ Procs(d)'[k].type = Procs(d)[src[d][k]].type
BY DEF SlotsInherit, HasTrxnId

LEMMA TransactionsEnd ==
  ASSUME ShapesOK, ShapesOK', Bounded, Transactions, NEW src, NEW x, SlotsInherit(src), Ended(x),
         answers' = answers \/ \E tx : Answer(tx) /\ LastAnswer(tx)
  PROVE  Transactions'
<1> USE DEF Transactions
<1>1. s5s8' \subseteq s5s8 /\ uid' = uid /\ unnamed' = unnamed /\ LiveStill
  BY DEF Ended
<1>2. \A d \in DOMAIN ebc' : \A k \in DOMAIN Procs(d)' :
        /\ d \in DOMAIN ebc /\ src[d][k] \in DOMAIN Procs(d)
        /\ Procs(d)'[k].type = Procs(d)[src[d][k]].type
        /\ Procs(d)'[k].tx = Procs(d)[src[d][k]].tx
        /\ Procs(d)'[k].type = "modify" =>
             Procs(d)'[k].pdn_bearers \subseteq Procs(d)[src[d][k]].pdn_bearers
        /\ Procs(d)'[k].type = "release" => Procs(d)'[k].bearers <= Procs(d)[src[d][k]].bearers
  BY DEF SlotsInherit
<1>3. \A d \in DOMAIN ebc' : \A k \in DOMAIN Procs(d)' : \A tx :
        HasTrxnId(Procs(d)'[k], tx) => HasTrxnId(Procs(d)[src[d][k]], tx)
  BY InheritedTrxnId
<1>4. DefaultTxGone'
  BY <1>1 DEF DefaultTxGone, LiveStill, Live
<1>5. OneProcedure'
  <2> SUFFICES ASSUME NEW d \in DOMAIN ebc', NEW e \in DOMAIN ebc', NEW k \in DOMAIN Procs(d)',
                      NEW j \in DOMAIN Procs(e)', NEW tx \in 1 .. uid,
                      HasTrxnId(Procs(d)'[k], tx), HasTrxnId(Procs(e)'[j], tx)
               PROVE  /\ Procs(d)'[k].type = Procs(e)'[j].type
                      /\ (d = e /\ k = j) \/ Shared(Procs(d)'[k].type, tx)
    BY <1>1 DEF OneProcedure, Shared
  <2>1. /\ HasTrxnId(Procs(d)[src[d][k]], tx) /\ HasTrxnId(Procs(e)[src[e][j]], tx)
        /\ src[d][k] \in DOMAIN Procs(d) /\ src[e][j] \in DOMAIN Procs(e)
        /\ d \in DOMAIN ebc /\ e \in DOMAIN ebc
    BY <1>2, <1>3
  <2>2. /\ Procs(d)[src[d][k]].type = Procs(e)[src[e][j]].type
        /\ (d = e /\ src[d][k] = src[e][j]) \/ Shared(Procs(d)[src[d][k]].type, tx)
    BY <2>1 DEF OneProcedure
  <2>3. d = e /\ src[d][k] = src[e][j] => k = j
    BY DEF SlotsInherit
  <2> QED  BY <1>2, <2>2, <2>3
<1>6. OneType'
  BY <1>1, <1>2, <1>3 DEF OneType
<1>7. OneRequest'
  BY <1>1 DEF OneRequest, Shared
<1>8. BearersOK'
  BY <1>1, <1>2 DEF BearersOK
<1>9. \A d \in DOMAIN ebc' : \A k \in DOMAIN Procs(d)' : Procs(d)'[k].type = "release" =>
        Procs(d)'[k].bearers \in Int /\ Procs(d)[src[d][k]].bearers \in Int
  <2>1. \A d \in DOMAIN ebc : \A k \in DOMAIN Procs(d) : Procs(d)[k].type = "release" =>
          Procs(d)[k].bearers \in Int
    BY ProcTypes
  <2>2. (\A d \in DOMAIN ebc : \A k \in DOMAIN Procs(d) : Procs(d)[k].type = "release" =>
          Procs(d)[k].bearers \in Int)'
    <3> SUFFICES ASSUME NEW d \in DOMAIN ebc', NEW k \in DOMAIN Procs(d)', Procs(d)'[k].type = "release"
                 PROVE  Procs(d)'[k].bearers \in Int
      OBVIOUS
    <3>1. Procs(d)' \in Seq(ProcRecords)
      BY DEF ShapesOK, EbcShape
    <3>2. Procs(d)'[k] \in ProcRecords
      BY <3>1
    <3> QED  BY <3>2 DEF ProcRecords
  <2> QED  BY <1>2, <2>1, <2>2
<1>10. \A d \in DOMAIN ebc' : \A k \in DOMAIN Procs(d)' : Procs(d)'[k].tx \in DOMAIN answers =>
         /\ Procs(d)'[k].type # "modify"
         /\ Procs(d)'[k].type = "release" => Procs(d)'[k].bearers <= 0
  BY <1>2, <1>9 DEF NoSecondAnswer
<1>11. CASE answers' = answers
  <2>1. NoSecondAnswer'
    BY <1>1, <1>10, <1>11 DEF NoSecondAnswer
  <2>2. AnsweredOnce'
    BY <1>1, <1>11 DEF AnsweredOnce
  <2> QED  BY <1>4, <1>5, <1>6, <1>7, <1>8, <2>1, <2>2
<1>12. ASSUME NEW tx, Answer(tx), LastAnswer(tx) PROVE Transactions'
  <2>1. /\ DOMAIN answers' = DOMAIN answers \cup {tx}
        /\ \A u \in DOMAIN answers \ {tx} : answers'[u] = answers[u]
        /\ tx \notin DOMAIN answers => answers'[tx] = 1
    BY <1>12, AnswerDone DEF ShapesOK
  <2>2. NoSecondAnswer'
    BY <1>1, <1>10, <1>12, <2>1 DEF NoSecondAnswer, LastAnswer
  <2>3. AnsweredOnce'
    BY <1>1, <1>12, <2>1 DEF AnsweredOnce, LastAnswer
  <2> QED  BY <1>4, <1>5, <1>6, <1>7, <1>8, <2>2, <2>3
<1> QED  BY <1>11, <1>12
\* No procedure that is left waits for x.
NotAwaited(x) ==
  \A d \in DOMAIN ebc' : \A k \in DOMAIN Procs(d)' :
    /\ /\ Procs(d)'[k].type = "delete" /\ Procs(d)'[k].tx \notin unnamed
       /\ x.type = "delete" /\ x.tx = Procs(d)'[k].tx /\ x.teid = Procs(d)'[k].pdn
       => ~Live(x.teid)'
    /\ Procs(d)'[k].type = "modify" =>
         \A b \in Procs(d)'[k].pdn_bearers :
           x.type = "modify" /\ x.tx = b.tx /\ x.teid = b.pdn => ~Live(x.teid)'

LEMMA WaitsEnd ==
  ASSUME ShapesOK, Waiting, NEW src, NEW x, SlotsInherit(src), Ended(x), NotAwaited(x)
  PROVE  DeletesWait' /\ ModifiesWait'
<1> USE DEF Waiting
<1>1. /\ s5s8' = s5s8 \ {x} /\ unnamed' = unnamed /\ teid_s5s8_cp' = teid_s5s8_cp /\ LiveStill
  BY DEF Ended
<1>2. DeletesWait'
  <2> SUFFICES ASSUME NEW d \in DOMAIN ebc', NEW k \in DOMAIN Procs(d)', NEW p, p = Procs(d)'[k],
                      p.type = "delete", p.tx \notin unnamed
               PROVE  p.pdn <= teid_s5s8_cp /\ Waits(d, "delete", p.tx, p.pdn)'
    BY <1>1 DEF DeletesWait
  <2>1. /\ d \in DOMAIN ebc /\ src[d][k] \in DOMAIN Procs(d)
        /\ Procs(d)[src[d][k]].type = "delete"
        /\ Procs(d)[src[d][k]].tx = p.tx /\ Procs(d)[src[d][k]].pdn = p.pdn
    BY DEF SlotsInherit
  <2>2. p.pdn <= teid_s5s8_cp /\ Waits(d, "delete", p.tx, p.pdn)
    BY <2>1 DEF DeletesWait
  <2>3. x.type = "delete" /\ x.tx = p.tx /\ x.teid = p.pdn => ~Live(p.pdn)'
    BY DEF NotAwaited
  <2> QED  BY <1>1, <2>2, <2>3 DEF Waits, Live, LiveStill
<1>3. ModifiesWait'
  <2> SUFFICES ASSUME NEW d \in DOMAIN ebc', NEW k \in DOMAIN Procs(d)', NEW p, p = Procs(d)'[k],
                      p.type = "modify", NEW b \in p.pdn_bearers
               PROVE  b.pdn <= teid_s5s8_cp /\ Waits(d, "modify", b.tx, b.pdn)'
    BY <1>1 DEF ModifiesWait
  <2>1. /\ d \in DOMAIN ebc /\ src[d][k] \in DOMAIN Procs(d)
        /\ Procs(d)[src[d][k]].type = "modify"
        /\ b \in Procs(d)[src[d][k]].pdn_bearers
    BY DEF SlotsInherit
  <2>2. b.pdn <= teid_s5s8_cp /\ Waits(d, "modify", b.tx, b.pdn)
    BY <2>1 DEF ModifiesWait
  <2>3. x.type = "modify" /\ x.tx = b.tx /\ x.teid = b.pdn => ~Live(b.pdn)'
    BY DEF NotAwaited
  <2> QED  BY <1>1, <2>2, <2>3 DEF Waits, Live, LiveStill
<1> QED  BY <1>2, <1>3

\* The end of a request that leaves the procedures as they are.
SlotsKept == /\ DOMAIN ebc' = DOMAIN ebc
             /\ \A d \in DOMAIN ebc : Procs(d)' = Procs(d)

\* Procedure r of context c goes, perhaps with its context.
SlotDropped(c, r) ==
  /\ DOMAIN ebc' \subseteq DOMAIN ebc
  /\ \A d \in DOMAIN ebc' \ {c} : Procs(d)' = Procs(d)
  /\ c \in DOMAIN ebc' => Procs(c)' = RemoveAt(Procs(c), r)

\* Procedure r of context c becomes p, of the same type and transaction.
SlotReduced(c, r, p) ==
  /\ DOMAIN ebc' = DOMAIN ebc
  /\ \A d \in DOMAIN ebc \ {c} : Procs(d)' = Procs(d)
  /\ DOMAIN Procs(c)' = DOMAIN Procs(c) /\ Procs(c)'[r] = p
  /\ \A k \in DOMAIN Procs(c) \ {r} : Procs(c)'[k] = Procs(c)[k]
  /\ p.type \in {"modify", "release"}
  /\ p.type = Procs(c)[r].type /\ p.tx = Procs(c)[r].tx
  /\ p.type = "modify" => p.pdn_bearers \subseteq Procs(c)[r].pdn_bearers
  /\ p.type = "release" => p.bearers <= Procs(c)[r].bearers

\* r is the procedure that is found for x, in the context of its connection.
Found(x, c, r) ==
  /\ x \in s5s8 /\ Live(x.teid) /\ c = s5s8lteid2sgw_contexts[x.teid] /\ c \in DOMAIN ebc
  /\ r \in DOMAIN Procs(c) /\ HasTrxnId(Procs(c)[r], x.tx)

LEMMA FoundType ==
  ASSUME ShapesOK, Transactions, NEW x, NEW c, NEW r, Found(x, c, r)
  PROVE  x.tx # 0 /\ Procs(c)[r].type = x.type
BY DEF Found, Transactions, DefaultTxGone, OneType

Same == [d \in DOMAIN ebc |-> [k \in DOMAIN Procs(d) |-> k]]

LEMMA KeptInherits ==
  ASSUME ShapesOK, SlotsKept
  PROVE  \E src : /\ SlotsInherit(src)
                  /\ \A d \in DOMAIN ebc' : \A k \in DOMAIN Procs(d)' : src[d][k] = k
<1>4. PICK same : same = Same
  OBVIOUS
<1>1. \A d \in DOMAIN ebc : \A k \in DOMAIN Procs(d) : same[d][k] = k
  BY <1>4 DEF Same
<1>2. \A d \in DOMAIN ebc : \A k \in DOMAIN Procs(d) : Procs(d)[k].type = "release" =>
        Procs(d)[k].bearers \in Int
  BY ProcTypes
<1>3. SlotsInherit(same)
  BY <1>1, <1>2 DEF SlotsInherit, SlotsKept
<1> QED  BY <1>1, <1>3 DEF SlotsKept

LEMMA ReducedInherits ==
  ASSUME ShapesOK, NEW c, NEW r, NEW p, SlotReduced(c, r, p)
  PROVE  \E src : /\ SlotsInherit(src)
                  /\ \A d \in DOMAIN ebc' : \A k \in DOMAIN Procs(d)' : src[d][k] = k
<1>4. PICK same : same = Same
  OBVIOUS
<1>1. \A d \in DOMAIN ebc : \A k \in DOMAIN Procs(d) : same[d][k] = k
  BY <1>4 DEF Same
<1>2. \A d \in DOMAIN ebc : \A k \in DOMAIN Procs(d) : Procs(d)[k].type = "release" =>
        Procs(d)[k].bearers \in Int
  BY ProcTypes
<1>3. SlotsInherit(same)
  BY <1>1, <1>2 DEF SlotsInherit, SlotReduced
<1> QED  BY <1>1, <1>3 DEF SlotReduced

LEMMA DroppedInherits ==
  ASSUME ShapesOK, NEW c \in DOMAIN ebc, NEW r \in DOMAIN Procs(c), SlotDropped(c, r)
  PROVE  \E src : /\ SlotsInherit(src)
                  /\ c \in DOMAIN ebc' => \A k \in DOMAIN Procs(c)' : src[c][k] # r
                  /\ \A d \in DOMAIN ebc' \ {c} : \A k \in DOMAIN Procs(d)' : src[d][k] = k
<1> DEFINE After == [d \in DOMAIN ebc |->
             [k \in DOMAIN Procs(d) |-> IF d = c /\ k >= r THEN k + 1 ELSE k]]
<1>12. PICK src : src = After
  OBVIOUS
<1>0. PICK s : s = Procs(c)
  OBVIOUS
<1>1. s \in Seq(ProcRecords) /\ DOMAIN s = 1 .. Len(s) /\ Len(s) \in Nat
  BY <1>0 DEF ShapesOK, EbcShape
<1>2. /\ \A d \in DOMAIN ebc \ {c} : \A k \in DOMAIN Procs(d) : src[d][k] = k
      /\ \A k \in DOMAIN s : (k < r => src[c][k] = k) /\ (k >= r => src[c][k] = k + 1)
  BY <1>0, <1>1, <1>12
<1> HIDE DEF After
<1>3. \A d \in DOMAIN ebc : \A k \in DOMAIN Procs(d) : Procs(d)[k].type = "release" =>
        Procs(d)[k].bearers \in Int
  BY ProcTypes
<1>4. r \in DOMAIN s
  BY <1>0
<1>5. c \in DOMAIN ebc' =>
        /\ DOMAIN Procs(c)' = 1 .. Len(s) - 1
        /\ \A i \in 1 .. Len(s) - 1 : /\ i < r => Procs(c)'[i] = s[i]
                                      /\ i >= r => Procs(c)'[i] = s[i + 1]
  <2> SUFFICES ASSUME c \in DOMAIN ebc'
               PROVE  /\ DOMAIN Procs(c)' = 1 .. Len(s) - 1
                      /\ \A i \in 1 .. Len(s) - 1 : /\ i < r => Procs(c)'[i] = s[i]
                                                    /\ i >= r => Procs(c)'[i] = s[i + 1]
    OBVIOUS
  <2>1. PICK u : u = RemoveAt(s, r)
    OBVIOUS
  <2>2. /\ DOMAIN u = 1 .. Len(s) - 1
        /\ \A i \in 1 .. Len(s) - 1 : (i < r => u[i] = s[i]) /\ (i >= r => u[i] = s[i + 1])
    BY <1>1, <1>4, <2>1, Removed
  <2>3. Procs(c)' = u
    BY <1>0, <2>1 DEF SlotDropped
  <2> QED  BY <2>2, <2>3
<1>6. c \in DOMAIN ebc' => \A k \in DOMAIN Procs(c)' :
        /\ src[c][k] \in DOMAIN s /\ src[c][k] # r /\ Procs(c)'[k] = s[src[c][k]]
        /\ k < r => src[c][k] = k
        /\ k >= r => src[c][k] = k + 1
        /\ k \in Nat
  <2> SUFFICES ASSUME c \in DOMAIN ebc', NEW k \in DOMAIN Procs(c)'
               PROVE  /\ src[c][k] \in DOMAIN s /\ src[c][k] # r /\ Procs(c)'[k] = s[src[c][k]]
                      /\ k < r => src[c][k] = k
                      /\ k >= r => src[c][k] = k + 1
                      /\ k \in Nat
    OBVIOUS
  <2>1. k \in 1 .. Len(s) - 1 /\ k \in DOMAIN s /\ r \in 1 .. Len(s)
    BY <1>1, <1>4, <1>5
  <2>2. CASE k < r
    BY <1>1, <1>2, <1>5, <2>1, <2>2
  <2>3. CASE k >= r
    BY <1>1, <1>2, <1>5, <2>1, <2>3
  <2> QED  BY <1>1, <2>1, <2>2, <2>3
<1>7. c \in DOMAIN ebc' => \A k, j \in DOMAIN Procs(c)' : src[c][k] = src[c][j] => k = j
  <2> SUFFICES ASSUME c \in DOMAIN ebc', NEW k \in DOMAIN Procs(c)', NEW j \in DOMAIN Procs(c)',
                      src[c][k] = src[c][j]
               PROVE  k = j
    OBVIOUS
  <2>1. r \in Nat /\ k \in Nat /\ j \in Nat
    BY <1>1, <1>4, <1>6
  <2>2. (k < r => src[c][k] = k) /\ (k >= r => src[c][k] = k + 1)
    BY <1>6
  <2>3. (j < r => src[c][j] = j) /\ (j >= r => src[c][j] = j + 1)
    BY <1>6
  <2> QED  BY <2>1, <2>2, <2>3
<1>8. \A d \in DOMAIN ebc' \ {c} : d \in DOMAIN ebc /\ Procs(d)' = Procs(d)
  BY DEF SlotDropped
<1>9. \A d \in DOMAIN ebc' : \A k \in DOMAIN Procs(d)' :
        src[d][k] \in DOMAIN Procs(d) /\ Procs(d)'[k] = Procs(d)[src[d][k]]
  BY <1>0, <1>2, <1>6, <1>8
<1>10. \A d \in DOMAIN ebc' : \A k, j \in DOMAIN Procs(d)' : src[d][k] = src[d][j] => k = j
  BY <1>2, <1>7, <1>8
<1>11. SlotsInherit(src)
  BY <1>3, <1>9, <1>10 DEF SlotsInherit, SlotDropped
<1> QED  BY <1>2, <1>6, <1>8, <1>11
\* The procedures that others than modify requests find stay where they are.
FindsOn ==
  \A y \in s5s8', d \in DOMAIN ebc :
    Live(y.teid)' /\ y.type # "modify" /\ s5s8lteid2sgw_contexts'[y.teid] = d =>
      ProcsOf(d, y.tx) \subseteq ProcsOf(d, y.tx)'

LEMMA FindsKept ==
  ASSUME Tables, Waiting, NEW x, Ended(x), DOMAIN ebc' \subseteq DOMAIN ebc, FindsOn
  PROVE  DeletesFind' /\ OthersFind'
<1> USE DEF Waiting
<1>1. /\ s5s8' = s5s8 \ {x} /\ uid' = uid /\ LiveStill
  BY DEF Ended
<1>2. DeletesFind'
  <2> SUFFICES ASSUME NEW d \in DOMAIN ebc', NEW tx \in 1 .. uid
               PROVE  \E f \in [OpenDeletes(d, tx)' -> ProcsOf(d, tx)'] :
                        \A y, z \in OpenDeletes(d, tx)' : f[y] = f[z] => y = z
    BY <1>1 DEF DeletesFind
  <2>1. OpenDeletes(d, tx)' \subseteq OpenDeletes(d, tx)
    BY <1>1 DEF OpenDeletes, LiveStill, Live
  <2>2. CASE OpenDeletes(d, tx)' = {}
    <3> DEFINE g == [y \in {} |-> 0]
    <3>1. g \in [OpenDeletes(d, tx)' -> ProcsOf(d, tx)']
      BY <2>2
    <3> QED  BY <2>2, <3>1
  <2>3. CASE OpenDeletes(d, tx)' # {}
    <3>1. ProcsOf(d, tx) \subseteq ProcsOf(d, tx)'
      <4>1. PICK y \in OpenDeletes(d, tx)' : TRUE
        BY <2>3
      <4>2. /\ y \in s5s8' /\ Live(y.teid)' /\ y.type = "delete" /\ y.tx = tx
            /\ s5s8lteid2sgw_contexts'[y.teid] = d
        BY <4>1 DEF OpenDeletes
      <4> QED  BY <4>2 DEF FindsOn
    <3>2. PICK f \in [OpenDeletes(d, tx) -> ProcsOf(d, tx)] :
            \A y, z \in OpenDeletes(d, tx) : f[y] = f[z] => y = z
      BY DEF DeletesFind
    <3> DEFINE g == [y \in OpenDeletes(d, tx)' |-> f[y]]
    <3>3. g \in [OpenDeletes(d, tx)' -> ProcsOf(d, tx)']
      BY <2>1, <3>1, <3>2
    <3>4. \A y, z \in OpenDeletes(d, tx)' : g[y] = g[z] => y = z
      BY <2>1, <3>2
    <3> HIDE DEF g
    <3> QED  BY <3>3, <3>4
  <2> QED  BY <2>2, <2>3
<1>3. OthersFind'
  <2> SUFFICES ASSUME NEW y \in s5s8', Live(y.teid)', y.type \in {"create", "release"},
                      NEW d, d = s5s8lteid2sgw_contexts'[y.teid]
               PROVE  ProcsOf(d, y.tx)' # {}
    BY DEF OthersFind
  <2>1. y \in s5s8 /\ Live(y.teid) /\ d = s5s8lteid2sgw_contexts[y.teid]
    BY <1>1 DEF LiveStill, Live
  <2>2. ProcsOf(d, y.tx) # {}
    BY <2>1 DEF OthersFind
  <2>3. d \in DOMAIN ebc
    BY <2>1 DEF Tables, PdnsByTeid, Live
  <2> QED  BY <2>2, <2>3 DEF FindsOn
<1> QED  BY <1>2, <1>3

\* When procedure r goes, the delete requests that are left share out the others.
LEMMA FindsDropped ==
  ASSUME ShapesOK, Tables', Transactions, Waiting,
         NEW x, NEW c, NEW r, Found(x, c, r), Ended(x), SlotDropped(c, r), x.type # "release"
  PROVE  DeletesFind' /\ OthersFind'
<1> USE DEF Waiting
<1>1. /\ s5s8' = s5s8 \ {x} /\ uid' = uid /\ LiveStill
  BY DEF Ended
<1>2. PICK s : s = Procs(c)
  OBVIOUS
<1>3. s \in Seq(ProcRecords) /\ DOMAIN s = 1 .. Len(s) /\ Len(s) \in Nat /\ r \in 1 .. Len(s)
  BY <1>2 DEF ShapesOK, EbcShape, Found
<1>4. c \in DOMAIN ebc' =>
        /\ DOMAIN Procs(c)' = 1 .. Len(s) - 1
        /\ \A i \in 1 .. Len(s) - 1 : /\ i < r => Procs(c)'[i] = s[i]
                                      /\ i >= r => Procs(c)'[i] = s[i + 1]
  <2>1. PICK u : u = RemoveAt(s, r)
    OBVIOUS
  <2>2. /\ DOMAIN u = 1 .. Len(s) - 1
        /\ \A i \in 1 .. Len(s) - 1 : (i < r => u[i] = s[i]) /\ (i >= r => u[i] = s[i + 1])
    BY ZenonT(60), <1>3, <2>1, Removed
  <2>3. c \in DOMAIN ebc' => Procs(c)' = u
    BY <1>2, <2>1 DEF SlotDropped
  <2> QED  BY <2>2, <2>3
<1> DEFINE To == [j \in 1 .. Len(s) |-> IF j < r THEN j ELSE j - 1]
<1>5. PICK to : to = To
  OBVIOUS
<1>6. \A j \in 1 .. Len(s) : (j < r => to[j] = j) /\ (j >= r => to[j] = j - 1)
  BY <1>3, <1>5
<1> HIDE DEF To
<1>7. \A tx : \A j \in ProcsOf(c, tx) \ {r} : c \in DOMAIN ebc' => to[j] \in ProcsOf(c, tx)'
  <2> SUFFICES ASSUME NEW tx, NEW j \in ProcsOf(c, tx) \ {r}, c \in DOMAIN ebc'
               PROVE  to[j] \in ProcsOf(c, tx)'
    OBVIOUS
  <2>1. j \in 1 .. Len(s) /\ j # r /\ HasTrxnId(s[j], tx)
    BY <1>2, <1>3 DEF ProcsOf
  <2>2. to[j] \in 1 .. Len(s) - 1 /\ Procs(c)'[to[j]] = s[j]
    <3>1. CASE j < r
      BY <1>3, <1>4, <1>6, <2>1, <3>1
    <3>2. CASE j > r
      BY <1>3, <1>4, <1>6, <2>1, <3>2
    <3> QED  BY <1>3, <2>1, <3>1, <3>2
  <2> QED  BY <1>4, <2>1, <2>2 DEF ProcsOf
<1>8. \A j, k \in 1 .. Len(s) : j # r /\ k # r /\ to[j] = to[k] => j = k
  <2> SUFFICES ASSUME NEW j \in 1 .. Len(s), NEW k \in 1 .. Len(s), j # r, k # r, to[j] = to[k]
               PROVE  j = k
    OBVIOUS
  <2>1. (j < r => to[j] = j) /\ (j >= r => to[j] = j - 1)
    BY <1>6
  <2>2. (k < r => to[k] = k) /\ (k >= r => to[k] = k - 1)
    BY <1>6
  <2> QED  BY <1>3, <2>1, <2>2
<1>9. \A d \in DOMAIN ebc' \ {c} : \A tx : ProcsOf(d, tx)' = ProcsOf(d, tx)
  BY DEF ProcsOf, SlotDropped
<1>10. x.tx # 0 /\ s[r].type = x.type /\ HasTrxnId(s[r], x.tx)
  BY <1>2, FoundType DEF Found
\* A request that would find procedure r is x, or is of the same delete request.
<1>11. ASSUME NEW y \in s5s8, Live(y.teid), s5s8lteid2sgw_contexts[y.teid] = c, y.type # "modify",
              HasTrxnId(s[r], y.tx)
       PROVE  y.type = x.type /\ y.tx = x.tx
  <2>1. y.tx # 0
    BY <1>11 DEF Transactions, DefaultTxGone
  <2>2. s[r].type = y.type
    BY <1>2, <1>11, <2>1 DEF Transactions, OneType, Found
  <2> QED  BY <1>10, <1>11, <2>2 DEF HasTrxnId
<1>12. DeletesFind'
  <2> SUFFICES ASSUME NEW d \in DOMAIN ebc', NEW tx \in 1 .. uid
               PROVE  \E f \in [OpenDeletes(d, tx)' -> ProcsOf(d, tx)'] :
                        \A y, z \in OpenDeletes(d, tx)' : f[y] = f[z] => y = z
    BY <1>1 DEF DeletesFind
  <2>1. OpenDeletes(d, tx)' \subseteq OpenDeletes(d, tx) \ {x}
    BY <1>1 DEF OpenDeletes, LiveStill, Live
  <2>2. d \in DOMAIN ebc
    BY DEF SlotDropped
  <2>3. PICK f \in [OpenDeletes(d, tx) -> ProcsOf(d, tx)] :
          \A y, z \in OpenDeletes(d, tx) : f[y] = f[z] => y = z
    BY <2>2 DEF DeletesFind
  <2>4. CASE d # c
    <3> DEFINE g == [y \in OpenDeletes(d, tx)' |-> f[y]]
    <3>1. g \in [OpenDeletes(d, tx)' -> ProcsOf(d, tx)']
      BY <1>9, <2>1, <2>3, <2>4
    <3>2. \A y, z \in OpenDeletes(d, tx)' : g[y] = g[z] => y = z
      BY <2>1, <2>3
    <3> HIDE DEF g
    <3> QED  BY <3>1, <3>2
  <2>5. CASE d = c
    <3>1. \A y \in OpenDeletes(c, tx) : f[y] = r => x \in OpenDeletes(c, tx)
      <4> SUFFICES ASSUME NEW y \in OpenDeletes(c, tx), f[y] = r
                   PROVE  x \in OpenDeletes(c, tx)
        OBVIOUS
      <4>1. HasTrxnId(s[r], tx)
        BY <1>2, <2>3, <2>5 DEF ProcsOf
      <4>2. /\ y \in s5s8 /\ Live(y.teid) /\ s5s8lteid2sgw_contexts[y.teid] = c
            /\ y.type = "delete" /\ y.tx = tx
        BY DEF OpenDeletes
      <4>3. x.type = "delete" /\ x.tx = tx
        BY <1>11, <4>1, <4>2
      <4> QED  BY <4>3 DEF OpenDeletes, Found
    <3> DEFINE H == [y \in OpenDeletes(c, tx)' |-> IF f[y] = r THEN f[x] ELSE f[y]]
    <3>2. PICK h : h = H
      OBVIOUS
    <3>3. \A y \in OpenDeletes(c, tx)' : (f[y] = r => h[y] = f[x]) /\ (f[y] # r => h[y] = f[y])
      BY <3>2
    <3> HIDE DEF H
    <3>4. \A y \in OpenDeletes(c, tx)' : h[y] \in ProcsOf(c, tx) \ {r}
      <4> SUFFICES ASSUME NEW y \in OpenDeletes(c, tx)' PROVE h[y] \in ProcsOf(c, tx) \ {r}
        OBVIOUS
      <4>1. y \in OpenDeletes(c, tx) /\ y # x
        BY <2>1, <2>5
      <4>2. CASE f[y] = r
        <5>1. x \in OpenDeletes(c, tx) /\ f[x] # r
          BY <2>3, <2>5, <3>1, <4>1, <4>2
        <5> QED  BY <2>3, <2>5, <3>3, <4>2, <5>1
      <4>3. CASE f[y] # r
        BY <2>3, <2>5, <3>3, <4>1, <4>3
      <4> QED  BY <4>2, <4>3
    <3>5. \A y, z \in OpenDeletes(c, tx)' : h[y] = h[z] => y = z
      <4> SUFFICES ASSUME NEW y \in OpenDeletes(c, tx)', NEW z \in OpenDeletes(c, tx)', h[y] = h[z]
                   PROVE  y = z
        OBVIOUS
      <4>1. y \in OpenDeletes(c, tx) /\ y # x /\ z \in OpenDeletes(c, tx) /\ z # x
        BY <2>1, <2>5
      <4>2. CASE f[y] = r \/ f[z] = r
        <5>1. x \in OpenDeletes(c, tx)
          BY <3>1, <4>1, <4>2
        <5> QED  BY <2>3, <2>5, <3>3, <4>1, <4>2, <5>1
      <4>3. CASE f[y] # r /\ f[z] # r
        BY <2>3, <2>5, <3>3, <4>1, <4>3
      <4> QED  BY <4>2, <4>3
    <3> DEFINE g == [y \in OpenDeletes(c, tx)' |-> to[h[y]]]
    <3>6. g \in [OpenDeletes(d, tx)' -> ProcsOf(d, tx)']
      BY <1>7, <2>5, <3>4
    <3>7. \A y \in OpenDeletes(c, tx)' : h[y] \in 1 .. Len(s) /\ h[y] # r
      BY <1>2, <1>3, <3>4 DEF ProcsOf
    <3>8. \A y, z \in OpenDeletes(d, tx)' : g[y] = g[z] => y = z
      BY <1>8, <2>5, <3>5, <3>7
    <3> HIDE DEF g
    <3> QED  BY <3>6, <3>8
  <2> QED  BY <2>4, <2>5
<1>13. OthersFind'
  <2> SUFFICES ASSUME NEW y \in s5s8', Live(y.teid)', y.type \in {"create", "release"},
                      NEW d, d = s5s8lteid2sgw_contexts'[y.teid]
               PROVE  ProcsOf(d, y.tx)' # {}
    BY DEF OthersFind
  <2>1. y \in s5s8 /\ y # x /\ Live(y.teid) /\ d = s5s8lteid2sgw_contexts[y.teid]
    BY <1>1 DEF LiveStill, Live
  <2>2. PICK k : k \in ProcsOf(d, y.tx)
    BY <2>1 DEF OthersFind
  <2>5. d \in DOMAIN ebc'
    BY DEF Tables, PdnsByTeid, Live
  <2>3. CASE d # c
    BY <1>9, <2>2, <2>3, <2>5
  <2>4. CASE d = c
    <3>1. k # r
      <4>1. SUFFICES ASSUME k = r PROVE FALSE
        OBVIOUS
      <4>2. HasTrxnId(s[r], y.tx)
        BY <1>2, <2>2, <2>4, <4>1 DEF ProcsOf
      <4>3. y.type = x.type /\ y.tx = x.tx
        BY <1>11, <2>1, <2>4, <4>2
      <4>4. y = x
        BY <1>10, <2>1, <4>3 DEF Transactions, OneRequest, Shared, Found
      <4> QED  BY <2>1, <4>4
    <3> QED  BY <1>7, <2>2, <2>4, <2>5, <3>1
  <2> QED  BY <2>3, <2>4
<1> QED  BY <1>12, <1>13
------------------------------------------------------------------------------
(* The ends of requests, one handler after the other *)

LEMMA AwaitedFound ==
  ASSUME ShapesOK, Tables, NEW x \in s5s8, Awaited(x)
  PROVE  \E c, r : /\ Found(x, c, r) /\ c = s5s8lteid2sgw_contexts[x.teid]
                   /\ r = FindProcedure(c, x.tx)
<1>1. PICK c : c = s5s8lteid2sgw_contexts[x.teid]
  OBVIOUS
<1>2. PICK r : r = FindProcedure(c, x.tx)
  OBVIOUS
<1>3. Live(x.teid) /\ r # 0
  BY <1>1, <1>2 DEF Awaited, Live
<1>4. c \in DOMAIN ebc
  BY <1>1, <1>3 DEF Tables, PdnsByTeid, Live
<1>5. Procs(c) \in Seq(ProcRecords)
  BY <1>4 DEF ShapesOK, EbcShape
<1>6. r \in DOMAIN Procs(c) /\ HasTrxnId(Procs(c)[r], x.tx)
  BY <1>2, <1>3, <1>5, FindResult
<1> QED  BY <1>1, <1>2, <1>3, <1>4, <1>6 DEF Found

\* What is not awaited no procedure waits for.
LEMMA IgnoredNotAwaited ==
  ASSUME ShapesOK, Tables, Waiting, NEW x \in s5s8, SlotsKept,
         UNCHANGED s5s8lteid2sgw_contexts, ~Awaited(x) \/ x.type = "release"
  PROVE  NotAwaited(x)
<1>1. \A d \in DOMAIN ebc : \A k \in DOMAIN Procs(d) :
        HasTrxnId(Procs(d)[k], x.tx) /\ Live(x.teid) /\ s5s8lteid2sgw_contexts[x.teid] = d => Awaited(x)
  <2> SUFFICES ASSUME NEW d \in DOMAIN ebc, NEW k \in DOMAIN Procs(d),
                      HasTrxnId(Procs(d)[k], x.tx), Live(x.teid), s5s8lteid2sgw_contexts[x.teid] = d
               PROVE  Awaited(x)
    OBVIOUS
  <2>1. Procs(d) \in Seq(ProcRecords)
    BY DEF ShapesOK, EbcShape
  <2>2. FindProcedure(d, x.tx) # 0
    BY <2>1, FindResult
  <2> QED  BY <2>2 DEF Awaited, Live
<1>2. \A d \in DOMAIN ebc : \A k \in DOMAIN Procs(d) :
        /\ Procs(d)[k].type = "delete" /\ Procs(d)[k].tx \notin unnamed /\ x.type = "delete"
           /\ x.tx = Procs(d)[k].tx /\ x.teid = Procs(d)[k].pdn /\ Live(x.teid) => Awaited(x)
        /\ Procs(d)[k].type = "modify" => \A b \in Procs(d)[k].pdn_bearers :
             x.type = "modify" /\ x.tx = b.tx /\ x.teid = b.pdn /\ Live(x.teid) => Awaited(x)
  BY <1>1 DEF Waiting, DeletesWait, ModifiesWait, Waits, HasTrxnId
<1>3. Live(x.teid)' <=> Live(x.teid)
  BY DEF Live
<1> QED  BY <1>2, <1>3 DEF NotAwaited, SlotsKept

LEMMA PlacedProcs ==
  ASSUME NEW c \in DOMAIN ebc, NEW imsi, NEW conns, NEW procs, Placed(c, imsi, conns, procs)
  PROVE  /\ DOMAIN ebc' = DOMAIN ebc /\ Procs(c)' = procs
         /\ \A d \in DOMAIN ebc \ {c} : Procs(d)' = Procs(d)
BY DEF Placed, Context, Procs

\* The invariant of the data, when only procedures and answers change.
LEMMA BaseEnded ==
  ASSUME Base, NEW x \in s5s8, End(x), Kept, NEW c \in DOMAIN ebc, NEW procs \in Seq(ProcRecords),
         Placed(c, ebc[c].imsi, Conns(c), procs), \A k \in DOMAIN procs : procs[k].tx <= uid,
         UNCHANGED <<tables, s5s8lteid2sgw_contexts>>, told' \subseteq told \cup {c},
         PdnShape', DOMAIN pdn' = DOMAIN pdn,
         \A t \in DOMAIN pdn : /\ pdn'[t].apn = pdn[t].apn
                               /\ \/ pdn'[t].pgw = pdn[t].pgw
                                  \/ t = x.teid /\ x.type = "create" /\ pdn'[t].pgw = x.tx,
         answers' = answers \/ \E tx \in 1 .. uid : Answer(tx)
  PROVE  Base'
<1> USE DEF Base
<1>1. /\ teid_s11_cp' = teid_s11_cp /\ teid_s5s8_cp' = teid_s5s8_cp /\ uid' = uid
      /\ unnamed' = unnamed /\ made' = made /\ s5s8' = s5s8 \ {x}
      /\ imsi2sgw_eps_bearer_context' = imsi2sgw_eps_bearer_context
      /\ s5s8lteid2sgw_contexts' = s5s8lteid2sgw_contexts
  BY DEF Kept, teids, End, tables
<1>2. IsMap(answers') /\ DOMAIN answers' \subseteq 1 .. uid
  <2>1. IsMap(answers) /\ DOMAIN answers \subseteq 1 .. uid
    BY DEF ShapesOK, Bounded
  <2>2. ASSUME NEW tx \in 1 .. uid, Answer(tx)
        PROVE  IsMap(answers') /\ DOMAIN answers' \subseteq 1 .. uid
    <3>1. IsMap(answers') /\ DOMAIN answers' = DOMAIN answers \cup {tx}
      BY <2>1, <2>2, AnswerDone
    <3> QED  BY <2>1, <3>1
  <2>3. CASE answers' = answers
    BY <2>1, <2>3 DEF IsMap
  <2> QED  BY <2>2, <2>3
<1>3. EbcShape'
  <2>1. EbcShape
    BY DEF ShapesOK
  <2>2. ebc[c].imsi \in IMSIs /\ IsMap(Conns(c)) /\ DOMAIN Conns(c) \subseteq APNs
    BY <2>1 DEF EbcShape
  <2> QED  BY <2>1, <2>2, EbcPlaced
<1>4. ShapesOK'
  BY <1>1, <1>2, <1>3 DEF ShapesOK, IsMap
<1>5. Tables'
  BY TablesKept
<1>6. DOMAIN ebc' = DOMAIN ebc /\ Procs(c)' = procs /\ \A d \in DOMAIN ebc \ {c} : Procs(d)' = Procs(d)
  BY PlacedProcs
<1>7. Bounded'
  <2>1. DOMAIN ebc' \subseteq 1 .. teid_s11_cp' /\ told' \subseteq 1 .. teid_s11_cp'
    BY <1>1, <1>6 DEF Bounded
  <2>2. DOMAIN pdn' \subseteq 1 .. teid_s5s8_cp' /\ DOMAIN made' = 1 .. teid_s5s8_cp'
    BY <1>1 DEF Bounded
  <2>3. \A t \in DOMAIN pdn' : pdn'[t].pgw <= uid'
    BY <1>1 DEF Bounded
  <2>4. \A y \in s5s8' : y.tx <= uid' /\ y.teid \in 1 .. teid_s5s8_cp' /\ y.pgw <= uid'
                         /\ y.enb \in EnbFteids \cup {NoFteid}
    BY <1>1 DEF Bounded
  <2>5. \A d \in DOMAIN ebc' : \A k \in DOMAIN Procs(d)' : Procs(d)'[k].tx <= uid'
    <3> SUFFICES ASSUME NEW d \in DOMAIN ebc'
                 PROVE  \A k \in DOMAIN Procs(d)' : Procs(d)'[k].tx <= uid'
      OBVIOUS
    <3>1. CASE d = c
      BY <1>1, <1>6, <3>1
    <3>2. CASE d # c
      <4>1. d \in DOMAIN ebc /\ Procs(d)' = Procs(d) /\ uid' = uid
        BY <1>1, <1>6, <3>2
      <4>2. \A k \in DOMAIN Procs(d) : Procs(d)[k].tx <= uid
        BY <4>1 DEF Bounded
      <4> QED  BY <4>1, <4>2
    <3> QED  BY <3>1, <3>2
  <2> QED  BY <1>1, <1>2, <2>1, <2>2, <2>3, <2>4, <2>5 DEF Bounded
<1>8. CreatesOwn'
  BY <1>1 DEF CreatesOwn, OwnSession
<1> QED  BY <1>4, <1>5, <1>7, <1>8

LEMMA EndedStill ==
  ASSUME NEW x \in s5s8, End(x), Kept, UNCHANGED s5s8lteid2sgw_contexts
  PROVE  Ended(x)
BY DEF End, Kept, Ended, LiveStill, Live, teids

\* IgnoreEnd
LEMMA IgnoreEndInv ==
  ASSUME IInv, NEW x \in s5s8, IgnoreEnd(x), ~Awaited(x) \/ x.type = "release"
  PROVE  IInv'
<1> USE DEF IInv, Base
<1>1. /\ End(x) /\ Kept /\ ebc' = ebc /\ pdn' = pdn /\ told' = told /\ answers' = answers
      /\ s5s8lteid2sgw_contexts' = s5s8lteid2sgw_contexts
      /\ UNCHANGED tables
  BY DEF IgnoreEnd
<1>2. /\ teid_s11_cp' = teid_s11_cp /\ teid_s5s8_cp' = teid_s5s8_cp /\ uid' = uid
      /\ unnamed' = unnamed /\ made' = made /\ s5s8' = s5s8 \ {x}
      /\ imsi2sgw_eps_bearer_context' = imsi2sgw_eps_bearer_context
      /\ s11lteid2sgw_eps_bearer_context' = s11lteid2sgw_eps_bearer_context
  BY <1>1 DEF Kept, teids, End, tables
<1>3. SlotsKept
  BY <1>1 DEF SlotsKept, Procs
<1>4. Ended(x)
  BY <1>1, EndedStill
<1>5. NotAwaited(x)
  BY <1>1, <1>3, IgnoredNotAwaited
<1>6. ShapesOK'
  BY <1>1, <1>2 DEF ShapesOK, EbcShape, PdnShape, IsMap, Conns, Procs
<1>7. Tables'
  BY <1>1, <1>2 DEF Tables, ContextsByTeid, ContextsByImsi, PdnsByTeid, PdnsByApn, SomePdn, Conns
<1>8. Bounded' /\ CreatesOwn'
  BY <1>1, <1>2 DEF Bounded, CreatesOwn, OwnSession, Procs
<1>9. PICK src : SlotsInherit(src)
  BY <1>3, KeptInherits
<1>10. Transactions'
  BY <1>1, <1>4, <1>6, <1>9, TransactionsEnd
<1>11. DeletesWait' /\ ModifiesWait'
  BY <1>4, <1>5, <1>9, WaitsEnd
<1>12. FindsOn
  BY <1>3 DEF FindsOn, ProcsOf, SlotsKept
<1>13. DeletesFind' /\ OthersFind'
  BY <1>3, <1>4, <1>12, FindsKept DEF SlotsKept
<1> QED  BY <1>6, <1>7, <1>8, <1>10, <1>11, <1>13 DEF Waiting
\* The end of a request that ends its connection and answers the MME.
LEMMA ClosedInv ==
  ASSUME IInv, NEW x, NEW c, NEW r, Found(x, c, r), x.type \in {"create", "delete"},
         End(x), Kept, EndPdn(x.teid, RemoveAt(Procs(c), r)), Answer(x.tx), told' \subseteq told \cup {c}
  PROVE  IInv'
<1> USE DEF IInv, Base
<1>1. /\ teid_s11_cp' = teid_s11_cp /\ teid_s5s8_cp' = teid_s5s8_cp /\ uid' = uid
      /\ unnamed' = unnamed /\ made' = made /\ s5s8' = s5s8 \ {x}
  BY DEF Kept, teids, End
<1>2. PICK t : t = x.teid
  OBVIOUS
<1>3. t \in DOMAIN pdn /\ s5s8lteid2sgw_contexts[t] = c /\ c \in DOMAIN ebc /\ x \in s5s8
  BY <1>2 DEF Found, Live, Tables, PdnsByTeid
<1>4. PICK procs : procs = RemoveAt(Procs(c), r)
  OBVIOUS
<1>5. /\ procs \in Seq(ProcRecords)
      /\ DOMAIN procs = 1 .. Len(Procs(c)) - 1
      /\ \A i \in DOMAIN procs : procs[i].tx <= uid
  <2>1. PICK s : s = Procs(c)
    OBVIOUS
  <2>2. s \in Seq(ProcRecords) /\ r \in DOMAIN s /\ \A i \in DOMAIN s : s[i].tx <= uid
    BY <1>3, <2>1 DEF ShapesOK, EbcShape, Found, Bounded
  <2>3. /\ procs \in Seq(ProcRecords) /\ DOMAIN procs = 1 .. Len(s) - 1
        /\ \A i \in 1 .. Len(s) - 1 : (i < r => procs[i] = s[i]) /\ (i >= r => procs[i] = s[i + 1])
    BY <1>4, <2>1, <2>2, Removed
  <2>4. \A i \in 1 .. Len(s) - 1 : i \in DOMAIN s /\ i + 1 \in DOMAIN s /\ i \in Int /\ r \in Int
    BY <2>2
  <2>5. \A i \in DOMAIN procs : procs[i].tx <= uid
    BY SMTT(60), <2>2, <2>3, <2>4
  <2> QED  BY <2>1, <2>3, <2>5
<1>6. /\ pdn' = MapErase(pdn, t)
      /\ s5s8lteid2sgw_contexts' = MapErase(s5s8lteid2sgw_contexts, t)
      /\ ContextKept(c, t, procs) \/ ContextGone(c, t)
  <2>1. EndPdn(t, procs)
    BY <1>2, <1>4
  <2>2. EbcShape
    BY DEF ShapesOK
  <2> QED  BY <1>3, <2>1, <2>2, EndPdnDone
<1>7. Tables'
  <2>1. EndPdn(t, procs)
    BY <1>2, <1>4
  <2>2. EbcShape
    BY DEF ShapesOK
  <2> QED  BY <1>3, <2>1, <2>2, TablesClosed
<1>8. DOMAIN pdn' = DOMAIN pdn \ {t} /\ \A u \in DOMAIN pdn \ {t} : pdn'[u] = pdn[u]
  BY <1>6 DEF MapErase
<1>9. /\ DOMAIN s5s8lteid2sgw_contexts' = DOMAIN pdn \ {t}
      /\ \A u \in DOMAIN pdn \ {t} : s5s8lteid2sgw_contexts'[u] = s5s8lteid2sgw_contexts[u]
  BY <1>6 DEF MapErase, Tables, PdnsByTeid
<1>10. /\ DOMAIN ebc' \subseteq DOMAIN ebc
       /\ \A d \in DOMAIN ebc' \ {c} : Procs(d)' = Procs(d)
       /\ c \in DOMAIN ebc' => Procs(c)' = procs
       /\ EbcShape'
       /\ DOMAIN imsi2sgw_eps_bearer_context' \subseteq IMSIs
       /\ IsMap(imsi2sgw_eps_bearer_context')
  <2>1. EbcShape /\ ebc[c].imsi \in IMSIs /\ IsMap(Conns(c)) /\ DOMAIN Conns(c) \subseteq APNs
        /\ IsMap(imsi2sgw_eps_bearer_context) /\ DOMAIN imsi2sgw_eps_bearer_context \subseteq IMSIs
    BY <1>3 DEF ShapesOK, EbcShape
  <2>2. CASE ContextKept(c, t, procs)
    <3>1. PICK conns : conns = MapErase(Conns(c), pdn[t].apn)
      OBVIOUS
    <3>2. IsMap(conns) /\ DOMAIN conns \subseteq APNs
      BY <2>1, <3>1 DEF MapErase, IsMap
    <3>3. Placed(c, ebc[c].imsi, conns, procs)
          /\ imsi2sgw_eps_bearer_context' = imsi2sgw_eps_bearer_context
      BY <2>2, <3>1 DEF ContextKept
    <3>4. EbcShape'
      BY <1>5, <2>1, <3>2, <3>3, EbcPlaced
    <3>5. DOMAIN ebc' = DOMAIN ebc /\ Procs(c)' = procs /\ \A d \in DOMAIN ebc \ {c} : Procs(d)' = Procs(d)
      BY <1>3, <3>3, PlacedProcs
    <3> QED  BY <2>1, <3>3, <3>4, <3>5 DEF IsMap
  <2>3. CASE ContextGone(c, t)
    <3>1. EbcShape'
      BY <2>1, <2>3, EbcErased DEF ContextGone
    <3>2. DOMAIN ebc' = DOMAIN ebc \ {c} /\ \A d \in DOMAIN ebc' : Procs(d)' = Procs(d)
      BY <2>3 DEF ContextGone, MapErase, Procs
    <3>3. imsi2sgw_eps_bearer_context' = MapErase(imsi2sgw_eps_bearer_context, ebc[c].imsi)
      BY <2>3 DEF ContextGone
    <3>4. /\ DOMAIN imsi2sgw_eps_bearer_context' \subseteq IMSIs
          /\ IsMap(imsi2sgw_eps_bearer_context')
      BY <2>1, <3>3 DEF MapErase, IsMap
    <3> QED  BY <3>1, <3>2, <3>4
  <2> QED  BY <1>6, <2>2, <2>3
<1>11. x.tx # 0 /\ Procs(c)[r].type = x.type
  BY FoundType
<1>12. x.tx \in 1 .. uid
  BY <1>3, <1>11 DEF Bounded, ShapesOK, Requests
<1>13. IsMap(answers') /\ DOMAIN answers' = DOMAIN answers \cup {x.tx}
  <2>1. IsMap(answers)
    BY DEF ShapesOK
  <2> QED  BY <2>1, AnswerDone
<1>14. ShapesOK'
  <2>1. PdnShape' /\ IsMap(s5s8lteid2sgw_contexts')
    BY <1>6, <1>8 DEF ShapesOK, PdnShape, IsMap, MapErase
  <2>2. s5s8' \subseteq Requests /\ IsMap(made')
    BY <1>1 DEF ShapesOK, IsMap
  <2> QED  BY <1>1, <1>10, <1>13, <2>1, <2>2 DEF ShapesOK
<1>15. Bounded'
  <2>1. DOMAIN ebc' \subseteq 1 .. teid_s11_cp' /\ told' \subseteq 1 .. teid_s11_cp'
    BY <1>1, <1>3, <1>10 DEF Bounded
  <2>2. DOMAIN pdn' \subseteq 1 .. teid_s5s8_cp' /\ DOMAIN made' = 1 .. teid_s5s8_cp'
    BY <1>1, <1>8 DEF Bounded
  <2>3. \A u \in DOMAIN pdn' : pdn'[u].pgw <= uid'
    BY <1>1, <1>8 DEF Bounded
  <2>4. \A y \in s5s8' : y.tx <= uid' /\ y.teid \in 1 .. teid_s5s8_cp' /\ y.pgw <= uid'
                         /\ y.enb \in EnbFteids \cup {NoFteid}
    BY <1>1 DEF Bounded
  <2>5. \A d \in DOMAIN ebc' : \A k \in DOMAIN Procs(d)' : Procs(d)'[k].tx <= uid'
    BY <1>1, <1>5, <1>10 DEF Bounded
  <2>6. DOMAIN answers' \subseteq 1 .. uid' /\ unnamed' \subseteq 1 .. uid'
    BY <1>1, <1>12, <1>13 DEF Bounded
  <2> QED  BY <2>1, <2>2, <2>3, <2>4, <2>5, <2>6 DEF Bounded
<1>16. CreatesOwn'
  BY <1>1, <1>8 DEF CreatesOwn, OwnSession
<1>17. SlotDropped(c, r)
  BY <1>4, <1>10 DEF SlotDropped
<1>18. Ended(x)
  BY <1>1, <1>3, <1>9 DEF Ended, LiveStill, Live, Tables, PdnsByTeid
<1>19. r \in DOMAIN Procs(c)
  BY DEF Found
<1>20. PICK src : SlotsInherit(src)
  BY <1>3, <1>17, <1>19, DroppedInherits
<1>21. LastAnswer(x.tx)
  <2>1. x.tx \in DOMAIN answers => x.tx \in unnamed
    BY <1>3 DEF Transactions, NoSecondAnswer
  <2>2. \A y \in s5s8' : y.tx = x.tx => y.type # "create" /\ (y.type = "delete" => x.tx \in unnamed)
    BY <1>1, <1>3, <1>11 DEF Transactions, OneRequest, Shared
  <2>3. ASSUME NEW d \in DOMAIN ebc', NEW k \in DOMAIN Procs(d)', Procs(d)'[k].tx = x.tx
        PROVE  /\ Procs(d)'[k].type # "modify"
               /\ Procs(d)'[k].type = "release" => Procs(d)'[k].bearers <= 0
    <3>1. /\ d \in DOMAIN ebc /\ src[d][k] \in DOMAIN Procs(d)
          /\ HasTrxnId(Procs(d)[src[d][k]], x.tx) /\ Procs(d)'[k].type = Procs(d)[src[d][k]].type
      BY <1>20, <2>3 DEF SlotsInherit, HasTrxnId
    <3>2. Procs(d)[src[d][k]].type = x.type
      BY <1>3, <1>11, <3>1 DEF Transactions, OneType
    <3> QED  BY <3>1, <3>2
  <2> QED  BY <1>12, <2>1, <2>2, <2>3 DEF LastAnswer
<1>22. Transactions'
  BY <1>14, <1>18, <1>20, <1>21, TransactionsEnd
<1>23. NotAwaited(x)
  BY <1>2, <1>9 DEF NotAwaited, Live
<1>24. DeletesWait' /\ ModifiesWait'
  BY <1>18, <1>20, <1>23, WaitsEnd
<1>25. DeletesFind' /\ OthersFind'
  BY <1>7, <1>17, <1>18, FindsDropped
<1> QED  BY <1>7, <1>14, <1>15, <1>16, <1>22, <1>24, <1>25 DEF Waiting

\* The end of a request whose procedure goes, while the connections stay.
LEMMA DroppedInv ==
  ASSUME IInv, NEW x, NEW c, NEW r, Found(x, c, r), x.type \in {"create", "delete", "modify"},
         End(x), Kept, Placed(c, ebc[c].imsi, Conns(c), RemoveAt(Procs(c), r)),
         UNCHANGED <<tables, s5s8lteid2sgw_contexts>>, told' \subseteq told \cup {c},
         PdnShape', DOMAIN pdn' = DOMAIN pdn,
         \A t \in DOMAIN pdn : /\ pdn'[t].apn = pdn[t].apn
                               /\ \/ pdn'[t].pgw = pdn[t].pgw
                                  \/ t = x.teid /\ x.type = "create" /\ pdn'[t].pgw = x.tx,
         answers' = answers \/ (x.type # "delete" /\ Answer(Procs(c)[r].tx))
  PROVE  IInv'
<1> USE DEF IInv
<1>1. /\ x \in s5s8 /\ c \in DOMAIN ebc /\ r \in DOMAIN Procs(c)
      /\ HasTrxnId(Procs(c)[r], x.tx) /\ x.tx # 0 /\ Procs(c)[r].type = x.type
  <2>1. ShapesOK
    BY DEF Base
  <2> QED  BY <2>1, FoundType DEF Found
<1>2. ShapesOK /\ Tables /\ Bounded
  BY DEF Base
<1>3. PICK procs : procs = RemoveAt(Procs(c), r)
  OBVIOUS
<1>4. /\ procs \in Seq(ProcRecords)
      /\ \A i \in DOMAIN procs : procs[i].tx <= uid
  <2>1. PICK s : s = Procs(c)
    OBVIOUS
  <2>2. s \in Seq(ProcRecords) /\ r \in DOMAIN s /\ \A i \in DOMAIN s : s[i].tx <= uid
    BY <1>1, <1>2, <2>1 DEF ShapesOK, EbcShape, Bounded
  <2>3. /\ procs \in Seq(ProcRecords) /\ DOMAIN procs = 1 .. Len(s) - 1
        /\ \A i \in 1 .. Len(s) - 1 : (i < r => procs[i] = s[i]) /\ (i >= r => procs[i] = s[i + 1])
    BY SMTT(60), <1>3, <2>1, <2>2, Removed
  <2>4. \A i \in 1 .. Len(s) - 1 : i \in DOMAIN s /\ i + 1 \in DOMAIN s /\ i \in Int /\ r \in Int
    BY <2>2
  <2>5. \A i \in DOMAIN procs : procs[i].tx <= uid
    <3> SUFFICES ASSUME NEW i \in DOMAIN procs
                 PROVE  procs[i].tx <= uid
      OBVIOUS
    <3>1. i \in 1 .. Len(s) - 1 /\ i \in DOMAIN s /\ i + 1 \in DOMAIN s /\ i \in Int /\ r \in Int
      BY <2>3, <2>4
    <3>2. procs[i] = s[i] \/ procs[i] = s[i + 1]
      BY <2>3, <3>1
    <3> QED  BY <2>2, <3>1, <3>2
  <2> QED  BY <2>3, <2>5
<1>5. Placed(c, ebc[c].imsi, Conns(c), procs)
  BY <1>3
<1>6. DOMAIN ebc' = DOMAIN ebc /\ Procs(c)' = procs /\ \A d \in DOMAIN ebc \ {c} : Procs(d)' = Procs(d)
  BY <1>1, <1>5, PlacedProcs
<1>7. PICK tx : tx = Procs(c)[r].tx
  OBVIOUS
<1>8. /\ x.type = "create" => tx = x.tx
      /\ x.type # "delete" => tx \in 1 .. uid /\ HasTrxnId(Procs(c)[r], tx)
  <2>1. tx \in Nat /\ tx <= uid /\ uid \in Nat
    BY <1>1, <1>2, <1>7, ProcTypes DEF Bounded, ShapesOK
  <2>2. x.type = "create" => tx = x.tx
    BY <1>1, <1>7 DEF HasTrxnId
  <2>3. x.type = "modify" => tx # 0
    BY <1>1, <1>7 DEF Transactions, BearersOK
  <2> QED  BY <1>1, <1>7, <2>1, <2>2, <2>3 DEF HasTrxnId
<1>9. answers' = answers \/ (x.type # "delete" /\ Answer(tx))
  BY <1>7
<1>10. Base'
  <2>1. answers' = answers \/ \E u \in 1 .. uid : Answer(u)
    BY <1>8, <1>9
  <2> QED  BY <1>1, <1>4, <1>5, <2>1, BaseEnded
<1>11. SlotDropped(c, r)
  BY <1>3, <1>6 DEF SlotDropped
<1>12. Ended(x)
  BY <1>1, EndedStill
<1>13. PICK src : /\ SlotsInherit(src)
                  /\ c \in DOMAIN ebc' => \A k \in DOMAIN Procs(c)' : src[c][k] # r
  BY <1>1, <1>2, <1>11, DroppedInherits
<1>14. \A d \in DOMAIN ebc' : \A k \in DOMAIN Procs(d)' : \A u \in 1 .. uid :
         HasTrxnId(Procs(c)[r], u) /\ HasTrxnId(Procs(d)'[k], u) => Shared(x.type, u)
  <2> SUFFICES ASSUME NEW d \in DOMAIN ebc', NEW k \in DOMAIN Procs(d)', NEW u \in 1 .. uid,
                      HasTrxnId(Procs(c)[r], u), HasTrxnId(Procs(d)'[k], u)
               PROVE  Shared(x.type, u)
    OBVIOUS
  <2>1. d \in DOMAIN ebc /\ src[d][k] \in DOMAIN Procs(d) /\ HasTrxnId(Procs(d)[src[d][k]], u)
    BY <1>13, InheritedTrxnId
  <2>2. d = c => src[d][k] # r
    BY <1>13
  <2> QED  BY <1>1, <2>1, <2>2 DEF Transactions, OneProcedure
<1>15. x.tx \in 1 .. uid
  BY <1>1, <1>2 DEF Bounded, ShapesOK, Requests
<1>16. ASSUME x.type # "delete" PROVE LastAnswer(tx)
  <2>1. tx \in 1 .. uid /\ tx # 0
    BY <1>8, <1>16
  <2>2. tx \notin DOMAIN answers
    BY <1>1, <1>7, <1>8, <1>16 DEF Transactions, NoSecondAnswer
  <2>3. ASSUME NEW y \in s5s8', y.tx = tx PROVE y.type # "create" /\ y.type # "delete"
    <3>1. y \in s5s8 /\ y # x
      BY DEF End
    <3>2. y.type = x.type
      BY <1>1, <1>8, <1>16, <2>1, <2>3, <3>1 DEF Transactions, OneType
    <3>3. x.type = "create" => y = x
      BY <1>1, <1>8, <2>3, <3>1, <3>2 DEF Transactions, OneRequest, Shared
    <3> QED  BY <1>16, <3>1, <3>2, <3>3
  <2>4. \A d \in DOMAIN ebc' : \A k \in DOMAIN Procs(d)' : Procs(d)'[k].tx # tx
    BY <1>8, <1>14, <1>16, <2>1 DEF HasTrxnId, Shared
  <2> QED  BY <2>1, <2>2, <2>3, <2>4 DEF LastAnswer
<1>17. Transactions'
  <2>1. ShapesOK'
    BY <1>10 DEF Base
  <2> QED  BY <1>2, <1>9, <1>12, <1>13, <1>16, <2>1, TransactionsEnd
<1>18. NotAwaited(x)
  BY <1>1, <1>14, <1>15 DEF NotAwaited, HasTrxnId, Shared
<1>19. DeletesWait' /\ ModifiesWait'
  BY <1>2, <1>12, <1>13, <1>18, WaitsEnd
<1>20. DeletesFind' /\ OthersFind'
  <2>1. Tables'
    BY <1>10 DEF Base
  <2> QED  BY <1>2, <1>11, <1>12, <2>1, FindsDropped
<1> QED  BY <1>10, <1>17, <1>19, <1>20 DEF Waiting

\* The end of a request whose procedure waits for the rest, or is counted down.
LEMMA ReducedInv ==
  ASSUME IInv, NEW x, NEW c, NEW r, NEW p, Found(x, c, r), x.type \in {"modify", "release"},
         End(x), Kept, Placed(c, ebc[c].imsi, Conns(c), [Procs(c) EXCEPT ![r] = p]),
         UNCHANGED <<tables, s5s8lteid2sgw_contexts>>, told' = told, pdn' = pdn,
         p \in ProcRecords, p.type = x.type, p.tx = Procs(c)[r].tx,
         x.type = "modify" => p.pdn_bearers = {b \in Procs(c)[r].pdn_bearers : b.tx # x.tx},
         x.type = "release" => p.bearers = Procs(c)[r].bearers - 1,
         \/ answers' = answers
         \/ x.type = "release" /\ Procs(c)[r].bearers = 1 /\ Answer(x.tx)
  PROVE  IInv'
<1> USE DEF IInv
<1>2. ShapesOK /\ Tables /\ Bounded
  BY DEF Base
<1>1. /\ x \in s5s8 /\ c \in DOMAIN ebc /\ r \in DOMAIN Procs(c)
      /\ HasTrxnId(Procs(c)[r], x.tx) /\ x.tx # 0 /\ Procs(c)[r].type = x.type
  BY <1>2, FoundType DEF Found
<1>3. PICK s : s = Procs(c)
  OBVIOUS
<1>4. s \in Seq(ProcRecords) /\ r \in DOMAIN s /\ \A i \in DOMAIN s : s[i].tx <= uid
  BY <1>1, <1>2, <1>3 DEF ShapesOK, EbcShape, Bounded
<1>5. PICK procs : procs = [s EXCEPT ![r] = p]
  OBVIOUS
<1>6. /\ procs \in Seq(ProcRecords) /\ DOMAIN procs = DOMAIN s /\ procs[r] = p
      /\ \A i \in DOMAIN s \ {r} : procs[i] = s[i]
  BY <1>4, <1>5
<1>7. Placed(c, ebc[c].imsi, Conns(c), procs)
  BY <1>3, <1>5
<1>8. DOMAIN ebc' = DOMAIN ebc /\ Procs(c)' = procs /\ \A d \in DOMAIN ebc \ {c} : Procs(d)' = Procs(d)
  BY <1>1, <1>7, PlacedProcs
<1>9. SlotReduced(c, r, p)
  <2>1. x.type = "release" => s[r].bearers \in Int
    BY <1>1, <1>2, <1>3, ProcTypes
  <2>2. x.type = "release" => p.bearers <= s[r].bearers
    BY <1>3, <2>1
  <2> QED  BY <1>1, <1>3, <1>6, <1>8, <2>2 DEF SlotReduced
<1>10. x.tx \in 1 .. uid
  BY <1>1, <1>2 DEF Bounded, ShapesOK, Requests
<1>11. Base'
  <2>1. answers' = answers \/ \E u \in 1 .. uid : Answer(u)
    BY <1>10
  <2>2. \A k \in DOMAIN procs : procs[k].tx <= uid
    BY <1>3, <1>4, <1>6
  <2>3. PdnShape'
    BY <1>2 DEF ShapesOK, PdnShape, IsMap
  <2>4. told' \subseteq told \cup {c}
    OBVIOUS
  <2> QED  BY <1>1, <1>6, <1>7, <2>1, <2>2, <2>3, <2>4, BaseEnded
<1>12. Ended(x)
  BY <1>1, EndedStill
<1>13. PICK src : /\ SlotsInherit(src)
                  /\ \A d \in DOMAIN ebc' : \A k \in DOMAIN Procs(d)' : src[d][k] = k
  BY <1>2, <1>9, ReducedInherits
<1>14. \A d \in DOMAIN ebc' : \A k \in DOMAIN Procs(d)' :
         HasTrxnId(Procs(d)'[k], x.tx) => d = c /\ k = r
  <2> SUFFICES ASSUME NEW d \in DOMAIN ebc', NEW k \in DOMAIN Procs(d)', HasTrxnId(Procs(d)'[k], x.tx)
               PROVE  d = c /\ k = r
    OBVIOUS
  <2>1. d \in DOMAIN ebc /\ k \in DOMAIN Procs(d) /\ HasTrxnId(Procs(d)[k], x.tx)
    BY <1>13, InheritedTrxnId
  <2> QED  BY <1>1, <1>10, <2>1 DEF Transactions, OneProcedure, Shared
<1>15. ASSUME x.type = "release", s[r].bearers = 1 PROVE LastAnswer(x.tx)
  <2>1. x.tx = s[r].tx
    BY <1>1, <1>3, <1>15 DEF HasTrxnId
  <2>2. x.tx \notin DOMAIN answers
    BY <1>1, <1>3, <1>15, <2>1 DEF Transactions, NoSecondAnswer
  <2>3. \A y \in s5s8' : y.tx = x.tx => y.type # "create" /\ y.type # "delete"
    BY <1>1, <1>15 DEF Transactions, OneRequest, End
  <2>4. ASSUME NEW d \in DOMAIN ebc', NEW k \in DOMAIN Procs(d)', Procs(d)'[k].tx = x.tx
        PROVE  Procs(d)'[k].type = "release" /\ Procs(d)'[k].bearers <= 0
    <3>1. d = c /\ k = r
      BY <1>14, <2>4 DEF HasTrxnId
    <3>2. Procs(d)'[k] = p
      BY <1>6, <1>8, <3>1
    <3>3. p.bearers = 0
      BY <1>3, <1>15
    <3> QED  BY <1>15, <3>2, <3>3
  <2> QED  BY <1>10, <2>2, <2>3, <2>4 DEF LastAnswer
<1>16. Transactions'
  <2>1. ShapesOK'
    BY <1>11 DEF Base
  <2>2. answers' = answers \/ (\E u : Answer(u) /\ LastAnswer(u))
    BY <1>3, <1>15
  <2> QED  BY <1>2, <1>12, <1>13, <2>1, <2>2, TransactionsEnd
<1>17. NotAwaited(x)
  <2>1. ASSUME NEW d \in DOMAIN ebc', NEW k \in DOMAIN Procs(d)', Procs(d)'[k].type = "modify",
               NEW b \in Procs(d)'[k].pdn_bearers, x.type = "modify", x.tx = b.tx
        PROVE  FALSE
    <3>1. d = c /\ k = r
      BY <1>14, <2>1 DEF HasTrxnId
    <3>2. Procs(d)'[k] = p
      BY <1>6, <1>8, <3>1
    <3> QED  BY <2>1, <3>2
  <2> QED  BY <2>1 DEF NotAwaited
<1>18. DeletesWait' /\ ModifiesWait'
  BY <1>2, <1>12, <1>13, <1>17, WaitsEnd
<1>19. FindsOn
  <2> SUFFICES ASSUME NEW y \in s5s8', NEW d \in DOMAIN ebc, Live(y.teid)', y.type # "modify",
                      NEW k \in DOMAIN Procs(d), HasTrxnId(Procs(d)[k], y.tx)
               PROVE  k \in DOMAIN Procs(d)' /\ HasTrxnId(Procs(d)'[k], y.tx)
    BY DEF FindsOn, ProcsOf
  <2>1. CASE d = c /\ k = r
    <3>1. y \in s5s8 /\ Live(y.teid)
      BY DEF End, Live
    <3>2. y.tx # 0
      BY <3>1 DEF Transactions, DefaultTxGone
    <3>3. x.type # "modify"
      BY <1>1, <2>1, <3>1, <3>2 DEF Transactions, OneType
    <3>4. p.tx = y.tx
      BY <1>1, <2>1, <3>3 DEF HasTrxnId
    <3> QED  BY <1>3, <1>4, <1>6, <1>8, <2>1, <3>4 DEF HasTrxnId
  <2>2. CASE ~(d = c /\ k = r)
    BY <1>3, <1>6, <1>8, <2>2
  <2> QED  BY <2>1, <2>2
<1>20. DeletesFind' /\ OthersFind'
  BY <1>2, <1>8, <1>12, <1>19, FindsKept
<1> QED  BY <1>11, <1>16, <1>18, <1>20 DEF Waiting

\* The TEID that PGW-C gave comes into a connection.
LEMMA PgwStored ==
  ASSUME PdnShape, NEW t, NEW n \in Nat,
         pdn' = [pdn EXCEPT ![t].pgw = n]
  PROVE  /\ PdnShape' /\ DOMAIN pdn' = DOMAIN pdn
         /\ \A u \in DOMAIN pdn : pdn'[u].apn = pdn[u].apn
              /\ (pdn'[u].pgw = pdn[u].pgw \/ (u = t /\ pdn'[u].pgw = n))
  BY ZenonT(60) DEF PdnShape, IsMap, PdnRecords

LEMMA CreateResponseInv ==
  ASSUME IInv, NEW x \in s5s8, NEW accepted \in BOOLEAN, CreateResponse(x, accepted)
  PROVE  IInv'
<1>1. CASE ~Awaited(x)
  BY <1>1, IgnoreEndInv DEF CreateResponse
<1>2. CASE Awaited(x)
  <2>1. ShapesOK /\ Tables
    BY DEF IInv, Base
  <2>2. PICK c, r : Found(x, c, r) /\ c = s5s8lteid2sgw_contexts[x.teid] /\ r = FindProcedure(c, x.tx)
    BY <1>2, <2>1, AwaitedFound
  <2>3. /\ x.type = "create" /\ End(x) /\ Kept /\ Answer(x.tx) /\ told' \subseteq told \cup {c}
        /\ IF accepted
           THEN /\ pdn' = [pdn EXCEPT ![x.teid].pgw = x.tx]
                /\ EndProcedure(x, RemoveAt(Procs(c), r))
           ELSE EndPdn(x.teid, RemoveAt(Procs(c), r))
    BY <1>2, <2>2 DEF CreateResponse, AnswerCreate, WithoutProcedure
  <2>4. CASE ~accepted
    BY <2>2, <2>3, <2>4, ClosedInv
  <2>5. CASE accepted
    <3>1. /\ ebc' = [ebc EXCEPT ![c].pending_procedures = RemoveAt(Procs(c), r)]
          /\ UNCHANGED <<tables, s5s8lteid2sgw_contexts>>
      BY <2>2, <2>3, <2>5 DEF EndProcedure
    <3>2. EbcShape /\ c \in DOMAIN ebc
      BY <2>1, <2>2 DEF ShapesOK, Found
    <3>3. Placed(c, ebc[c].imsi, Conns(c), RemoveAt(Procs(c), r))
      BY <3>1, <3>2, SetProcs
    <3>4. pdn' = [pdn EXCEPT ![x.teid].pgw = x.tx]
      BY <2>3, <2>5
    <3>5. PdnShape /\ x.tx \in Nat
      BY <2>1 DEF ShapesOK, Requests
    <3>6. PdnShape' /\ DOMAIN pdn' = DOMAIN pdn
          /\ \A t \in DOMAIN pdn : pdn'[t].apn = pdn[t].apn
               /\ (pdn'[t].pgw = pdn[t].pgw \/ (t = x.teid /\ pdn'[t].pgw = x.tx))
      BY ZenonT(60), <3>4, <3>5, PgwStored
    <3>7. Answer(Procs(c)[r].tx)
      <4>1. Procs(c)[r].type = "create"
        BY <2>1, <2>2, <2>3, FoundType DEF IInv
      <4>2. Procs(c)[r].tx = x.tx
        BY <2>2, <4>1 DEF Found, HasTrxnId
      <4> QED  BY <2>3, <4>2
    <3> QED  BY <2>2, <2>3, <3>1, <3>3, <3>6, <3>7, DroppedInv
  <2> QED  BY <2>4, <2>5
<1> QED  BY <1>1, <1>2

LEMMA DeleteResponseInv ==
  ASSUME IInv, NEW x \in s5s8, DeleteResponse(x)
  PROVE  IInv'
<1>1. CASE ~Awaited(x)
  BY <1>1, IgnoreEndInv DEF DeleteResponse
<1>2. CASE Awaited(x)
  <2>1. ShapesOK /\ Tables
    BY DEF IInv, Base
  <2>2. PICK c, r : Found(x, c, r) /\ c = s5s8lteid2sgw_contexts[x.teid] /\ r = FindProcedure(c, x.tx)
    BY <1>2, <2>1, AwaitedFound
  <2>3. /\ x.type = "delete" /\ End(x) /\ Kept /\ told' = told
        /\ Answer(Procs(c)[r].tx) /\ EndPdn(x.teid, RemoveAt(Procs(c), r))
    BY <1>2, <2>2 DEF DeleteResponse, WithoutProcedure
  <2>4. Procs(c)[r].tx = x.tx
    <3>1. Procs(c)[r].type = "delete"
      BY <2>1, <2>2, <2>3, FoundType DEF IInv
    <3> QED  BY <2>2, <3>1 DEF Found, HasTrxnId
  <2>5. Answer(x.tx)
    BY <2>3, <2>4
  <2> QED  BY <2>2, <2>3, <2>5, ClosedInv
<1> QED  BY <1>1, <1>2

LEMMA ModifyResponseInv ==
  ASSUME IInv, NEW x \in s5s8, NEW accepted \in BOOLEAN, ModifyResponse(x, accepted)
  PROVE  IInv'
<1>1. CASE ~Awaited(x)
  BY <1>1, IgnoreEndInv DEF ModifyResponse
<1>2. CASE Awaited(x)
  <2>1. ShapesOK /\ Tables
    BY DEF IInv, Base
  <2>2. PICK c, r : Found(x, c, r) /\ c = s5s8lteid2sgw_contexts[x.teid] /\ r = FindProcedure(c, x.tx)
    BY <1>2, <2>1, AwaitedFound
  <2>3. PICK left, s : s = Procs(c) /\ left = {b \in s[r].pdn_bearers : b.tx # x.tx}
    OBVIOUS
  <2>4. /\ x.type = "modify" /\ End(x) /\ Kept /\ UNCHANGED <<pdn, told>>
        /\ AnswerModify(s[r].tx, left)
        /\ EndProcedure(x, IF left = {} THEN RemoveAt(s, r) ELSE [s EXCEPT ![r].pdn_bearers = left])
    BY <1>2, <2>2, <2>3 DEF ModifyResponse
  <2>5. EbcShape /\ c \in DOMAIN ebc /\ s \in Seq(ProcRecords) /\ r \in DOMAIN s
    BY SMTT(60), <2>1, <2>2, <2>3 DEF ShapesOK, Found, EbcShape
  <2>6. CASE left = {}
    <3>1. /\ ebc' = [ebc EXCEPT ![c].pending_procedures = RemoveAt(s, r)]
          /\ UNCHANGED <<tables, s5s8lteid2sgw_contexts>>
      BY <2>2, <2>4, <2>6 DEF EndProcedure
    <3>2. Placed(c, ebc[c].imsi, Conns(c), RemoveAt(Procs(c), r))
      BY <2>3, <2>5, <3>1, SetProcs
    <3>3. Answer(Procs(c)[r].tx)
      BY <2>3, <2>4, <2>6 DEF AnswerModify
    <3>4. PdnShape' /\ DOMAIN pdn' = DOMAIN pdn
          /\ \A t \in DOMAIN pdn : pdn'[t].apn = pdn[t].apn /\ pdn'[t].pgw = pdn[t].pgw
      BY <2>1, <2>4 DEF ShapesOK, PdnShape, IsMap
    <3>5. told' \subseteq told \cup {c}
      BY <2>4
    <3> QED  BY <2>2, <2>4, <3>1, <3>2, <3>3, <3>4, <3>5, DroppedInv
  <2>7. CASE left # {}
    <3>1. PICK p : p = [s[r] EXCEPT !.pdn_bearers = left]
      OBVIOUS
    <3>2. /\ ebc' = [ebc EXCEPT ![c].pending_procedures = [s EXCEPT ![r] = p]]
          /\ UNCHANGED <<tables, s5s8lteid2sgw_contexts>>
      BY <2>2, <2>4, <2>7, <3>1 DEF EndProcedure
    <3>3. Placed(c, ebc[c].imsi, Conns(c), [Procs(c) EXCEPT ![r] = p])
      BY <2>3, <2>5, <3>2, SetProcs
    <3>4. s[r] \in ProcRecords /\ s[r].type = "modify"
      BY <2>1, <2>2, <2>3, <2>4, <2>5, FoundType DEF IInv
    <3>5. s[r] \in [type : {"modify"}, tx : Nat, pdn_bearers : SUBSET [tx : Nat, pdn : Nat]]
      BY <3>4 DEF ProcRecords
    <3>6. /\ p \in [type : {"modify"}, tx : Nat, pdn_bearers : SUBSET [tx : Nat, pdn : Nat]]
          /\ p.tx = s[r].tx /\ p.pdn_bearers = left
      BY <2>3, <3>1, <3>5
    <3>7. p \in ProcRecords /\ p.type = "modify"
      BY <3>6 DEF ProcRecords
    <3>8. UNCHANGED <<answers, pdn, told>>
      BY <2>4, <2>7 DEF AnswerModify
    <3> QED  BY <2>2, <2>3, <2>4, <3>2, <3>3, <3>6, <3>7, <3>8, ReducedInv
  <2> QED  BY <2>6, <2>7
<1> QED  BY <1>1, <1>2

LEMMA ReleaseResponseInv ==
  ASSUME IInv, NEW x \in s5s8, ReleaseResponse(x)
  PROVE  IInv'
<1>1. CASE ~Awaited(x)
  <2>1. IgnoreEnd(x)
    BY SMTT(60), <1>1 DEF ReleaseResponse
  <2> QED  BY Zenon, <1>1, <2>1, IgnoreEndInv
<1>2. CASE Awaited(x)
  <2>1. ShapesOK /\ Tables
    BY DEF IInv, Base
  <2>2. PICK c, r : Found(x, c, r) /\ c = s5s8lteid2sgw_contexts[x.teid] /\ r = FindProcedure(c, x.tx)
    BY <1>2, <2>1, AwaitedFound
  <2>3. PICK s, p : s = Procs(c) /\ p = [s[r] EXCEPT !.bearers = s[r].bearers - 1]
    OBVIOUS
  <2>4. /\ x.type = "release" /\ End(x) /\ Kept /\ UNCHANGED <<pdn, told>>
        /\ EndProcedure(x, [s EXCEPT ![r].bearers = @ - 1])
        /\ IF s[r].bearers = 1 THEN Answer(x.tx) ELSE UNCHANGED answers
    BY <1>2, <2>2, <2>3 DEF ReleaseResponse
  <2>5. EbcShape /\ c \in DOMAIN ebc /\ s \in Seq(ProcRecords) /\ r \in DOMAIN s
    BY <2>1, <2>2, <2>3 DEF ShapesOK, Found, EbcShape
  <2>6. /\ ebc' = [ebc EXCEPT ![c].pending_procedures = [s EXCEPT ![r] = p]]
        /\ UNCHANGED <<tables, s5s8lteid2sgw_contexts>>
    BY <2>2, <2>3, <2>4 DEF EndProcedure
  <2>7. Placed(c, ebc[c].imsi, Conns(c), [Procs(c) EXCEPT ![r] = p])
    BY <2>3, <2>5, <2>6, SetProcs
  <2>8. s[r] \in ProcRecords /\ s[r].type = "release"
    BY <2>1, <2>2, <2>3, <2>4, <2>5, FoundType DEF IInv
  <2>9. s[r] \in [type : {"release"}, tx : Nat, bearers : Int]
    BY <2>8 DEF ProcRecords
  <2>10. /\ p \in [type : {"release"}, tx : Nat, bearers : Int]
         /\ p.tx = s[r].tx /\ p.bearers = s[r].bearers - 1
    BY <2>3, <2>9
  <2>11. p \in ProcRecords /\ p.type = "release"
    BY <2>10 DEF ProcRecords
  <2>12. answers' = answers \/ (Procs(c)[r].bearers = 1 /\ Answer(x.tx))
    BY <2>3, <2>4
  <2> QED  BY SMTT(60), <2>2, <2>3, <2>4, <2>6, <2>7, <2>10, <2>11, <2>12, ReducedInv
<1> QED  BY <1>1, <1>2

LEMMA NotRespondingInv ==
  ASSUME IInv, NEW x \in s5s8, NotResponding(x)
  PROVE  IInv'
<1>1. CASE ~(CarriesLocalTeid(x) /\ Awaited(x))
  BY <1>1, IgnoreEndInv DEF NotResponding, CarriesLocalTeid
<1>2. CASE CarriesLocalTeid(x) /\ Awaited(x)
  <2>1. ShapesOK /\ Tables /\ x.type \in {"create", "delete", "modify"}
    BY <1>2 DEF IInv, Base, ShapesOK, Requests, CarriesLocalTeid
  <2>2. PICK c, r : Found(x, c, r) /\ c = s5s8lteid2sgw_contexts[x.teid] /\ r = FindProcedure(c, x.tx)
    BY <1>2, <2>1, AwaitedFound
  <2>3. /\ End(x) /\ Kept
        /\ x.type = "create" => /\ Answer(x.tx) /\ told' \subseteq told \cup {c}
                                /\ EndPdn(x.teid, RemoveAt(Procs(c), r))
        /\ x.type # "create" => /\ EndProcedure(x, RemoveAt(Procs(c), r))
                                /\ UNCHANGED <<pdn, told, answers>>
    BY <1>2, <2>2 DEF NotResponding, AnswerCreate, WithoutProcedure
  <2>4. CASE x.type = "create"
    BY <2>2, <2>3, <2>4, ClosedInv
  <2>5. CASE x.type # "create"
    <3>1. /\ ebc' = [ebc EXCEPT ![c].pending_procedures = RemoveAt(Procs(c), r)]
          /\ UNCHANGED <<tables, s5s8lteid2sgw_contexts>> /\ UNCHANGED <<pdn, told, answers>>
      BY <2>2, <2>3, <2>5 DEF EndProcedure
    <3>2. Placed(c, ebc[c].imsi, Conns(c), RemoveAt(Procs(c), r))
      BY <2>1, <2>2, <3>1, SetProcs DEF ShapesOK, Found
    <3>3. PdnShape' /\ DOMAIN pdn' = DOMAIN pdn
          /\ \A t \in DOMAIN pdn : pdn'[t].apn = pdn[t].apn /\ pdn'[t].pgw = pdn[t].pgw
      BY <2>1, <3>1 DEF ShapesOK, PdnShape, IsMap
    <3>4. told' \subseteq told \cup {c}
      BY <3>1
    <3> QED  BY <2>1, <2>2, <2>3, <3>1, <3>2, <3>3, <3>4, DroppedInv
  <2> QED  BY <2>4, <2>5
<1> QED  BY <1>1, <1>2

------------------------------------------------------------------------------
(* The requests of the MME and the notifications of PGW-C *)

\* A request that is answered at once.
LEMMA AnsweredInv ==
  ASSUME IInv, uid' = Tx, Answer(Tx),
         UNCHANGED <<tables, s5s8lteid2sgw_contexts, ebc, pdn, teids, s5s8, unnamed, told, made>>
  PROVE  IInv'
<1> USE DEF IInv, Base
<1>1. uid \in Nat /\ uid' = uid + 1 /\ Tx = uid + 1
  BY DEF ShapesOK, Tx
<1>2. /\ ebc' = ebc /\ pdn' = pdn /\ s5s8' = s5s8 /\ unnamed' = unnamed /\ told' = told /\ made' = made
      /\ s5s8lteid2sgw_contexts' = s5s8lteid2sgw_contexts
      /\ teid_s11_cp' = teid_s11_cp /\ teid_s5s8_cp' = teid_s5s8_cp
      /\ imsi2sgw_eps_bearer_context' = imsi2sgw_eps_bearer_context
      /\ s11lteid2sgw_eps_bearer_context' = s11lteid2sgw_eps_bearer_context
  BY DEF tables, teids
<1>3. Tx \notin DOMAIN answers /\ DOMAIN answers \subseteq 1 .. uid
  BY <1>1 DEF Bounded
<1>4. /\ IsMap(answers') /\ DOMAIN answers' = DOMAIN answers \cup {Tx}
      /\ \A u \in DOMAIN answers : answers'[u] = answers[u]
      /\ answers'[Tx] = 1
  <2>1. IsMap(answers)
    BY DEF ShapesOK
  <2> QED  BY <1>3, <2>1, AnswerDone
<1>5. \A c \in DOMAIN ebc : \A k \in DOMAIN Procs(c) : \A tx :
        HasTrxnId(Procs(c)[k], tx) => tx <= uid /\ tx \in Nat
  BY OldTransactions DEF Transactions
<1>6. \A c : Procs(c)' = Procs(c) /\ Conns(c)' = Conns(c)
  BY <1>2 DEF Procs, Conns
<1>7. \A t : Live(t)' <=> Live(t)
  BY <1>2 DEF Live
<1>8. ShapesOK'
  <2>1. EbcShape' /\ PdnShape'
    BY <1>2, <1>6 DEF ShapesOK, EbcShape, PdnShape, IsMap
  <2>2. /\ IsMap(imsi2sgw_eps_bearer_context') /\ IsMap(s5s8lteid2sgw_contexts')
        /\ IsMap(made')
    BY <1>2 DEF ShapesOK, IsMap
  <2> QED  BY <1>1, <1>2, <1>4, <2>1, <2>2 DEF ShapesOK
<1>9. Tables'
  BY <1>2, <1>6 DEF Tables, ContextsByTeid, ContextsByImsi, PdnsByTeid, PdnsByApn, SomePdn
<1>10. Bounded'
  <2>1. \A t \in DOMAIN pdn : pdn[t].pgw \in Nat
    BY DEF ShapesOK, PdnShape, PdnRecords
  <2>2. \A x \in s5s8 : x.tx \in Nat /\ x.pgw \in Nat
    BY DEF ShapesOK, Requests
  <2>3. \A c \in DOMAIN ebc : \A k \in DOMAIN Procs(c) : Procs(c)[k].tx \in Nat
    BY ProcTypes
  <2>4. \A t \in DOMAIN pdn : pdn[t].pgw <= uid + 1
    BY <1>1, <2>1 DEF Bounded
  <2>5. \A x \in s5s8 : x.tx <= uid + 1 /\ x.teid \in 1 .. teid_s5s8_cp /\ x.pgw <= uid + 1
                        /\ x.enb \in EnbFteids \cup {NoFteid}
    BY <1>1, <2>2 DEF Bounded
  <2>6. \A c \in DOMAIN ebc : \A k \in DOMAIN Procs(c) : Procs(c)[k].tx <= uid + 1
    BY <1>1, <2>3 DEF Bounded
  <2>7. DOMAIN answers' \subseteq 1 .. uid + 1 /\ unnamed \subseteq 1 .. uid + 1
    BY <1>1, <1>3, <1>4 DEF Bounded
  <2> QED  BY <1>1, <1>2, <1>6, <2>4, <2>5, <2>6, <2>7 DEF Bounded
<1>11. CreatesOwn'
  BY <1>2 DEF CreatesOwn, OwnSession
<1>12. Transactions'
  <2>1. DefaultTxGone' /\ OneType' /\ OneRequest'
    BY <1>2, <1>6, <1>7 DEF Transactions, DefaultTxGone, OneType, OneRequest, Shared
  <2>2. OneProcedure'
    <3>1. \A c \in DOMAIN ebc : \A k \in DOMAIN Procs(c) : \A tx \in 1 .. uid + 1 :
            HasTrxnId(Procs(c)[k], tx) => tx \in 1 .. uid
      BY <1>1, <1>5
    <3> QED  BY <1>1, <1>2, <1>6, <3>1 DEF Transactions, OneProcedure, Shared
  <2>3. BearersOK'
    BY <1>1, <1>2, <1>6 DEF Transactions, BearersOK
  <2>4. NoSecondAnswer'
    <3>1. \A x \in s5s8 : x.tx # Tx
      BY <1>1 DEF Bounded
    <3>2. \A c \in DOMAIN ebc : \A k \in DOMAIN Procs(c) : Procs(c)[k].tx # Tx
      BY <1>1 DEF Bounded
    <3> QED  BY <1>2, <1>4, <1>6, <3>1, <3>2 DEF Transactions, NoSecondAnswer
  <2>5. AnsweredOnce'
    BY <1>2, <1>4 DEF Transactions, AnsweredOnce
  <2> QED  BY <2>1, <2>2, <2>3, <2>4, <2>5 DEF Transactions
<1>13. Waiting'
  <2>1. \A c, tx : OpenDeletes(c, tx)' = OpenDeletes(c, tx) /\ ProcsOf(c, tx)' = ProcsOf(c, tx)
    BY <1>2, <1>6, <1>7 DEF OpenDeletes, ProcsOf
  <2>2. DeletesFind'
    <3> SUFFICES ASSUME NEW c \in DOMAIN ebc, NEW tx \in 1 .. uid + 1
                 PROVE  \E f \in [OpenDeletes(c, tx) -> ProcsOf(c, tx)] :
                          \A x, y \in OpenDeletes(c, tx) : f[x] = f[y] => x = y
      BY <1>1, <1>2, <2>1 DEF DeletesFind
    <3>1. CASE tx \in 1 .. uid
      BY <3>1 DEF Waiting, DeletesFind
    <3>2. CASE tx \notin 1 .. uid
      <4>1. OpenDeletes(c, tx) = {}
        BY <1>1, <3>2 DEF OpenDeletes, Bounded
      <4> DEFINE g == [y \in {} |-> 0]
      <4>2. g \in [OpenDeletes(c, tx) -> ProcsOf(c, tx)]
        BY <4>1
      <4> QED  BY <4>1, <4>2
    <3> QED  BY <3>1, <3>2
  <2>3. OthersFind'
    BY <1>2, <1>7, <2>1 DEF Waiting, OthersFind
  <2>4. DeletesWait' /\ ModifiesWait'
    BY <1>2, <1>6, <1>7 DEF Waiting, DeletesWait, ModifiesWait, Waits
  <2> QED  BY <2>2, <2>3, <2>4 DEF Waiting
<1> QED  BY <1>8, <1>9, <1>10, <1>11, <1>12, <1>13

\* A request that adds procedures to context c and requests to PGW-C, while
\* the connections stay.
LEMMA AskedBase ==
  ASSUME Base, NEW c \in DOMAIN ebc, NEW new \in Seq(ProcRecords), NEW xs, NEW n \in Nat, n > uid,
         Placed(c, ebc[c].imsi, Conns(c), Procs(c) \o new), \A i \in DOMAIN new : new[i].tx <= n,
         UNCHANGED <<tables, s5s8lteid2sgw_contexts, teids, told, answers, made>>,
         uid' = n, unnamed' \subseteq unnamed \cup {Tx}, s5s8' = s5s8 \cup xs, xs \subseteq Requests,
         \A x \in xs : /\ x.type # "create" /\ x.tx <= n /\ x.pgw <= uid
                       /\ x.teid \in 1 .. teid_s5s8_cp /\ x.enb \in EnbFteids \cup {NoFteid},
         PdnShape', DOMAIN pdn' = DOMAIN pdn,
         \A t \in DOMAIN pdn : pdn'[t].apn = pdn[t].apn /\ pdn'[t].pgw = pdn[t].pgw
  PROVE  Base'
<1> USE DEF Base
<1>1. /\ uid \in Nat /\ Tx = uid + 1 /\ told' = told /\ made' = made /\ answers' = answers
      /\ s5s8lteid2sgw_contexts' = s5s8lteid2sgw_contexts
      /\ teid_s11_cp' = teid_s11_cp /\ teid_s5s8_cp' = teid_s5s8_cp
      /\ imsi2sgw_eps_bearer_context' = imsi2sgw_eps_bearer_context
  BY DEF tables, teids, ShapesOK, Tx
<1>2. PICK s : s = Procs(c)
  OBVIOUS
<1>3. PICK procs : procs = s \o new
  OBVIOUS
<1>4. Placed(c, ebc[c].imsi, Conns(c), procs)
  BY <1>2, <1>3
<1>5. s \in Seq(ProcRecords) /\ \A i \in DOMAIN s : s[i].tx \in Nat /\ s[i].tx <= uid
  BY <1>2, ProcTypes DEF ShapesOK, EbcShape, Bounded
<1>6. procs \in Seq(ProcRecords) /\ \A i \in DOMAIN procs : procs[i].tx <= n
  <2>1. /\ procs \in Seq(ProcRecords) /\ DOMAIN procs = 1 .. Len(s) + Len(new)
        /\ \A i \in 1 .. Len(s) : procs[i] = s[i]
        /\ \A i \in 1 .. Len(new) : procs[Len(s) + i] = new[i]
    BY <1>3, <1>5, Joined
  <2>2. DOMAIN s = 1 .. Len(s) /\ DOMAIN new = 1 .. Len(new) /\ Len(s) \in Nat /\ Len(new) \in Nat
    BY <1>5
  <2>3. ASSUME NEW i \in DOMAIN procs PROVE procs[i].tx <= n
    <3>1. CASE i \in 1 .. Len(s)
      BY <1>1, <1>5, <2>1, <2>2, <3>1
    <3>2. CASE i \notin 1 .. Len(s)
      <4>1. i - Len(s) \in 1 .. Len(new) /\ i = Len(s) + (i - Len(s))
        BY <2>1, <2>2, <3>2
      <4>2. procs[i] = new[i - Len(s)]
        BY <2>1, <4>1
      <4> QED  BY <2>2, <4>1, <4>2
    <3> QED  BY <3>1, <3>2
  <2> QED  BY <2>1, <2>3
<1>7. EbcShape'
  <2>1. EbcShape /\ ebc[c].imsi \in IMSIs /\ IsMap(Conns(c)) /\ DOMAIN Conns(c) \subseteq APNs
    BY DEF ShapesOK, EbcShape
  <2> QED  BY <1>4, <1>6, <2>1, EbcPlaced
<1>8. ShapesOK'
  <2>1. IsMap(imsi2sgw_eps_bearer_context') /\ IsMap(s5s8lteid2sgw_contexts') /\ IsMap(made')
        /\ IsMap(answers')
    BY <1>1 DEF ShapesOK, IsMap
  <2> QED  BY <1>1, <1>7, <2>1 DEF ShapesOK
<1>9. Tables'
  BY TablesKept, <1>4
<1>10. DOMAIN ebc' = DOMAIN ebc /\ Procs(c)' = procs /\ \A d \in DOMAIN ebc \ {c} : Procs(d)' = Procs(d)
  BY <1>4, PlacedProcs
<1>11. Bounded'
  <2>1. \A t \in DOMAIN pdn : pdn[t].pgw \in Nat
    BY DEF ShapesOK, PdnShape, PdnRecords
  <2>2. \A x \in s5s8 \cup xs : x.tx \in Nat /\ x.pgw \in Nat
    BY DEF ShapesOK, Requests
  <2>3. \A d \in DOMAIN ebc : \A k \in DOMAIN Procs(d) : Procs(d)[k].tx \in Nat
    BY ProcTypes
  <2>4. \A t \in DOMAIN pdn' : pdn'[t].pgw <= n
    BY SMTT(60), <1>1, <2>1 DEF Bounded
  <2>5. \A x \in s5s8' : x.tx <= n /\ x.teid \in 1 .. teid_s5s8_cp /\ x.pgw <= n
                        /\ x.enb \in EnbFteids \cup {NoFteid}
    BY <1>1, <2>2 DEF Bounded
  <2>6. \A d \in DOMAIN ebc' : \A k \in DOMAIN Procs(d)' : Procs(d)'[k].tx <= n
    <3> SUFFICES ASSUME NEW d \in DOMAIN ebc'
                 PROVE  \A k \in DOMAIN Procs(d)' : Procs(d)'[k].tx <= n
      OBVIOUS
    <3>1. CASE d = c
      BY <1>6, <1>10, <3>1
    <3>2. CASE d # c
      <4>1. d \in DOMAIN ebc /\ Procs(d)' = Procs(d)
        BY <1>10, <3>2
      <4>2. \A k \in DOMAIN Procs(d) : Procs(d)[k].tx <= uid /\ Procs(d)[k].tx \in Nat
        BY <2>3, <4>1 DEF Bounded
      <4>3. uid \in Nat /\ n \in Nat /\ uid < n
        BY <1>1 DEF ShapesOK
      <4> QED  BY <4>1, <4>2, <4>3
    <3> QED  BY <3>1, <3>2
  <2>7. DOMAIN answers \subseteq 1 .. n /\ unnamed' \subseteq 1 .. n
    BY <1>1 DEF Bounded
  <2> QED  BY <1>1, <1>10, <2>4, <2>5, <2>6, <2>7 DEF Bounded
<1>12. CreatesOwn'
  BY <1>1 DEF CreatesOwn, OwnSession
<1> QED  BY <1>8, <1>9, <1>11, <1>12

LEMMA AskedInv ==
  ASSUME IInv, Base', NEW c \in DOMAIN ebc, NEW new \in Seq(ProcRecords), NEW xs, NEW typ, NEW n,
         Placed(c, ebc[c].imsi, Conns(c), Procs(c) \o new),
         \A base : SlotsAdded(c, new, base) => NewRequest(c, new, xs, typ, n, base),
         NewWaits(c, new, xs, typ)
  PROVE  IInv'
<1> USE DEF IInv
<1>1. ShapesOK /\ Tables /\ Bounded /\ EbcShape
  BY DEF Base, ShapesOK
<1>2. PICK base : SlotsAdded(c, new, base)
  BY <1>1, PlacedAdds
<1>3. NewRequest(c, new, xs, typ, n, base)
  BY <1>2
<1>4. Transactions'
  BY <1>1, <1>3, TransactionsRequest
<1>5. Waiting'
  BY <1>1, <1>3, WaitingRequest
<1> QED  BY <1>4, <1>5

LEMMA RefuseCreateInv ==
  ASSUME IInv, NEW teid, RefuseCreate(teid)
  PROVE  IInv'
<1>1. /\ uid' = Tx /\ Answer(Tx)
      /\ UNCHANGED <<tables, s5s8lteid2sgw_contexts, ebc, pdn, teids, s5s8, unnamed, told, made>>
  BY DEF RefuseCreate, Request, Asks
<1> QED  BY <1>1, AnsweredInv

\* A request that adds one procedure, e, with requests to PGW-C of its type.
OneAdded(c, e, xs, typ, n) ==
  /\ c \in DOMAIN ebc /\ e \in ProcRecords /\ n \in Nat /\ n > uid
  /\ ebc' = [ebc EXCEPT ![c].pending_procedures = Append(@, e)]
  /\ UNCHANGED <<tables, s5s8lteid2sgw_contexts, teids, told, answers, made, unnamed>>
  /\ uid' = n /\ s5s8' = s5s8 \cup xs /\ xs \subseteq Requests
  /\ typ \in {"ddn", "modify", "release"} /\ e.tx = Tx /\ e.type = typ
  /\ \A x \in xs : /\ x.type = typ /\ x.tx \in Tx .. n /\ x.pgw <= uid
                   /\ x.teid \in DOMAIN pdn /\ s5s8lteid2sgw_contexts[x.teid] = c
                   /\ x.enb \in EnbFteids \cup {NoFteid}
  /\ typ = "release" => \A x \in xs : x.tx = Tx
  /\ \A x, y \in xs : x.tx = y.tx => x = y \/ typ = "release"
  /\ typ = "modify" => \A b \in e.pdn_bearers :
       /\ b.tx \in Tx .. n /\ b.pdn \in DOMAIN pdn /\ s5s8lteid2sgw_contexts[b.pdn] = c
       /\ \E x \in xs : x.type = "modify" /\ x.tx = b.tx /\ x.teid = b.pdn
  /\ PdnShape' /\ DOMAIN pdn' = DOMAIN pdn
  /\ \A t \in DOMAIN pdn : pdn'[t].apn = pdn[t].apn /\ pdn'[t].pgw = pdn[t].pgw

LEMMA OneAsked ==
  ASSUME IInv, NEW c, NEW e, NEW xs, NEW typ, NEW n, OneAdded(c, e, xs, typ, n)
  PROVE  IInv'
<1> USE DEF OneAdded
<1>1. /\ Base /\ ShapesOK /\ Bounded /\ EbcShape /\ uid \in Nat /\ Tx = uid + 1
      /\ teid_s5s8_cp \in Nat /\ teid_s5s8_cp' = teid_s5s8_cp /\ unnamed' = unnamed
      /\ s5s8lteid2sgw_contexts' = s5s8lteid2sgw_contexts
  BY DEF IInv, Base, ShapesOK, Tx, teids
<1>2. PICK s, new : s = Procs(c) /\ new = <<e>>
  OBVIOUS
<1>3. s \in Seq(ProcRecords)
  BY <1>1, <1>2 DEF EbcShape
<1>4. new \in Seq(ProcRecords) /\ DOMAIN new = {1} /\ new[1] = e
  BY <1>2
<1>5. Append(s, e) = s \o new
  BY <1>2, <1>3
<1>6. ebc' = [ebc EXCEPT ![c].pending_procedures = s \o new]
  BY <1>2, <1>5 DEF Procs
<1>7. Placed(c, ebc[c].imsi, Conns(c), Procs(c) \o new)
  BY <1>1, <1>2, <1>6, SetProcs
<1>8. DOMAIN pdn \subseteq 1 .. teid_s5s8_cp /\ Tx <= n
  BY <1>1 DEF Bounded
<1>9. Base'
  <2>1. \A x \in xs : /\ x.type # "create" /\ x.tx <= n /\ x.pgw <= uid
                      /\ x.teid \in 1 .. teid_s5s8_cp /\ x.enb \in EnbFteids \cup {NoFteid}
    BY <1>1, <1>8
  <2>2. \A i \in DOMAIN new : new[i].tx <= n
    BY <1>4, <1>8
  <2>3. unnamed' \subseteq unnamed \cup {Tx}
    BY <1>1
  <2>4. UNCHANGED <<tables, s5s8lteid2sgw_contexts, teids, told, answers, made>>
    OBVIOUS
  <2> QED  BY <1>1, <1>4, <1>7, <2>1, <2>2, <2>3, <2>4, AskedBase
<1>10. ASSUME NEW base, SlotsAdded(c, new, base)
       PROVE  NewRequest(c, new, xs, typ, n, base)
  <2>1. LiveFrom
    BY <1>1 DEF LiveFrom, Live
  <2>2. Tx \notin unnamed
    BY <1>1 DEF Bounded
  <2>3. \A x \in xs : x.tx \in Tx .. n /\ x.type = typ
    OBVIOUS
  <2>4. \A i \in DOMAIN new : new[i].tx = Tx /\ new[i].type = typ
    BY <1>4
  <2>5. \A i \in DOMAIN new :
          new[i].type = "modify" => \A b \in new[i].pdn_bearers : b.tx \in Tx .. n
    BY <1>4
  <2>6. \A i, j \in DOMAIN new : i = j
    BY <1>4
  <2>7. \A x, y \in xs : x.tx = y.tx => x = y \/ typ = "release"
    OBVIOUS
  <2>8. answers' = answers
    OBVIOUS
  <2> QED  BY <1>1, <1>4, <1>10, <2>1, <2>2, <2>3, <2>4, <2>5, <2>6, <2>7, <2>8 DEF NewRequest
<1>11. NewWaits(c, new, xs, typ)
  <2>1. \A x \in xs : x.type \in {"create", "release"} => \E i \in DOMAIN new : HasTrxnId(new[i], x.tx)
    BY <1>4 DEF HasTrxnId
  <2>2. \A i \in DOMAIN new : new[i].type # "delete"
    BY <1>4
  <2>3. \A i \in DOMAIN new : new[i].type = "modify" => \A b \in new[i].pdn_bearers :
           /\ b.pdn <= teid_s5s8_cp'
           /\ s5s8lteid2sgw_contexts'[b.pdn] = c
           /\ \E x \in xs : x.type = "modify" /\ x.tx = b.tx /\ x.teid = b.pdn
    BY <1>1, <1>4, <1>8
  <2> QED  BY <1>1, <2>1, <2>2, <2>3 DEF NewWaits
<1> QED  BY <1>4, <1>7, <1>9, <1>10, <1>11, AskedInv

LEMMA DownlinkDataNotificationInv ==
  ASSUME IInv, NEW t, DownlinkDataNotification(t)
  PROVE  IInv'
<1>1. PICK c : c = s5s8lteid2sgw_contexts[t]
  OBVIOUS
<1>2. PICK e : e = NotificationProc(Tx)
  OBVIOUS
<1>3. /\ ShapesOK /\ uid \in Nat /\ Tx = uid + 1 /\ c \in DOMAIN ebc
  BY <1>1 DEF DownlinkDataNotification, IInv, Base, ShapesOK, Tables, PdnsByTeid, Tx
<1>4. /\ ebc' = [ebc EXCEPT ![c].pending_procedures = Append(@, e)]
      /\ UNCHANGED <<tables, s5s8lteid2sgw_contexts, teids, told, answers, made, unnamed>>
      /\ uid' = Tx /\ s5s8' = s5s8 \cup {} /\ pdn' = pdn
  BY <1>1, <1>2 DEF DownlinkDataNotification, Request, Asks
<1>5. e \in ProcRecords /\ e.tx = Tx /\ e.type = "ddn"
  BY <1>2, <1>3 DEF NotificationProc, ProcRecords
<1>6. PdnShape'
  BY <1>3, <1>4 DEF ShapesOK, PdnShape, IsMap
<1>7. Tx \in Nat /\ Tx > uid
  BY <1>3
<1>8. OneAdded(c, e, {}, "ddn", Tx)
  BY <1>3, <1>4, <1>5, <1>6, <1>7 DEF OneAdded
<1> QED  BY <1>8, OneAsked

\* The connections of a context, all or one that a bearer leads to.
LEMMA Connections ==
  ASSUME ShapesOK, Tables, Bounded, NEW c \in DOMAIN ebc
  PROVE  /\ \A a \in DOMAIN Conns(c) :
              /\ Conns(c)[a] \in DOMAIN pdn /\ s5s8lteid2sgw_contexts[Conns(c)[a]] = c
              /\ pdn[Conns(c)[a]].apn = a
         /\ \A e : \A t \in FindPdnConnection(c, e) :
              /\ t \in {Conns(c)[a] : a \in DOMAIN Conns(c)}
              /\ pdn[t].default_bearer = e
              /\ FindPdnConnection(c, e) = {t}
         /\ DOMAIN Conns(c) \subseteq Nat
         /\ IsFiniteSet(DOMAIN pdn)
<1>1. DOMAIN Conns(c) \subseteq Nat
  BY NamesAssumption DEF ShapesOK, EbcShape
<1>2. \A e : \A t \in FindPdnConnection(c, e) :
        /\ t \in {Conns(c)[a] : a \in DOMAIN Conns(c)}
        /\ pdn[t].default_bearer = e
        /\ FindPdnConnection(c, e) = {t}
  <2> SUFFICES ASSUME NEW e, NEW t \in FindPdnConnection(c, e)
               PROVE  /\ t \in {Conns(c)[a] : a \in DOMAIN Conns(c)}
                      /\ pdn[t].default_bearer = e
                      /\ FindPdnConnection(c, e) = {t}
    OBVIOUS
  <2>1. PICK a \in DOMAIN Conns(c) : /\ FindPdnConnection(c, e) = {Conns(c)[a]}
                                     /\ pdn[Conns(c)[a]].default_bearer = e
    BY <1>1, FindBearer
  <2> QED  BY <2>1
<1>3. IsFiniteSet(DOMAIN pdn)
  <2>1. IsFiniteSet(1 .. teid_s5s8_cp)
    BY FS_Interval DEF ShapesOK
  <2> QED  BY <2>1, FS_Subset DEF Bounded
<1>4. \A a \in DOMAIN Conns(c) :
        /\ Conns(c)[a] \in DOMAIN pdn /\ s5s8lteid2sgw_contexts[Conns(c)[a]] = c
        /\ pdn[Conns(c)[a]].apn = a
  BY DEF Tables, PdnsByApn
<1> QED  BY <1>1, <1>2, <1>3, <1>4

LEMMA ReleaseAccessBearersInv ==
  ASSUME IInv, NEW teid, ReleaseAccessBearersRequest(teid)
  PROVE  IInv'
<1>1. PICK c : c = s11lteid2sgw_eps_bearer_context[teid]
  OBVIOUS
<1>2. PICK conns : conns = {Conns(c)[a] : a \in DOMAIN Conns(c)}
  OBVIOUS
<1>3. /\ ShapesOK /\ Tables /\ Bounded /\ uid \in Nat /\ Tx = uid + 1 /\ c \in DOMAIN ebc
  BY <1>1 DEF ReleaseAccessBearersRequest, IInv, Base, ShapesOK, Tables, ContextsByTeid, Tx
<1>4. conns # {}
  BY <1>2, <1>3 DEF Tables, SomePdn
<1>5. PICK e, xs : /\ e = ReleaseProc(Tx, Cardinality(conns))
                   /\ xs = {ToPgw("release", Tx, t, pdn[t].pgw, NoFteid) : t \in conns}
  OBVIOUS
<1>6. /\ ebc' = [ebc EXCEPT ![c].pending_procedures = Append(@, e)]
      /\ UNCHANGED <<tables, s5s8lteid2sgw_contexts, teids, told, answers, made, unnamed>>
      /\ uid' = Tx /\ s5s8' = s5s8 \cup xs /\ pdn' = pdn
  <2>1. IF conns = {}
        THEN Answer(Tx) /\ UNCHANGED <<ebc, s5s8>>
        ELSE /\ ebc' = [ebc EXCEPT ![c].pending_procedures = Append(@, e)]
             /\ s5s8' = s5s8 \cup xs
             /\ UNCHANGED answers
    BY <1>1, <1>2, <1>5 DEF ReleaseAccessBearersRequest
  <2>2. /\ UNCHANGED <<tables, s5s8lteid2sgw_contexts, teids, told, made, unnamed>>
        /\ uid' = Tx /\ pdn' = pdn
    BY DEF ReleaseAccessBearersRequest, Request, Asks
  <2> QED  BY <1>4, <2>1, <2>2
<1>7. \A t \in conns : t \in DOMAIN pdn /\ s5s8lteid2sgw_contexts[t] = c
  BY <1>2, <1>3, Connections
<1>8. IsFiniteSet(conns) /\ Cardinality(conns) \in Nat
  <2>1. IsFiniteSet(DOMAIN pdn)
    BY <1>3, Connections
  <2> QED  BY <1>7, <2>1, FS_Subset, FS_CardinalityType
<1>9. e \in ProcRecords /\ e.tx = Tx /\ e.type = "release"
  BY <1>3, <1>5, <1>8 DEF ReleaseProc, ProcRecords
<1>10. \A t \in conns : t \in Nat /\ pdn[t].pgw \in Nat /\ pdn[t].pgw <= uid
  BY <1>3, <1>7 DEF ShapesOK, PdnShape, PdnRecords, Bounded
<1>11. /\ xs \subseteq Requests
       /\ \A x \in xs : /\ x.type = "release" /\ x.tx = Tx /\ x.pgw <= uid /\ x.enb = NoFteid
                        /\ x.teid \in DOMAIN pdn /\ s5s8lteid2sgw_contexts[x.teid] = c
  BY <1>3, <1>5, <1>7, <1>10 DEF ToPgw, Requests, NoFteid
<1>12. PdnShape'
  BY <1>3, <1>6 DEF ShapesOK, PdnShape, IsMap
<1>13. Tx \in Nat /\ Tx > uid /\ Tx \in Tx .. Tx
  BY <1>3
<1>14. DOMAIN pdn' = DOMAIN pdn
       /\ \A t \in DOMAIN pdn : pdn'[t].apn = pdn[t].apn /\ pdn'[t].pgw = pdn[t].pgw
  BY <1>6
<1>15. OneAdded(c, e, xs, "release", Tx)
  BY <1>3, <1>6, <1>9, <1>11, <1>12, <1>13, <1>14 DEF OneAdded
<1> QED  BY <1>15, OneAsked

LEMMA ModifyBearerInv ==
  ASSUME IInv, NEW teid, NEW to, \A e \in DOMAIN to : to[e] \in EnbFteids,
         ModifyBearerRequest(teid, to)
  PROVE  IInv'
<1>1. PICK c : c = s11lteid2sgw_eps_bearer_context[teid]
  OBVIOUS
<1>2. /\ ShapesOK /\ Tables /\ Bounded /\ uid \in Nat /\ Tx = uid + 1 /\ c \in DOMAIN ebc
  BY <1>1 DEF ModifyBearerRequest, IInv, Base, ShapesOK, Tables, ContextsByTeid, Tx
<1> DEFINE C == s11lteid2sgw_eps_bearer_context[teid]
           K == UNION {FindPdnConnection(C, e) : e \in DOMAIN to}
           X == {t \in K : to[pdn[t].default_bearer] # pdn[t].enb_fteid_s1u}
           Told(xied) ==
             IF xied = {}
             THEN /\ Answer(Tx)
                  /\ uid' = Tx
                  /\ UNCHANGED <<ebc, pdn, s5s8>>
             ELSE /\ ebc' = [ebc EXCEPT ![C].pending_procedures =
                       Append(@, ModifyProc(Tx, {[tx |-> Tx + Cardinality({u \in xied : u <= t}),
                                                  pdn |-> t] : t \in xied}))]
                  /\ pdn' = [t \in DOMAIN pdn |-> IF t \in xied
                       THEN [pdn[t] EXCEPT !.enb_fteid_s1u = to[pdn[t].default_bearer]] ELSE pdn[t]]
                  /\ s5s8' = s5s8 \cup
                       {ToPgw("modify", Tx + Cardinality({u \in xied : u <= t}), t, pdn[t].pgw,
                              to[pdn[t].default_bearer]) : t \in xied}
                  /\ uid' = Tx + Cardinality(xied)
                  /\ UNCHANGED answers
<1>11. Told(X)
  BY DEF ModifyBearerRequest
<1> HIDE DEF Told
<1>3. PICK known : known = K
  OBVIOUS
<1>4. PICK xied : xied = {t \in known : to[pdn[t].default_bearer] # pdn[t].enb_fteid_s1u}
  OBVIOUS
<1>12. Told(xied)
  <2>1. X = xied
    BY <1>3, <1>4
  <2> HIDE DEF X
  <2> QED  BY <1>11, <2>1
<1>5. PICK enb : enb = [t \in xied |-> to[pdn[t].default_bearer]]
  OBVIOUS
<1>6. PICK txOf : txOf = [t \in xied |-> Tx + Cardinality({u \in xied : u <= t})]
  OBVIOUS
<1>7. PICK e, xs : /\ e = ModifyProc(Tx, {[tx |-> txOf[t], pdn |-> t] : t \in xied})
                   /\ xs = {ToPgw("modify", txOf[t], t, pdn[t].pgw, enb[t]) : t \in xied}
  OBVIOUS
<1>8. UNCHANGED <<tables, s5s8lteid2sgw_contexts, teids, told, made, unnamed>>
  BY DEF ModifyBearerRequest, Request, Asks
<1>9. CASE xied = {}
  <2>1. uid' = Tx /\ Answer(Tx) /\ UNCHANGED <<ebc, pdn, s5s8>>
    BY <1>9, <1>12 DEF Told
  <2> QED  BY <1>8, <2>1, AnsweredInv
<1>10. CASE xied # {}
  <2>1. /\ ebc' = [ebc EXCEPT ![c].pending_procedures = Append(@, e)]
        /\ pdn' = [t \in DOMAIN pdn |-> IF t \in xied
             THEN [pdn[t] EXCEPT !.enb_fteid_s1u = to[pdn[t].default_bearer]] ELSE pdn[t]]
        /\ s5s8' = s5s8 \cup xs
        /\ uid' = Tx + Cardinality(xied)
        /\ UNCHANGED answers
    <3>1. /\ ebc' = [ebc EXCEPT ![c].pending_procedures =
                Append(@, ModifyProc(Tx, {[tx |-> Tx + Cardinality({u \in xied : u <= t}), pdn |-> t] : t \in xied}))]
          /\ pdn' = [t \in DOMAIN pdn |-> IF t \in xied
               THEN [pdn[t] EXCEPT !.enb_fteid_s1u = to[pdn[t].default_bearer]] ELSE pdn[t]]
          /\ s5s8' = s5s8 \cup
               {ToPgw("modify", Tx + Cardinality({u \in xied : u <= t}), t, pdn[t].pgw,
                      to[pdn[t].default_bearer]) : t \in xied}
          /\ uid' = Tx + Cardinality(xied)
          /\ UNCHANGED answers
      BY <1>1, <1>10, <1>12 DEF Told
    <3>2. \A t \in xied : txOf[t] = Tx + Cardinality({u \in xied : u <= t})
                          /\ enb[t] = to[pdn[t].default_bearer]
      BY <1>5, <1>6
    <3>3. {[tx |-> Tx + Cardinality({u \in xied : u <= t}), pdn |-> t] : t \in xied}
            = {[tx |-> txOf[t], pdn |-> t] : t \in xied}
      BY ZenonT(60), <3>2
    <3>4. {ToPgw("modify", Tx + Cardinality({u \in xied : u <= t}), t, pdn[t].pgw,
                 to[pdn[t].default_bearer]) : t \in xied} = xs
      BY ZenonT(60), <1>7, <3>2
    <3> QED  BY <1>7, <3>1, <3>3, <3>4
  <2>2. \A t \in xied : /\ t \in DOMAIN pdn /\ s5s8lteid2sgw_contexts[t] = c
                        /\ to[pdn[t].default_bearer] \in EnbFteids
    <3> SUFFICES ASSUME NEW t \in xied
                 PROVE  /\ t \in DOMAIN pdn /\ s5s8lteid2sgw_contexts[t] = c
                        /\ to[pdn[t].default_bearer] \in EnbFteids
      OBVIOUS
    <3>1. PICK b \in DOMAIN to : t \in FindPdnConnection(c, b)
      BY <1>1, <1>3, <1>4
    <3>2. t \in {Conns(c)[a] : a \in DOMAIN Conns(c)} /\ pdn[t].default_bearer = b
      BY <1>2, <3>1, Connections
    <3>3. t \in DOMAIN pdn /\ s5s8lteid2sgw_contexts[t] = c
      BY <1>2, <3>2, Connections
    <3> QED  BY <3>2, <3>3
  <2>3. xied \subseteq DOMAIN pdn /\ IsFiniteSet(xied) /\ xied \subseteq Nat
    <3>1. IsFiniteSet(DOMAIN pdn)
      BY <1>2, Connections
    <3>2. DOMAIN pdn \subseteq Nat
      BY <1>2 DEF Bounded
    <3> QED  BY <2>2, <3>1, <3>2, FS_Subset
  <2>4. PICK n : n = Tx + Cardinality(xied)
    OBVIOUS
  <2>5. PICK f : f = [t \in xied |-> t]
    OBVIOUS
  <2>6. f \in [xied -> Nat] /\ \A t, u \in xied : f[t] = f[u] => t = u
    BY <2>3, <2>5
  <2>7. \A t \in xied : txOf[t] = Tx + Rank(xied, f, t) /\ Rank(xied, f, t) \in 1 .. Cardinality(xied)
    <3> SUFFICES ASSUME NEW t \in xied
                 PROVE  txOf[t] = Tx + Rank(xied, f, t) /\ Rank(xied, f, t) \in 1 .. Cardinality(xied)
      OBVIOUS
    <3>1. {u \in xied : f[u] <= f[t]} = {u \in xied : u <= t}
      BY <2>5
    <3>2. Rank(xied, f, t) \in 1 .. Cardinality(xied)
      BY <2>3, <2>6, RankBounds
    <3> QED  BY <1>6, <3>1, <3>2 DEF Rank
  <2>8. Cardinality(xied) \in Nat /\ Cardinality(xied) # 0
    BY <1>10, <2>3, FS_CardinalityType, FS_EmptySet
  <2>9. n \in Nat /\ n > uid /\ \A t \in xied : txOf[t] \in Tx .. n /\ txOf[t] \in Nat
    BY <1>2, <2>4, <2>7, <2>8
  <2>10. ASSUME NEW t \in xied, NEW u \in xied, txOf[t] = txOf[u] PROVE t = u
    <3>1. Rank(xied, f, t) = Rank(xied, f, u)
      BY <1>2, <2>7, <2>10, <2>8
    <3> QED  BY <2>3, <2>6, <3>1, RankInjective
  <2>11. e \in ProcRecords /\ e.tx = Tx /\ e.type = "modify"
         /\ e.pdn_bearers = {[tx |-> txOf[t], pdn |-> t] : t \in xied}
    <3>1. {[tx |-> txOf[t], pdn |-> t] : t \in xied} \in SUBSET [tx : Nat, pdn : Nat]
      BY <2>3, <2>9
    <3>2. PICK bs : bs = {[tx |-> txOf[t], pdn |-> t] : t \in xied}
      OBVIOUS
    <3>3. bs \in SUBSET [tx : Nat, pdn : Nat] /\ e = ModifyProc(Tx, bs)
      BY <1>7, <3>1, <3>2
    <3>4. e \in ProcRecords /\ e.tx = Tx /\ e.type = "modify" /\ e.pdn_bearers = bs
      BY <1>2, <3>3 DEF ModifyProc, ProcRecords
    <3> QED  BY <3>2, <3>4
  <2>12. \A t \in xied : /\ t \in Nat /\ pdn[t].pgw \in Nat /\ pdn[t].pgw <= uid
                         /\ enb[t] \in EnbFteids /\ enb[t] \in Nat
    BY <1>2, <1>5, <2>2, <2>3, NamesAssumption DEF ShapesOK, PdnShape, PdnRecords, Bounded
  <2>13. \A x \in xs : \E t \in xied : x = ToPgw("modify", txOf[t], t, pdn[t].pgw, enb[t])
    BY <1>7
  <2>14. \A t \in xied : ToPgw("modify", txOf[t], t, pdn[t].pgw, enb[t]) \in xs
    BY <1>7
  <2>15. xs \subseteq Requests
    BY <2>9, <2>12, <2>13 DEF ToPgw, Requests
  <2>16. \A x \in xs : /\ x.type = "modify" /\ x.tx \in Tx .. n /\ x.pgw <= uid
                       /\ x.teid \in DOMAIN pdn /\ s5s8lteid2sgw_contexts[x.teid] = c
                       /\ x.enb \in EnbFteids \cup {NoFteid}
    BY <2>2, <2>9, <2>12, <2>13 DEF ToPgw
  <2>17. \A x, y \in xs : x.tx = y.tx => x = y
    <3> SUFFICES ASSUME NEW x \in xs, NEW y \in xs, x.tx = y.tx PROVE x = y
      OBVIOUS
    <3>1. PICK t \in xied : x = ToPgw("modify", txOf[t], t, pdn[t].pgw, enb[t])
      BY <2>13
    <3>2. PICK u \in xied : y = ToPgw("modify", txOf[u], u, pdn[u].pgw, enb[u])
      BY <2>13
    <3>3. txOf[t] = txOf[u]
      BY <3>1, <3>2 DEF ToPgw
    <3>4. t = u
      BY <2>10, <3>3
    <3> QED  BY <3>1, <3>2, <3>4
  <2>18. \A b \in e.pdn_bearers :
           /\ b.tx \in Tx .. n /\ b.pdn \in DOMAIN pdn /\ s5s8lteid2sgw_contexts[b.pdn] = c
           /\ \E x \in xs : x.type = "modify" /\ x.tx = b.tx /\ x.teid = b.pdn
    <3> SUFFICES ASSUME NEW t \in xied, NEW b, b = [tx |-> txOf[t], pdn |-> t]
                 PROVE  /\ b.tx \in Tx .. n /\ b.pdn \in DOMAIN pdn /\ s5s8lteid2sgw_contexts[b.pdn] = c
                        /\ \E x \in xs : x.type = "modify" /\ x.tx = b.tx /\ x.teid = b.pdn
      BY <2>11
    <3>1. PICK x : x = ToPgw("modify", txOf[t], t, pdn[t].pgw, enb[t])
      OBVIOUS
    <3>2. x \in xs /\ x.type = "modify" /\ x.tx = b.tx /\ x.teid = b.pdn
      BY <2>14, <3>1 DEF ToPgw
    <3> QED  BY <2>2, <2>9, <3>2
  <2>19. /\ PdnShape' /\ DOMAIN pdn' = DOMAIN pdn
         /\ \A t \in DOMAIN pdn : pdn'[t].apn = pdn[t].apn /\ pdn'[t].pgw = pdn[t].pgw
    <3>1. \A t \in DOMAIN pdn : pdn[t] \in PdnRecords
      BY <1>2 DEF ShapesOK, PdnShape
    <3>2. ASSUME NEW t \in DOMAIN pdn
          PROVE  pdn'[t] \in PdnRecords /\ pdn'[t].apn = pdn[t].apn /\ pdn'[t].pgw = pdn[t].pgw
      <4>1. CASE t \in xied
        <5>1. pdn'[t] = [pdn[t] EXCEPT !.enb_fteid_s1u = to[pdn[t].default_bearer]]
          BY <2>1, <4>1
        <5> QED  BY <2>2, <3>1, <4>1, <5>1 DEF PdnRecords
      <4>2. CASE t \notin xied
        BY <2>1, <3>1, <4>2
      <4> QED  BY <4>1, <4>2
    <3>3. DOMAIN pdn' = DOMAIN pdn /\ IsMap(pdn')
      BY <2>1 DEF IsMap
    <3> QED  BY <3>2, <3>3 DEF PdnShape
  <2>20. UNCHANGED <<tables, s5s8lteid2sgw_contexts, teids, told, answers, made, unnamed>> /\ uid' = n
    BY <1>8, <2>1, <2>4
  <2>21. OneAdded(c, e, xs, "modify", n)
    BY <1>2, <2>1, <2>9, <2>11, <2>15, <2>16, <2>17, <2>18, <2>19, <2>20 DEF OneAdded
  <2> QED  BY <2>21, OneAsked
<1> QED  BY <1>9, <1>10

\* Counting up to an element numbers the elements of a finite set.
LEMMA RankCovers ==
  ASSUME NEW S, IsFiniteSet(S), NEW f \in [S -> Nat], \A t, u \in S : f[t] = f[u] => t = u
  PROVE  \A k \in 1 .. Cardinality(S) : \E t \in S : k = Rank(S, f, t)
<1>1. PICK g : g = [t \in S |-> Rank(S, f, t)]
  OBVIOUS
<1>2. PICK n : n = Cardinality(S)
  OBVIOUS
<1>3. n \in Nat
  BY <1>2, FS_CardinalityType
<1>4. g \in [S -> 1 .. n]
  BY <1>1, <1>2, RankBounds
<1>5. \A t, u \in S : g[t] = g[u] => t = u
  BY <1>1, RankInjective
<1>6. g \in Injection(S, 1 .. n)
  BY <1>4, <1>5 DEF Injection, IsInjective
<1>7. IsFiniteSet(1 .. n) /\ Cardinality(1 .. n) = n
  BY <1>3, FS_Interval
<1>8. g \in Surjection(S, 1 .. n)
  BY <1>2, <1>6, <1>7, FS_Injection
<1>9. \A k \in 1 .. n : \E t \in S : k = g[t]
  BY <1>8 DEF Surjection
<1> QED  BY <1>1, <1>2, <1>9

LEMMA DeleteSessionInv ==
  ASSUME IInv, NEW teid, NEW ebi, DeleteSessionRequest(teid, ebi)
  PROVE  IInv'
<1>1. PICK c : c = s11lteid2sgw_eps_bearer_context[teid]
  OBVIOUS
<1>2. /\ ShapesOK /\ Tables /\ Bounded /\ uid \in Nat /\ Tx = uid + 1 /\ c \in DOMAIN ebc
      /\ EbcShape /\ teid_s5s8_cp \in Nat
  BY <1>1 DEF DeleteSessionRequest, IInv, Base, ShapesOK, Tables, ContextsByTeid, Tx
<1> DEFINE C == s11lteid2sgw_eps_bearer_context[teid]
           D == IF ebi = NoEbi THEN {Conns(C)[a] : a \in DOMAIN Conns(C)}
                               ELSE FindPdnConnection(C, ebi)
           Nth(S, k) == CHOOSE t \in S : k = Cardinality({u \in S : pdn[u].apn <= pdn[t].apn})
           Deletes(S) ==
             /\ S # {}
             /\ ebc' = [ebc EXCEPT ![C].pending_procedures =
                          @ \o [k \in 1 .. Cardinality(S) |-> DeleteProc(Tx, Nth(S, k))]]
             /\ s5s8' = s5s8 \cup {ToPgw("delete", Tx, t, pdn[t].pgw, NoFteid) : t \in S}
<1>3. Deletes(D)
  BY DEF DeleteSessionRequest
<1> HIDE DEF Deletes
<1>4. PICK S : S = D
  OBVIOUS
<1>5. Deletes(S)
  BY <1>3, <1>4
<1>6. /\ \A t \in S : t \in {Conns(c)[a] : a \in DOMAIN Conns(c)}
      /\ ebi # NoEbi => \A t \in S : S = {t}
  BY <1>1, <1>2, <1>4, Connections
<1>7. \A t \in S : /\ t \in DOMAIN pdn /\ s5s8lteid2sgw_contexts[t] = c
                   /\ t \in Nat /\ t \in 1 .. teid_s5s8_cp /\ pdn[t].apn \in Nat
                   /\ pdn[t].pgw \in Nat /\ pdn[t].pgw <= uid
  <2>1. \A t \in S : t \in DOMAIN pdn /\ s5s8lteid2sgw_contexts[t] = c
    BY <1>2, <1>6, Connections
  <2>2. \A t \in S : t \in 1 .. teid_s5s8_cp /\ t \in Nat /\ pdn[t].pgw <= uid
    BY <1>2, <2>1 DEF Bounded
  <2>3. \A t \in S : pdn[t].apn \in APNs /\ pdn[t].pgw \in Nat
    BY <1>2, <2>1 DEF ShapesOK, PdnShape, PdnRecords
  <2> QED  BY <2>1, <2>2, <2>3, NamesAssumption
<1>8. \A t, u \in S : pdn[t].apn = pdn[u].apn => t = u
  BY <1>2, <1>7 DEF Tables, PdnsByTeid
<1>9. IsFiniteSet(S)
  <2>1. IsFiniteSet(DOMAIN pdn)
    BY <1>2, Connections
  <2> QED  BY <1>7, <2>1, FS_Subset
<1>10. PICK f : f = [t \in S |-> pdn[t].apn]
  OBVIOUS
<1>11. f \in [S -> Nat] /\ \A t, u \in S : f[t] = f[u] => t = u
  BY <1>7, <1>8, <1>10
<1>12. PICK nth : nth = [k \in 1 .. Cardinality(S) |-> Nth(S, k)]
  BY ZenonT(60)
<1>13. \A k \in 1 .. Cardinality(S) : nth[k] \in S /\ k = Rank(S, f, nth[k])
  <2> SUFFICES ASSUME NEW k \in 1 .. Cardinality(S)
               PROVE  nth[k] \in S /\ k = Rank(S, f, nth[k])
    OBVIOUS
  <2>1. \A t \in S : Rank(S, f, t) = Cardinality({u \in S : pdn[u].apn <= pdn[t].apn})
    <3> SUFFICES ASSUME NEW t \in S
                 PROVE  Rank(S, f, t) = Cardinality({u \in S : pdn[u].apn <= pdn[t].apn})
      OBVIOUS
    <3>1. {u \in S : f[u] <= f[t]} = {u \in S : pdn[u].apn <= pdn[t].apn}
      BY <1>10
    <3> QED  BY <3>1 DEF Rank
  <2>2. \E t \in S : k = Rank(S, f, t)
    BY <1>9, <1>11, RankCovers
  <2>3. \E t \in S : k = Cardinality({u \in S : pdn[u].apn <= pdn[t].apn})
    BY <2>1, <2>2
  <2>4. Nth(S, k) \in S /\ k = Cardinality({u \in S : pdn[u].apn <= pdn[Nth(S, k)].apn})
    BY <2>3
  <2>5. nth[k] = Nth(S, k)
    BY <1>12
  <2> QED  BY ZenonT(60), <2>1, <2>4, <2>5
<1>14. PICK new : new = [k \in 1 .. Cardinality(S) |-> DeleteProc(Tx, nth[k])]
  OBVIOUS
<1>15. Cardinality(S) \in Nat
  BY <1>9, FS_CardinalityType
<1>16. DOMAIN new = 1 .. Cardinality(S)
       /\ \A i \in DOMAIN new : new[i] = [type |-> "delete", tx |-> Tx, pdn |-> nth[i]]
  BY <1>14 DEF DeleteProc
<1>17. new \in Seq(ProcRecords)
  <2>1. \A i \in 1 .. Cardinality(S) : new[i] \in ProcRecords
    BY <1>2, <1>7, <1>13, <1>16 DEF ProcRecords
  <2>2. new \in [1 .. Cardinality(S) -> ProcRecords]
    BY <1>14, <2>1
  <2> QED  BY <1>15, <2>2
<1>18. PICK xs : xs = {ToPgw("delete", Tx, t, pdn[t].pgw, NoFteid) : t \in S}
  OBVIOUS
<1>19. /\ S # {} /\ s5s8' = s5s8 \cup xs
       /\ ebc' = [ebc EXCEPT ![c].pending_procedures = Procs(c) \o new]
  <2>1. [k \in 1 .. Cardinality(S) |-> DeleteProc(Tx, Nth(S, k))] = new
    BY <1>12, <1>14
  <2>2. /\ S # {}
        /\ ebc' = [ebc EXCEPT ![C].pending_procedures =
                     @ \o [k \in 1 .. Cardinality(S) |-> DeleteProc(Tx, Nth(S, k))]]
        /\ s5s8' = s5s8 \cup {ToPgw("delete", Tx, t, pdn[t].pgw, NoFteid) : t \in S}
    BY <1>5 DEF Deletes
  <2> HIDE DEF Nth
  <2>3. ebc' = [ebc EXCEPT ![C].pending_procedures = @ \o new]
    BY <2>1, <2>2
  <2> QED  BY <1>1, <1>18, <2>2, <2>3 DEF Procs
<1>20. /\ uid' = Tx /\ UNCHANGED <<tables, s5s8lteid2sgw_contexts, teids, told, answers, made>>
       /\ unnamed' = IF ebi = NoEbi THEN unnamed \cup {Tx} ELSE unnamed
       /\ pdn' = pdn
  BY DEF DeleteSessionRequest, Asks
<1>21. /\ s5s8lteid2sgw_contexts' = s5s8lteid2sgw_contexts /\ teid_s5s8_cp' = teid_s5s8_cp
       /\ unnamed \subseteq unnamed' /\ unnamed' \subseteq unnamed \cup {Tx}
       /\ ebi = NoEbi => Tx \in unnamed'
  BY <1>20 DEF teids
<1>22. Placed(c, ebc[c].imsi, Conns(c), Procs(c) \o new)
  BY <1>2, <1>19, SetProcs
<1>23. \A x \in xs : \E t \in S : x = ToPgw("delete", Tx, t, pdn[t].pgw, NoFteid)
  BY <1>18
<1>24. \A t \in S : ToPgw("delete", Tx, t, pdn[t].pgw, NoFteid) \in xs
  BY <1>18
<1>25. xs \subseteq Requests
  BY <1>2, <1>7, <1>23 DEF ToPgw, Requests, NoFteid
<1>26. \A x \in xs : /\ x.type = "delete" /\ x.tx = Tx /\ x.pgw <= uid /\ x.teid \in S
                     /\ x.enb = NoFteid /\ x = ToPgw("delete", Tx, x.teid, pdn[x.teid].pgw, NoFteid)
  BY <1>7, <1>23 DEF ToPgw
<1>27. Tx \in Nat /\ Tx > uid /\ Tx \in Tx .. Tx /\ Tx # 0
  BY <1>2
<1>28. Base'
  <2>1. \A x \in xs : /\ x.type # "create" /\ x.tx <= Tx /\ x.pgw <= uid
                      /\ x.teid \in 1 .. teid_s5s8_cp /\ x.enb \in EnbFteids \cup {NoFteid}
    BY <1>7, <1>26, <1>27
  <2>2. \A i \in DOMAIN new : new[i].tx <= Tx
    BY <1>16, <1>27
  <2>3. PdnShape' /\ DOMAIN pdn' = DOMAIN pdn
        /\ \A t \in DOMAIN pdn : pdn'[t].apn = pdn[t].apn /\ pdn'[t].pgw = pdn[t].pgw
    BY <1>2, <1>20 DEF ShapesOK, PdnShape, IsMap
  <2>4. Base
    BY DEF IInv
  <2> QED  BY <1>2, <1>17, <1>19, <1>20, <1>21, <1>22, <1>25, <1>27, <2>1, <2>2, <2>3, <2>4, AskedBase
<1>29. ebi # NoEbi => /\ \A x, y \in xs : x = y
                      /\ \A i, j \in DOMAIN new : i = j
  <2>1. ebi # NoEbi => \A x, y \in xs : x = y
    BY <1>6, <1>26
  <2>2. ebi # NoEbi => \A i, j \in DOMAIN new : i = j
    BY <1>6, <1>13, <1>16
  <2> QED  BY <2>1, <2>2
<1>30. ASSUME NEW base, SlotsAdded(c, new, base)
       PROVE  NewRequest(c, new, xs, "delete", Tx, base)
  <2>1. LiveFrom
    BY <1>21 DEF LiveFrom, Live
  <2>2. \A i, j \in DOMAIN new : new[i].tx = Tx /\ new[j].tx = Tx => i = j \/ Tx \in unnamed'
    BY <1>21, <1>29
  <2>3. \A x, y \in xs : x.tx = y.tx /\ x.tx # 0 => x = y \/ (x.tx = Tx /\ Tx \in unnamed')
    BY <1>21, <1>26, <1>29
  <2>4. \A i \in DOMAIN new : new[i].tx = Tx /\ new[i].type = "delete"
    BY <1>16
  <2>5. answers' = answers
    BY <1>20
  <2>6. \A x \in xs : x.tx \in Tx .. Tx /\ x.type = "delete"
    BY <1>26, <1>27
  <2> QED  BY <1>17, <1>19, <1>20, <1>21, <1>25, <1>27, <1>30, <2>1, <2>2, <2>3, <2>4, <2>5, <2>6
           DEF NewRequest
<1>31. NewWaits(c, new, xs, "delete")
  <2>1. PICK g : g = [x \in xs |-> Rank(S, f, x.teid)]
    OBVIOUS
  <2>2. \A x \in xs : Rank(S, f, x.teid) \in DOMAIN new
    BY <1>9, <1>11, <1>16, <1>26, RankBounds
  <2>3. g \in [xs -> DOMAIN new]
    BY <2>1, <2>2
  <2>4. \A x, y \in xs : g[x] = g[y] => x = y
    <3> SUFFICES ASSUME NEW x \in xs, NEW y \in xs, g[x] = g[y] PROVE x = y
      OBVIOUS
    <3>1. Rank(S, f, x.teid) = Rank(S, f, y.teid) /\ x.teid \in S /\ y.teid \in S
      BY <1>26, <2>1
    <3>2. x.teid = y.teid
      BY <1>9, <1>11, <3>1, RankInjective
    <3> QED  BY <1>26, <3>2
  <2>5. \A x \in xs : HasTrxnId(new[g[x]], x.tx)
    BY <1>16, <1>26, <2>3 DEF HasTrxnId
  <2>6. \A i \in DOMAIN new :
          /\ new[i].pdn <= teid_s5s8_cp' /\ s5s8lteid2sgw_contexts'[new[i].pdn] = c
          /\ \E x \in xs : x.type = "delete" /\ x.tx = new[i].tx /\ x.teid = new[i].pdn
    <3> SUFFICES ASSUME NEW i \in DOMAIN new
                 PROVE  /\ new[i].pdn <= teid_s5s8_cp' /\ s5s8lteid2sgw_contexts'[new[i].pdn] = c
                        /\ \E x \in xs : x.type = "delete" /\ x.tx = new[i].tx /\ x.teid = new[i].pdn
      OBVIOUS
    <3>1. PICK t \in S : t = nth[i] /\ new[i].pdn = t /\ new[i].tx = Tx
      BY <1>13, <1>16
    <3>2. PICK x : x = ToPgw("delete", Tx, t, pdn[t].pgw, NoFteid)
      OBVIOUS
    <3>3. x \in xs /\ x.type = "delete" /\ x.tx = Tx /\ x.teid = t
      BY <1>24, <3>2 DEF ToPgw
    <3>4. t <= teid_s5s8_cp' /\ s5s8lteid2sgw_contexts'[t] = c
      BY <1>7, <1>21
    <3> QED  BY <3>1, <3>3, <3>4
  <2>7. \A x \in xs : x.type = "delete" /\ s5s8lteid2sgw_contexts'[x.teid] = c
    BY <1>7, <1>21, <1>26
  <2>8. \A i \in DOMAIN new : new[i].type = "delete"
    BY <1>16
  <2>9. teid_s5s8_cp' \in Nat /\ teid_s5s8_cp' >= teid_s5s8_cp
    BY <1>2, <1>21
  <2> QED  BY <2>3, <2>4, <2>5, <2>6, <2>7, <2>8, <2>9 DEF NewWaits
<1> QED  BY <1>2, <1>17, <1>22, <1>28, <1>30, <1>31, AskedInv

------------------------------------------------------------------------------
(* Create session requests *)

\* Connections "hit" go, and those of "new", one or none, come to context c.
Moved(c, hit, new, a, ebi) ==
  /\ \/ new = {} /\ teid_s5s8_cp' = teid_s5s8_cp /\ made' = made
     \/ /\ new = {NextS5s8Teid} /\ teid_s5s8_cp' = NextS5s8Teid
        /\ made' = MapAssign(made, NextS5s8Teid, Tx)
  /\ IsMap(pdn') /\ DOMAIN pdn' = (DOMAIN pdn \ hit) \cup new
  /\ \A u \in DOMAIN pdn \ hit : pdn'[u] = pdn[u]
  /\ \A u \in new : pdn'[u] = PdnConnection(a, ebi)
  /\ IsMap(s5s8lteid2sgw_contexts')
  /\ DOMAIN s5s8lteid2sgw_contexts' = (DOMAIN pdn \ hit) \cup new
  /\ \A u \in DOMAIN pdn \ hit : s5s8lteid2sgw_contexts'[u] = s5s8lteid2sgw_contexts[u]
  /\ \A u \in new : s5s8lteid2sgw_contexts'[u] = c

LEMMA InsertMoves ==
  ASSUME ShapesOK, Tables, Bounded, NEW c, NEW a, NEW ebi, NEW hit,
         InsertPdnConnection(c, NextS5s8Teid, a, ebi, hit)
  PROVE  Moved(c, hit, {NextS5s8Teid}, a, ebi)
<1>1. PICK t : t = NextS5s8Teid
  OBVIOUS
<1>2. t \notin DOMAIN pdn /\ DOMAIN s5s8lteid2sgw_contexts = DOMAIN pdn
  BY <1>1 DEF NextS5s8Teid, ShapesOK, Bounded, Tables, PdnsByTeid
<1>3. /\ teid_s5s8_cp' = t
      /\ pdn' = MapAssign([u \in DOMAIN pdn \ hit |-> pdn[u]], t, PdnConnection(a, ebi))
      /\ s5s8lteid2sgw_contexts' =
           MapAssign([u \in DOMAIN s5s8lteid2sgw_contexts \ hit |->
                        s5s8lteid2sgw_contexts[u]], t, c)
      /\ made' = MapAssign(made, t, Tx)
  BY <1>1 DEF InsertPdnConnection
<1>4. /\ IsMap(pdn') /\ DOMAIN pdn' = (DOMAIN pdn \ hit) \cup {t}
      /\ \A u \in DOMAIN pdn \ hit : pdn'[u] = pdn[u]
      /\ pdn'[t] = PdnConnection(a, ebi)
  BY <1>2, <1>3 DEF MapAssign, IsMap
<1>5. /\ IsMap(s5s8lteid2sgw_contexts') /\ DOMAIN s5s8lteid2sgw_contexts' = (DOMAIN pdn \ hit) \cup {t}
      /\ \A u \in DOMAIN pdn \ hit : s5s8lteid2sgw_contexts'[u] = s5s8lteid2sgw_contexts[u]
      /\ s5s8lteid2sgw_contexts'[t] = c
  BY <1>2, <1>3 DEF MapAssign, IsMap
<1> QED  BY <1>1, <1>3, <1>4, <1>5 DEF Moved

\* What a create session request leaves of the context, the procedures it adds
\* to it, and the requests it makes of PGW-C.
Created(c, imsi, conns, added, xs, hit, new, a, ebi) ==
  /\ imsi \in IMSIs /\ a \in APNs /\ ebi \in EBIs
  /\ IsMap(conns) /\ DOMAIN conns \subseteq APNs
  /\ added \in Seq(ProcRecords) /\ xs \subseteq Requests
  /\ \/ c \in DOMAIN ebc /\ Placed(c, imsi, conns, Procs(c) \o added)
     \/ c \notin DOMAIN ebc /\ Placed(c, imsi, conns, added)
  /\ c \in 1 .. teid_s11_cp' /\ teid_s11_cp' \in Nat /\ teid_s11_cp' >= teid_s11_cp
  /\ IsMap(imsi2sgw_eps_bearer_context') /\ DOMAIN imsi2sgw_eps_bearer_context' \subseteq IMSIs
  /\ Moved(c, hit, new, a, ebi) /\ hit \subseteq DOMAIN pdn
  /\ uid' = Tx /\ told' = told /\ unnamed' = unnamed /\ answers' = answers
  /\ s5s8' = s5s8 \cup xs
  /\ \A x \in xs : \/ /\ x.tx = 0 /\ x.type = "delete" /\ x.teid \in hit
                      /\ x.pgw <= uid /\ x.enb = NoFteid
                   \/ /\ x = ToPgw("create", Tx, NextS5s8Teid, NoTeid, NoFteid)
                      /\ new = {NextS5s8Teid}
  /\ \A i \in DOMAIN added : \/ /\ added[i].tx = 0 /\ added[i].type = "delete"
                                /\ added[i].pdn \in hit
                             \/ added[i] = CreateProc(Tx)
  /\ \A i, j \in DOMAIN added : added[i] = CreateProc(Tx) /\ added[j] = CreateProc(Tx) => i = j
  /\ new # {} => \E i \in DOMAIN added : added[i] = CreateProc(Tx)

LEMMA CreatedBase ==
  ASSUME Base, Tables', NEW c, NEW imsi, NEW conns, NEW added, NEW xs, NEW hit, NEW new, NEW a, NEW ebi,
         Created(c, imsi, conns, added, xs, hit, new, a, ebi)
  PROVE  Base'
<1> USE DEF Base
<1>1. /\ uid \in Nat /\ Tx = uid + 1 /\ uid' = uid + 1 /\ told' = told /\ answers' = answers
      /\ unnamed' = unnamed /\ s5s8' = s5s8 \cup xs
      /\ teid_s5s8_cp \in Nat /\ NextS5s8Teid = teid_s5s8_cp + 1
      /\ teid_s11_cp \in Nat /\ teid_s11_cp' \in Nat /\ teid_s11_cp' >= teid_s11_cp
  BY DEF ShapesOK, Tx, Created, NextS5s8Teid
<1>2. PICK t : t = NextS5s8Teid
  OBVIOUS
<1>3. Moved(c, hit, new, a, ebi) /\ hit \subseteq DOMAIN pdn
  BY DEF Created
<1>4. \/ new = {} /\ teid_s5s8_cp' = teid_s5s8_cp /\ made' = made
      \/ new = {t} /\ teid_s5s8_cp' = t /\ made' = MapAssign(made, t, Tx)
  BY <1>2, <1>3 DEF Moved
<1>5. teid_s5s8_cp' \in Nat /\ teid_s5s8_cp' >= teid_s5s8_cp /\ new \subseteq 1 .. teid_s5s8_cp'
      /\ 1 .. teid_s5s8_cp \subseteq 1 .. teid_s5s8_cp'
      /\ 1 .. teid_s11_cp \subseteq 1 .. teid_s11_cp' /\ t \notin 1 .. teid_s5s8_cp
  BY <1>1, <1>2, <1>4
<1>6. /\ IsMap(made') /\ DOMAIN made' = 1 .. teid_s5s8_cp'
      /\ \A u \in 1 .. teid_s5s8_cp : made'[u] = made[u]
      /\ \A u \in new : made'[u] = Tx
  <2>1. IsMap(made) /\ DOMAIN made = 1 .. teid_s5s8_cp
    BY DEF ShapesOK, Bounded
  <2>2. CASE new = {} /\ teid_s5s8_cp' = teid_s5s8_cp /\ made' = made
    BY <2>1, <2>2 DEF IsMap
  <2>3. CASE new = {t} /\ teid_s5s8_cp' = t /\ made' = MapAssign(made, t, Tx)
    <3>1. DOMAIN made' = 1 .. teid_s5s8_cp \cup {t}
      BY <2>1, <2>3 DEF MapAssign
    <3>2. 1 .. teid_s5s8_cp \cup {t} = 1 .. t
      BY <1>1, <1>2
    <3>3. \A u \in 1 .. teid_s5s8_cp : made'[u] = made[u]
      BY <1>5, <2>1, <2>3 DEF MapAssign
    <3>4. IsMap(made') /\ made'[t] = Tx
      BY <2>1, <2>3 DEF IsMap, MapAssign
    <3> QED  BY <2>3, <3>1, <3>2, <3>3, <3>4
  <2> QED  BY <1>4, <2>2, <2>3
<1>7. added \in Seq(ProcRecords) /\ \A i \in DOMAIN added : added[i].tx <= Tx
  BY <1>1 DEF Created, CreateProc
<1>8. PICK procs : /\ procs \in Seq(ProcRecords) /\ Placed(c, imsi, conns, procs)
                   /\ \A i \in DOMAIN procs : procs[i].tx <= Tx
  <2>1. CASE c \in DOMAIN ebc
    <3>1. PICK s : s = Procs(c)
      OBVIOUS
    <3>2. s \in Seq(ProcRecords) /\ \A i \in DOMAIN s : s[i].tx \in Nat /\ s[i].tx <= uid
      BY <2>1, <3>1, ProcTypes DEF ShapesOK, EbcShape, Bounded
    <3>3. PICK all : all = s \o added
      OBVIOUS
    <3>4. /\ all \in Seq(ProcRecords) /\ DOMAIN all = 1 .. Len(s) + Len(added)
          /\ \A i \in 1 .. Len(s) : all[i] = s[i]
          /\ \A i \in 1 .. Len(added) : all[Len(s) + i] = added[i]
      BY <1>7, <3>2, <3>3, Joined
    <3>5. DOMAIN s = 1 .. Len(s) /\ DOMAIN added = 1 .. Len(added) /\ Len(s) \in Nat /\ Len(added) \in Nat
      BY <1>7, <3>2
    <3>6. ASSUME NEW i \in DOMAIN all PROVE all[i].tx <= Tx
      <4>1. CASE i \in 1 .. Len(s)
        BY <1>1, <3>2, <3>4, <3>5, <4>1
      <4>2. CASE i \notin 1 .. Len(s)
        <5>1. i - Len(s) \in 1 .. Len(added) /\ i = Len(s) + (i - Len(s))
          BY <3>4, <3>5, <4>2
        <5>2. all[i] = added[i - Len(s)]
          BY <3>4, <5>1
        <5> QED  BY <1>7, <3>5, <5>1, <5>2
      <4> QED  BY <4>1, <4>2
    <3>7. Placed(c, imsi, conns, all)
      BY <2>1, <3>1, <3>3 DEF Created
    <3> QED  BY <3>4, <3>6, <3>7
  <2>2. CASE c \notin DOMAIN ebc
    BY <1>7, <2>2 DEF Created
  <2> QED  BY <2>1, <2>2
<1>9. EbcShape'
  <2>1. EbcShape /\ imsi \in IMSIs /\ IsMap(conns) /\ DOMAIN conns \subseteq APNs
    BY DEF ShapesOK, Created
  <2> QED  BY <1>8, <2>1, EbcPlaced
<1>10. PdnShape'
  <2>1. \A u \in DOMAIN pdn' : \/ u \in DOMAIN pdn /\ pdn'[u] = pdn[u]
                            \/ pdn'[u] = PdnConnection(a, ebi)
    BY <1>3 DEF Moved
  <2>2. PdnConnection(a, ebi) \in PdnRecords
    BY DEF PdnConnection, PdnRecords, Created, NoTeid
  <2> QED  BY <1>3, <2>1, <2>2 DEF PdnShape, ShapesOK, Moved
<1>11. ShapesOK'
  <2>1. xs \subseteq Requests
    BY DEF Created
  <2>2. IsMap(answers') /\ IsMap(s5s8lteid2sgw_contexts')
    BY <1>1, <1>3 DEF ShapesOK, IsMap, Moved
  <2>3. IsMap(imsi2sgw_eps_bearer_context') /\ DOMAIN imsi2sgw_eps_bearer_context' \subseteq IMSIs
    BY DEF Created
  <2> QED  BY <1>1, <1>5, <1>6, <1>9, <1>10, <2>1, <2>2, <2>3 DEF ShapesOK
<1>12. Bounded'
  <2>1. DOMAIN ebc' \subseteq 1 .. teid_s11_cp' /\ told' \subseteq 1 .. teid_s11_cp'
    BY <1>1, <1>5, <1>8 DEF Bounded, Placed, Created
  <2>2. DOMAIN pdn' \subseteq 1 .. teid_s5s8_cp'
    BY <1>3, <1>5 DEF Bounded, Moved
  <2>3. \A u \in DOMAIN pdn' : pdn'[u].pgw <= uid'
    <3>1. \A u \in DOMAIN pdn : pdn[u].pgw \in Nat /\ pdn[u].pgw <= uid
      BY DEF ShapesOK, PdnShape, PdnRecords, Bounded
    <3>2. \A u \in new : pdn'[u].pgw = 0
      BY <1>3 DEF Moved, PdnConnection, NoTeid
    <3> QED  BY <1>1, <1>3, <3>1, <3>2 DEF Moved
  <2>4. \A x \in s5s8 : /\ x.tx <= uid' /\ x.teid \in 1 .. teid_s5s8_cp' /\ x.pgw <= uid'
                        /\ x.enb \in EnbFteids \cup {NoFteid}
    <3>1. \A x \in s5s8 : x.tx \in Nat /\ x.pgw \in Nat
      BY DEF ShapesOK, Requests
    <3> QED  BY <1>1, <1>5, <3>1 DEF Bounded
  <2>5. ASSUME NEW x \in xs
        PROVE  /\ x.tx <= uid' /\ x.teid \in 1 .. teid_s5s8_cp' /\ x.pgw <= uid'
               /\ x.enb \in EnbFteids \cup {NoFteid}
    <3>1. CASE /\ x.tx = 0 /\ x.type = "delete" /\ x.teid \in hit
               /\ x.pgw <= uid /\ x.enb = NoFteid
      <4>1. x.pgw \in Nat /\ x.teid \in 1 .. teid_s5s8_cp
        BY <1>3, <2>5, <3>1 DEF Created, Requests, Bounded
      <4> QED  BY <1>1, <1>5, <3>1, <4>1
    <3>2. CASE x = ToPgw("create", Tx, NextS5s8Teid, NoTeid, NoFteid) /\ new = {NextS5s8Teid}
      BY <1>1, <1>5, <3>2 DEF ToPgw, NoTeid
    <3> QED  BY <3>1, <3>2 DEF Created
  <2>6. \A d \in DOMAIN ebc' : \A k \in DOMAIN Procs(d)' : Procs(d)'[k].tx <= uid'
    <3>1. \A d \in DOMAIN ebc : \A k \in DOMAIN Procs(d) : Procs(d)[k].tx \in Nat /\ Procs(d)[k].tx <= uid
      BY ProcTypes DEF Bounded
    <3>2. DOMAIN ebc' = DOMAIN ebc \cup {c} /\ \A d \in DOMAIN ebc \ {c} : Procs(d)' = Procs(d)
      BY <1>8 DEF Placed, Procs
    <3>3. Procs(c)' = procs
      BY <1>8 DEF Placed, Context, Procs
    <3> QED  BY <1>1, <1>8, <3>1, <3>2, <3>3
  <2>7. DOMAIN answers' \subseteq 1 .. uid' /\ unnamed' \subseteq 1 .. uid'
    BY <1>1 DEF Bounded
  <2> QED  BY <1>1, <1>6, <2>1, <2>2, <2>3, <2>4, <2>5, <2>6, <2>7 DEF Bounded
<1>13. CreatesOwn'
  <2>1. OwnSession'
    <3>1. \A u \in DOMAIN pdn \ hit : pdn'[u].pgw \in {NoTeid, made'[u]}
      BY <1>3, <1>6 DEF Moved, CreatesOwn, OwnSession, Bounded
    <3>2. \A u \in new : pdn'[u].pgw = NoTeid
      BY <1>3 DEF Moved, PdnConnection
    <3> QED  BY <1>3, <3>1, <3>2 DEF OwnSession, Moved
  <2>2. \A x \in s5s8 : x.type = "create" => made'[x.teid] = x.tx
    BY <1>6 DEF CreatesOwn, Bounded
  <2>3. \A x \in xs : x.type = "create" => made'[x.teid] = x.tx
    BY <1>6 DEF Created, ToPgw
  <2> QED  BY <1>1, <2>1, <2>2, <2>3 DEF CreatesOwn
<1> QED  BY <1>11, <1>12, <1>13

LEMMA CreatedInv ==
  ASSUME IInv, Tables', NEW c, NEW imsi, NEW conns, NEW added, NEW xs, NEW hit, NEW new, NEW a, NEW ebi,
         Created(c, imsi, conns, added, xs, hit, new, a, ebi)
  PROVE  IInv'
<1>1. /\ Base /\ ShapesOK /\ Tables /\ Bounded /\ EbcShape /\ uid \in Nat /\ Tx = uid + 1
      /\ teid_s5s8_cp \in Nat /\ NextS5s8Teid = teid_s5s8_cp + 1
  BY DEF IInv, Base, ShapesOK, Tx, NextS5s8Teid
<1>2. Base'
  BY <1>1, CreatedBase
<1>3. /\ added \in Seq(ProcRecords) /\ xs \subseteq Requests
      /\ uid' = Tx /\ told' = told /\ unnamed' = unnamed /\ answers' = answers /\ s5s8' = s5s8 \cup xs
      /\ Moved(c, hit, new, a, ebi) /\ hit \subseteq DOMAIN pdn
      /\ new \subseteq {NextS5s8Teid}
  BY DEF Created, Moved
<1>4. \A u : Live(u)' <=> u \in (DOMAIN pdn \ hit) \cup new
  BY <1>3 DEF Live, Moved
<1>5. \A u \in hit : u \in DOMAIN pdn /\ ~Live(u)' /\ u <= teid_s5s8_cp
  BY <1>1, <1>3, <1>4 DEF Bounded
<1>6. PICK base : SlotsAdded(c, added, base)
  BY <1>1, <1>3, PlacedAdds DEF Created
<1>7. LiveFrom
  <2>1. DOMAIN s5s8lteid2sgw_contexts' = (DOMAIN pdn \ hit) \cup new
        /\ \A u \in DOMAIN pdn \ hit : s5s8lteid2sgw_contexts'[u] = s5s8lteid2sgw_contexts[u]
    BY <1>3 DEF Moved
  <2>2. \A u \in DOMAIN pdn : Live(u)
    BY <1>1 DEF Live, Tables, PdnsByTeid
  <2>3. \A u \in new : u > teid_s5s8_cp
    BY <1>1, <1>3
  <2> QED  BY <2>1, <2>2, <2>3 DEF LiveFrom
<1>8. \A x \in xs : \/ x.tx = 0 /\ x.type = "delete" /\ x.teid \in hit
                    \/ /\ x = ToPgw("create", Tx, NextS5s8Teid, NoTeid, NoFteid)
                       /\ x.tx = Tx /\ x.type = "create" /\ x.teid = NextS5s8Teid
                       /\ new = {NextS5s8Teid}
  BY DEF Created, ToPgw
<1>9. \A i \in DOMAIN added :
        \/ added[i].tx = 0 /\ added[i].type = "delete" /\ added[i].pdn \in hit
        \/ added[i] = CreateProc(Tx) /\ added[i].tx = Tx /\ added[i].type = "create"
  BY DEF Created, CreateProc
<1>10. Tx \in Nat /\ Tx > uid /\ Tx # 0 /\ Tx \in Tx .. Tx /\ Tx \notin unnamed /\ 0 \notin unnamed
  BY <1>1 DEF Bounded
<1>11. NewRequest(c, added, xs, "create", Tx, base)
  <2>1. \A x \in xs : \/ x.tx = 0 /\ x.type = "delete" /\ ~Live(x.teid)'
                      \/ x.tx \in Tx .. Tx /\ x.type = "create"
    BY <1>5, <1>8, <1>10
  <2>2. \A i \in DOMAIN added :
          /\ \/ added[i].tx = 0 /\ added[i].type = "delete"
             \/ added[i].tx = Tx /\ added[i].type = "create"
          /\ added[i].type # "modify"
    BY <1>9
  <2>3. \A i, j \in DOMAIN added : added[i].tx = Tx /\ added[j].tx = Tx => i = j
    BY <1>9, <1>10 DEF Created
  <2>4. \A x, y \in xs : x.tx = y.tx /\ x.tx # 0 => x = y
    BY <1>8
  <2> QED  BY <1>3, <1>6, <1>7, <1>10, <2>1, <2>2, <2>3, <2>4 DEF NewRequest
<1>12. NewWaits(c, added, xs, "create")
  <2>1. teid_s5s8_cp' \in Nat /\ teid_s5s8_cp' >= teid_s5s8_cp
    BY <1>1, <1>3 DEF Moved
  <2>2. \A x \in xs : x.tx # 0 => s5s8lteid2sgw_contexts'[x.teid] = c
    BY <1>3, <1>8 DEF Moved
  <2>3. ASSUME NEW x \in xs, x.type \in {"create", "release"}
        PROVE  \E i \in DOMAIN added : HasTrxnId(added[i], x.tx)
    <3>1. x.tx = Tx /\ new # {}
      BY <1>8, <2>3
    <3>2. PICK i \in DOMAIN added : added[i] = CreateProc(Tx)
      BY <3>1 DEF Created
    <3> QED  BY <3>1, <3>2 DEF HasTrxnId, CreateProc
  <2>4. \A i \in DOMAIN added : added[i].type = "delete" =>
          added[i].pdn <= teid_s5s8_cp' /\ ~Live(added[i].pdn)'
    <3>1. \A u \in hit : u <= teid_s5s8_cp' /\ ~Live(u)'
      BY <1>1, <1>5, <2>1 DEF Bounded
    <3> QED  BY <1>9, <3>1
  <2>5. \A i \in DOMAIN added : added[i].type # "modify"
    BY <1>9
  <2> QED  BY <2>1, <2>2, <2>3, <2>4, <2>5 DEF NewWaits
<1>13. Transactions'
  BY <1>1, <1>11, TransactionsRequest DEF IInv
<1>14. Waiting'
  BY <1>1, <1>11, <1>12, WaitingRequest DEF IInv
<1> QED  BY <1>2, <1>13, <1>14 DEF IInv

LEMMA CreateFirstInv ==
  ASSUME IInv, NEW imsi \in IMSIs, NEW a \in APNs, NEW ebi \in EBIs, CreateFirst(imsi, a, ebi)
  PROVE  IInv'
<1>1. /\ Base /\ ShapesOK /\ Tables /\ Bounded /\ EbcShape /\ uid \in Nat /\ Tx = uid + 1
      /\ teid_s5s8_cp \in Nat /\ NextS5s8Teid = teid_s5s8_cp + 1
      /\ teid_s11_cp \in Nat /\ NextS11Teid = teid_s11_cp + 1
  BY DEF IInv, Base, ShapesOK, Tx, NextS5s8Teid, NextS11Teid
<1>2. PICK c, t : c = NextS11Teid /\ t = NextS5s8Teid
  OBVIOUS
<1>3. PICK conns, added, xs : /\ conns = MapAssign(EmptyMap, a, t)
                              /\ added = <<CreateProc(Tx)>>
                              /\ xs = {ToPgw("create", Tx, t, NoTeid, NoFteid)}
  OBVIOUS
<1>4. /\ imsi \notin DOMAIN imsi2sgw_eps_bearer_context
      /\ uid' = Tx /\ teid_s11_cp' = c /\ told' = told /\ unnamed' = unnamed /\ answers' = answers
      /\ imsi2sgw_eps_bearer_context' = MapAssign(imsi2sgw_eps_bearer_context, imsi, c)
      /\ s11lteid2sgw_eps_bearer_context' = MapAssign(s11lteid2sgw_eps_bearer_context, c, c)
      /\ ebc' = MapAssign(ebc, c, Context(imsi, conns, added))
      /\ InsertPdnConnection(c, NextS5s8Teid, a, ebi, {})
      /\ s5s8' = s5s8 \cup xs
  BY <1>2, <1>3 DEF CreateFirst, Request, Asks
<1>5. c \notin DOMAIN ebc /\ t \notin DOMAIN pdn
  BY <1>1, <1>2 DEF Bounded
<1>6. Placed(c, imsi, conns, added)
  BY <1>4, <1>5 DEF Placed, MapAssign, IsMap
<1>7. Moved(c, {}, {NextS5s8Teid}, a, ebi)
  BY <1>1, <1>4, InsertMoves
<1>8. IsMap(conns) /\ DOMAIN conns \subseteq APNs
  BY <1>3 DEF MapAssign, IsMap, EmptyMap
<1>9. CreateProc(Tx) \in ProcRecords
  BY <1>1 DEF CreateProc, ProcRecords
<1>10. added \in Seq(ProcRecords) /\ DOMAIN added = {1} /\ added[1] = CreateProc(Tx)
  BY <1>3, <1>9
<1>11. xs \subseteq Requests
  BY <1>1, <1>2, <1>3 DEF ToPgw, Requests, NoTeid, NoFteid
<1>12. IsMap(imsi2sgw_eps_bearer_context') /\ DOMAIN imsi2sgw_eps_bearer_context' \subseteq IMSIs
  BY <1>1, <1>4 DEF MapAssign, IsMap, ShapesOK
<1>13. Tables'
  <2>1. /\ DOMAIN pdn' = DOMAIN pdn \cup {t} /\ \A u \in DOMAIN pdn : pdn'[u] = pdn[u]
        /\ pdn'[t].apn = a
    BY <1>2, <1>7 DEF Moved, PdnConnection
  <2>2. s5s8lteid2sgw_contexts' = MapAssign(s5s8lteid2sgw_contexts, t, c)
    <3>1. /\ IsMap(s5s8lteid2sgw_contexts') /\ DOMAIN s5s8lteid2sgw_contexts' = DOMAIN pdn \cup {t}
          /\ \A u \in DOMAIN pdn : s5s8lteid2sgw_contexts'[u] = s5s8lteid2sgw_contexts[u]
          /\ s5s8lteid2sgw_contexts'[t] = c
      BY <1>2, <1>7 DEF Moved
    <3>2. DOMAIN s5s8lteid2sgw_contexts = DOMAIN pdn
      BY <1>1 DEF Tables, PdnsByTeid
    <3> QED  BY <1>5, <3>1, <3>2 DEF MapAssign, IsMap
  <2>3. Placed(c, imsi, MapAssign(EmptyMap, a, t), added)
    BY <1>3, <1>6
  <2> QED  BY <1>1, <1>4, <1>5, <2>1, <2>2, <2>3, TablesFirst
<1>14. c \in 1 .. teid_s11_cp' /\ teid_s11_cp' \in Nat /\ teid_s11_cp' >= teid_s11_cp
  BY <1>1, <1>2, <1>4
<1>15. Created(c, imsi, conns, added, xs, {}, {NextS5s8Teid}, a, ebi)
  <2>1. \A x \in xs : x = ToPgw("create", Tx, NextS5s8Teid, NoTeid, NoFteid)
    BY <1>2, <1>3
  <2>2. \A i \in DOMAIN added : added[i] = CreateProc(Tx) /\ i = 1
    BY <1>10
  <2>3. \E i \in DOMAIN added : added[i] = CreateProc(Tx)
    BY <1>10
  <2> QED  BY <1>4, <1>5, <1>6, <1>7, <1>8, <1>10, <1>11, <1>12, <1>14, <2>1, <2>2, <2>3 DEF Created
<1> QED  BY <1>13, <1>15, CreatedInv

\* An element behind two sequences.
LEMMA Appended ==
  ASSUME NEW T, NEW s \in Seq(T), NEW n \in Seq(T), NEW e \in T
  PROVE  Append(s \o n, e) = s \o (n \o <<e>>)
<1>1. s \o n \in Seq(T) /\ <<e>> \in Seq(T)
  OBVIOUS
<1>2. Append(s \o n, e) = (s \o n) \o <<e>>
  BY <1>1, AppendIsConcat
<1> QED  BY SMTT(60), <1>1, <1>2, ConcatAssociative

LEMMA CreateInContextInv ==
  ASSUME IInv, NEW c \in DOMAIN ebc, NEW a \in APNs, NEW ebi \in EBIs, NEW hit,
         hit = {} \/ \E b \in DOMAIN Conns(c) : hit = {Conns(c)[b]},
         CreateInContext(c, a, ebi, hit)
  PROVE  IInv'
<1>1. /\ Base /\ ShapesOK /\ Tables /\ Bounded /\ EbcShape /\ uid \in Nat /\ Tx = uid + 1
      /\ teid_s5s8_cp \in Nat /\ NextS5s8Teid = teid_s5s8_cp + 1
      /\ teid_s11_cp \in Nat
  BY DEF IInv, Base, ShapesOK, Tx, NextS5s8Teid
<1> DEFINE Left == [b \in {x \in DOMAIN Conns(c) : Conns(c)[x] \notin hit} |-> Conns(c)[b]]
           Emulated == IF FindProcedure(c, 0) = 0 THEN hit ELSE {}
           Deletes(us) == {ToPgw("delete", 0, u, pdn[u].pgw, NoFteid) : u \in us}
           Gone(us) == SetToSeq({DeleteProc(0, u) : u \in us})
           Case(left, us) ==
             /\ hit # {} \/ a \notin DOMAIN left
             /\ \/ /\ a \notin DOMAIN left
                   /\ ebc' = [ebc EXCEPT
                         ![c].pdn_connections = MapAssign(left, a, NextS5s8Teid),
                         ![c].pending_procedures = Append(Procs(c) \o Gone(us), CreateProc(Tx))]
                   /\ InsertPdnConnection(c, NextS5s8Teid, a, ebi, hit)
                   /\ s5s8' = s5s8 \cup Deletes(us) \cup {ToPgw("create", Tx, NextS5s8Teid, NoTeid, NoFteid)}
                \/ /\ ~(a \notin DOMAIN left)
                   /\ ebc' = [ebc EXCEPT ![c].pdn_connections = left,
                                         ![c].pending_procedures = Procs(c) \o Gone(us)]
                   /\ pdn' = [u \in DOMAIN pdn \ hit |-> pdn[u]]
                   /\ s5s8lteid2sgw_contexts' =
                        [u \in DOMAIN s5s8lteid2sgw_contexts \ hit |-> s5s8lteid2sgw_contexts[u]]
                   /\ s5s8' = s5s8 \cup Deletes(us)
                   /\ UNCHANGED <<teid_s5s8_cp, made, path>>
<1>2. Case(Left, Emulated)
  BY DEF CreateInContext
<1> HIDE DEF Case
<1>3. PICK left, us : left = Left /\ us = Emulated
  OBVIOUS
<1>4. Case(left, us)
  BY <1>2, <1>3
<1>5. /\ uid' = Tx /\ told' = told /\ unnamed' = unnamed /\ answers' = answers
      /\ teid_s11_cp' = teid_s11_cp
      /\ imsi2sgw_eps_bearer_context' = imsi2sgw_eps_bearer_context
      /\ s11lteid2sgw_eps_bearer_context' = s11lteid2sgw_eps_bearer_context
  BY DEF CreateInContext, Request, Asks, tables
<1>6. /\ us \subseteq hit /\ (us = {} \/ \E u \in hit : us = {u})
      /\ hit \subseteq {Conns(c)[b] : b \in DOMAIN Conns(c)}
      /\ hit \subseteq DOMAIN pdn
  <2>1. hit \subseteq {Conns(c)[b] : b \in DOMAIN Conns(c)}
    OBVIOUS
  <2>2. us = {} \/ us = hit
    BY <1>3
  <2>3. hit \subseteq DOMAIN pdn
    BY <1>1, <2>1, Connections
  <2> QED  BY <2>1, <2>2, <2>3
<1>7. PICK gone, dels : gone = Gone(us) /\ dels = Deletes(us)
  OBVIOUS
<1>8. /\ gone \in Seq(ProcRecords)
      /\ \A i \in DOMAIN gone : gone[i].tx = 0 /\ gone[i].type = "delete" /\ gone[i].pdn \in hit
  <2>1. CASE us = {}
    <3>1. {DeleteProc(0, u) : u \in us} = {}
      BY <2>1
    <3>2. gone = <<>>
      BY <1>7, <3>1, SeqOfNone
    <3> QED  BY <3>2
  <2>2. CASE us # {}
    <3>1. PICK u \in hit : us = {u}
      BY <1>6, <2>2
    <3>2. {DeleteProc(0, v) : v \in us} = {DeleteProc(0, u)}
      BY <3>1
    <3>3. gone = <<DeleteProc(0, u)>>
      BY <1>7, <3>2, SeqOfOne
    <3>4. u \in Nat
      BY <1>1, <1>6 DEF Bounded
    <3>5. DeleteProc(0, u) \in ProcRecords /\ DeleteProc(0, u).tx = 0
          /\ DeleteProc(0, u).type = "delete" /\ DeleteProc(0, u).pdn = u
      BY <3>4 DEF DeleteProc, ProcRecords
    <3> QED  BY <3>3, <3>5
  <2> QED  BY <2>1, <2>2
<1>9. /\ dels \subseteq Requests
      /\ \A x \in dels : /\ x.tx = 0 /\ x.type = "delete" /\ x.teid \in hit
                         /\ x.pgw <= uid /\ x.enb = NoFteid
  <2>1. \A u \in us : u \in hit /\ u \in Nat /\ pdn[u].pgw \in Nat /\ pdn[u].pgw <= uid
    BY <1>1, <1>6 DEF Bounded, ShapesOK, PdnShape, PdnRecords
  <2> QED  BY <1>7, <2>1 DEF ToPgw, Requests, NoFteid
<1>10. PICK imsi : imsi = ebc[c].imsi
  OBVIOUS
<1>11. /\ imsi \in IMSIs /\ IsMap(Conns(c)) /\ DOMAIN Conns(c) \subseteq APNs
       /\ Procs(c) \in Seq(ProcRecords)
  BY <1>1, <1>10 DEF EbcShape
<1>12. /\ IsMap(left) /\ DOMAIN left = {x \in DOMAIN Conns(c) : Conns(c)[x] \notin hit}
       /\ \A b \in DOMAIN left : left[b] = Conns(c)[b]
  BY <1>3 DEF IsMap
<1>13. c \in 1 .. teid_s11_cp' /\ teid_s11_cp' \in Nat /\ teid_s11_cp' >= teid_s11_cp
  BY <1>1, <1>5 DEF Bounded
<1>14. IsMap(imsi2sgw_eps_bearer_context') /\ DOMAIN imsi2sgw_eps_bearer_context' \subseteq IMSIs
  BY <1>1, <1>5 DEF IsMap, ShapesOK
<1>15. DOMAIN s5s8lteid2sgw_contexts = DOMAIN pdn
  BY <1>1 DEF Tables, PdnsByTeid
<1>16. CASE a \notin DOMAIN left
  <2>1. PICK t, conns, e : t = NextS5s8Teid /\ conns = MapAssign(left, a, t) /\ e = CreateProc(Tx)
    OBVIOUS
  <2>2. /\ ebc' = [ebc EXCEPT ![c].pdn_connections = conns,
                              ![c].pending_procedures = Append(Procs(c) \o gone, e)]
        /\ InsertPdnConnection(c, NextS5s8Teid, a, ebi, hit)
        /\ s5s8' = s5s8 \cup dels \cup {ToPgw("create", Tx, NextS5s8Teid, NoTeid, NoFteid)}
    BY <1>4, <1>7, <1>16, <2>1 DEF Case
  <2>3. PICK added, s : added = gone \o <<e>> /\ s = Procs(c)
    OBVIOUS
  <2>4. e \in ProcRecords
    BY <1>1, <2>1 DEF CreateProc, ProcRecords
  <2>5. /\ added \in Seq(ProcRecords) /\ DOMAIN added = 1 .. Len(gone) + 1
        /\ \A i \in 1 .. Len(gone) : added[i] = gone[i]
        /\ added[Len(gone) + 1] = e
        /\ Len(gone) \in Nat /\ DOMAIN gone = 1 .. Len(gone)
    BY <1>8, <2>3, <2>4
  <2>6. Append(s \o gone, e) = s \o added
    BY <1>8, <1>11, <2>3, <2>4, Appended
  <2>7. ebc' = [ebc EXCEPT ![c].pdn_connections = conns, ![c].pending_procedures = s \o added]
    BY <2>2, <2>3, <2>6
  <2>8. Placed(c, imsi, conns, Procs(c) \o added)
    BY Zenon, <1>1, <1>10, <2>3, <2>7, SetBoth
  <2>9. PICK xs : xs = dels \cup {ToPgw("create", Tx, NextS5s8Teid, NoTeid, NoFteid)}
    OBVIOUS
  <2>10. Moved(c, hit, {NextS5s8Teid}, a, ebi)
    BY <1>1, <2>2, InsertMoves
  <2>11. /\ IsMap(conns) /\ DOMAIN conns = DOMAIN left \cup {a} /\ conns[a] = t
         /\ \A b \in DOMAIN left : conns[b] = left[b]
    BY <1>12, <1>16, <2>1 DEF MapAssign, IsMap
  <2>12. DOMAIN conns \subseteq APNs
    BY <1>11, <1>12, <2>11
  <2>13. Tables'
    <3>1. t \notin DOMAIN pdn
      BY <1>1, <2>1 DEF Bounded
    <3>2. PICK new : new = {t}
      OBVIOUS
    <3>3. /\ \A b \in DOMAIN conns :
               \/ b \in DOMAIN Conns(c) /\ conns[b] = Conns(c)[b] /\ conns[b] \notin hit
               \/ b = a /\ conns[b] \in new
          /\ \A b \in DOMAIN Conns(c) : Conns(c)[b] \notin hit => b \in DOMAIN conns /\ conns[b] = Conns(c)[b]
          /\ \A u \in new : u \notin DOMAIN pdn /\ a \in DOMAIN conns /\ conns[a] = u
          /\ DOMAIN conns # {}
      BY <1>12, <2>11, <3>1, <3>2
    <3>4. /\ DOMAIN s5s8lteid2sgw_contexts' = (DOMAIN pdn \ hit) \cup new
          /\ \A u \in DOMAIN pdn \ hit : s5s8lteid2sgw_contexts'[u] = s5s8lteid2sgw_contexts[u]
          /\ \A u \in new : s5s8lteid2sgw_contexts'[u] = c
          /\ DOMAIN pdn' = (DOMAIN pdn \ hit) \cup new
          /\ \A u \in DOMAIN pdn \ hit : pdn'[u] = pdn[u]
          /\ \A u \in new : pdn'[u].apn = a
      BY <2>1, <2>10, <3>2 DEF Moved, PdnConnection
    <3>5. PICK procs : procs = Procs(c) \o added
      OBVIOUS
    <3>6. Placed(c, ebc[c].imsi, conns, procs)
      BY <1>10, <2>8, <3>5
    <3>7. TablesMove(c, hit, new, conns, procs, a)
      BY <1>5, <1>6, <3>3, <3>4, <3>6 DEF TablesMove
    <3> QED  BY <1>1, <3>7, TablesMoved
  <2>14. \A i \in DOMAIN added : \/ /\ added[i].tx = 0 /\ added[i].type = "delete"
                                    /\ added[i].pdn \in hit /\ i \in 1 .. Len(gone)
                                 \/ added[i] = CreateProc(Tx) /\ i = Len(gone) + 1
    BY <1>8, <2>1, <2>5
  <2>15. \A i, j \in DOMAIN added : added[i] = CreateProc(Tx) /\ added[j] = CreateProc(Tx) => i = j
    <3>1. CreateProc(Tx).type = "create"
      BY DEF CreateProc
    <3> QED  BY <2>14, <3>1
  <2>16. \E i \in DOMAIN added : added[i] = CreateProc(Tx)
    BY <2>1, <2>5
  <2>17. xs \subseteq Requests
    BY <1>1, <1>9, <2>9 DEF ToPgw, Requests, NoTeid, NoFteid
  <2>18. \A x \in xs : \/ /\ x.tx = 0 /\ x.type = "delete" /\ x.teid \in hit
                          /\ x.pgw <= uid /\ x.enb = NoFteid
                       \/ x = ToPgw("create", Tx, NextS5s8Teid, NoTeid, NoFteid)
    BY <1>9, <2>9
  <2>19. s5s8' = s5s8 \cup xs
    BY <2>2, <2>9
  <2>20. Created(c, imsi, conns, added, xs, hit, {NextS5s8Teid}, a, ebi)
    BY <1>5, <1>6, <1>11, <1>13, <1>14, <2>5, <2>8, <2>10, <2>11, <2>12, <2>14, <2>15, <2>16,
       <2>17, <2>18, <2>19 DEF Created
  <2> QED  BY <2>13, <2>20, CreatedInv
<1>17. CASE a \in DOMAIN left
  <2>1. /\ ebc' = [ebc EXCEPT ![c].pdn_connections = left,
                              ![c].pending_procedures = Procs(c) \o gone]
        /\ pdn' = [u \in DOMAIN pdn \ hit |-> pdn[u]]
        /\ s5s8lteid2sgw_contexts' =
             [u \in DOMAIN s5s8lteid2sgw_contexts \ hit |-> s5s8lteid2sgw_contexts[u]]
        /\ s5s8' = s5s8 \cup dels
        /\ UNCHANGED <<teid_s5s8_cp, made, path>>
    BY <1>4, <1>7, <1>17 DEF Case
  <2>2. Placed(c, imsi, left, Procs(c) \o gone)
    BY Zenon, <1>1, <1>10, <2>1, SetBoth
  <2>3. Moved(c, hit, {}, a, ebi)
    BY <1>15, <2>1 DEF Moved, IsMap
  <2>4. DOMAIN left \subseteq APNs /\ DOMAIN left # {}
    BY <1>11, <1>12, <1>17
  <2>5. Tables'
    <3>1. PICK new : new = {}
      OBVIOUS
    <3>2. /\ \A b \in DOMAIN left :
               \/ b \in DOMAIN Conns(c) /\ left[b] = Conns(c)[b] /\ left[b] \notin hit
               \/ b = a /\ left[b] \in new
          /\ \A b \in DOMAIN Conns(c) : Conns(c)[b] \notin hit => b \in DOMAIN left /\ left[b] = Conns(c)[b]
          /\ \A u \in new : u \notin DOMAIN pdn /\ a \in DOMAIN left /\ left[a] = u
      BY <1>12, <3>1
    <3>3. /\ DOMAIN s5s8lteid2sgw_contexts' = (DOMAIN pdn \ hit) \cup new
          /\ \A u \in DOMAIN pdn \ hit : s5s8lteid2sgw_contexts'[u] = s5s8lteid2sgw_contexts[u]
          /\ \A u \in new : s5s8lteid2sgw_contexts'[u] = c
          /\ DOMAIN pdn' = (DOMAIN pdn \ hit) \cup new
          /\ \A u \in DOMAIN pdn \ hit : pdn'[u] = pdn[u]
          /\ \A u \in new : pdn'[u].apn = a
      BY <2>3, <3>1 DEF Moved
    <3>4. PICK procs : procs = Procs(c) \o gone
      OBVIOUS
    <3>5. Placed(c, ebc[c].imsi, left, procs)
      BY <1>10, <2>2, <3>4
    <3>6. TablesMove(c, hit, new, left, procs, a)
      BY <1>5, <1>6, <2>4, <3>2, <3>3, <3>5 DEF TablesMove
    <3> QED  BY <1>1, <3>6, TablesMoved
  <2>6. Created(c, imsi, left, gone, dels, hit, {}, a, ebi)
    <3>1. \A i \in DOMAIN gone : gone[i] # CreateProc(Tx)
      BY <1>8 DEF CreateProc
    <3> QED  BY <1>5, <1>6, <1>8, <1>9, <1>11, <1>12, <1>13, <1>14, <2>1, <2>2, <2>3, <2>4, <3>1
             DEF Created
  <2> QED  BY <2>5, <2>6, CreatedInv
<1> QED  BY <1>16, <1>17

LEMMA CreateForKnownInv ==
  ASSUME IInv, NEW imsi, NEW a \in APNs, NEW ebi \in EBIs, CreateForKnown(imsi, a, ebi)
  PROVE  IInv'
<1>1. PICK c : c = imsi2sgw_eps_bearer_context[imsi]
  OBVIOUS
<1>2. PICK hit : hit = FindPdnConnection(c, ebi)
  OBVIOUS
<1>3. ShapesOK /\ Tables /\ Bounded
  BY DEF IInv, Base
<1>4. c \in DOMAIN ebc
  BY <1>1, <1>3 DEF CreateForKnown, Tables, ContextsByImsi
<1>5. CreateInContext(c, a, ebi, hit)
  BY <1>1, <1>2 DEF CreateForKnown
<1>6. hit = {} \/ \E b \in DOMAIN Conns(c) : hit = {Conns(c)[b]}
  <2>1. DOMAIN Conns(c) \subseteq Nat
    BY <1>3, <1>4, Connections
  <2> QED  BY <1>2, <2>1, FindBearer
<1> QED  BY <1>4, <1>5, <1>6, CreateInContextInv

LEMMA CreateWithoutImsiInv ==
  ASSUME IInv, NEW teid, NEW a \in APNs, NEW ebi \in EBIs, CreateWithoutImsi(teid, a, ebi)
  PROVE  IInv'
<1>1. PICK c, hit : c = s11lteid2sgw_eps_bearer_context[teid] /\ hit = {}
  OBVIOUS
<1>2. c \in DOMAIN ebc
  BY <1>1 DEF CreateWithoutImsi, IInv, Base, Tables, ContextsByTeid
<1>3. CreateInContext(c, a, ebi, hit)
  BY <1>1 DEF CreateWithoutImsi
<1> QED  BY <1>1, <1>2, <1>3, CreateInContextInv

------------------------------------------------------------------------------
(* The theorems *)

LEMMA InitInv == Init => IInv
<1> SUFFICES ASSUME Init PROVE IInv
  OBVIOUS
<1>1. /\ DOMAIN ebc = {} /\ DOMAIN pdn = {} /\ DOMAIN answers = {} /\ DOMAIN made = {}
      /\ DOMAIN imsi2sgw_eps_bearer_context = {} /\ DOMAIN s5s8lteid2sgw_contexts = {}
      /\ IsMap(ebc) /\ IsMap(pdn) /\ IsMap(answers) /\ IsMap(made)
      /\ IsMap(imsi2sgw_eps_bearer_context) /\ IsMap(s5s8lteid2sgw_contexts)
      /\ s11lteid2sgw_eps_bearer_context = [c \in {} |-> c]
      /\ s5s8 = {} /\ unnamed = {} /\ told = {}
      /\ teid_s11_cp = 0 /\ teid_s5s8_cp = 0 /\ uid = 0
  BY DEF Init, EmptyMap, IsMap
<1>2. ShapesOK
  BY <1>1 DEF ShapesOK, EbcShape, PdnShape
<1>3. Tables
  BY <1>1 DEF Tables, ContextsByTeid, ContextsByImsi, PdnsByTeid, PdnsByApn, SomePdn
<1>4. Bounded
  BY <1>1 DEF Bounded
<1>5. CreatesOwn
  BY <1>1 DEF CreatesOwn, OwnSession
<1>6. Transactions
  BY <1>1 DEF Transactions, DefaultTxGone, OneProcedure, OneType, OneRequest, BearersOK,
              NoSecondAnswer, AnsweredOnce
<1>7. Waiting
  BY <1>1 DEF Waiting, DeletesFind, OthersFind, DeletesWait, ModifiesWait
<1> QED  BY <1>2, <1>3, <1>4, <1>5, <1>6, <1>7 DEF IInv, Base

LEMMA StutterInv == IInv /\ UNCHANGED vars => IInv'
<1> SUFFICES ASSUME IInv, UNCHANGED vars PROVE IInv'
  OBVIOUS
<1>1. /\ ebc' = ebc /\ pdn' = pdn /\ s5s8' = s5s8 /\ unnamed' = unnamed /\ told' = told
      /\ answers' = answers /\ made' = made /\ uid' = uid
      /\ s5s8lteid2sgw_contexts' = s5s8lteid2sgw_contexts
      /\ teid_s11_cp' = teid_s11_cp /\ teid_s5s8_cp' = teid_s5s8_cp
      /\ imsi2sgw_eps_bearer_context' = imsi2sgw_eps_bearer_context
      /\ s11lteid2sgw_eps_bearer_context' = s11lteid2sgw_eps_bearer_context
  BY DEF vars, tables, teids
<1>2. /\ \A c : Procs(c)' = Procs(c) /\ Conns(c)' = Conns(c)
      /\ \A t : Live(t)' <=> Live(t)
  BY <1>1 DEF Procs, Conns, Live
<1>3. ShapesOK'
  BY <1>1, <1>2 DEF IInv, Base, ShapesOK, EbcShape, PdnShape, IsMap
<1>4. Tables' /\ Bounded' /\ CreatesOwn'
  <2>1. Tables'
    BY <1>1, <1>2 DEF IInv, Base, Tables, ContextsByTeid, ContextsByImsi, PdnsByTeid, PdnsByApn, SomePdn
  <2>2. Bounded' /\ CreatesOwn'
    BY <1>1, <1>2 DEF IInv, Base, Bounded, CreatesOwn, OwnSession
  <2> QED  BY <2>1, <2>2
<1>5. Transactions'
  BY <1>1, <1>2 DEF IInv, Transactions, DefaultTxGone, OneProcedure, OneType, OneRequest, BearersOK,
                    NoSecondAnswer, AnsweredOnce, Shared
<1>6. Waiting'
  <2>1. \A c, tx : OpenDeletes(c, tx)' = OpenDeletes(c, tx) /\ ProcsOf(c, tx)' = ProcsOf(c, tx)
    BY <1>1, <1>2 DEF OpenDeletes, ProcsOf
  <2>2. DeletesFind' /\ OthersFind'
    BY <1>1, <1>2, <2>1 DEF IInv, Waiting, DeletesFind, OthersFind
  <2>3. DeletesWait' /\ ModifiesWait'
    BY <1>1, <1>2 DEF IInv, Waiting, DeletesWait, ModifiesWait, Waits
  <2> QED  BY <2>2, <2>3 DEF Waiting
<1> QED  BY <1>3, <1>4, <1>5, <1>6 DEF IInv, Base

LEMMA NextInv == IInv /\ Next => IInv'
<1> SUFFICES ASSUME IInv, Next PROVE IInv'
  OBVIOUS
<1>1. CASE CreateSessionRequest
  <2>1. PICK a \in APNs, ebi \in EBIs :
          \/ \E imsi \in IMSIs : CreateFirst(imsi, a, ebi) \/ CreateForKnown(imsi, a, ebi)
          \/ \E teid \in told : CreateWithoutImsi(teid, a, ebi)
    BY <1>1 DEF CreateSessionRequest
  <2>2. ASSUME NEW imsi \in IMSIs, CreateFirst(imsi, a, ebi) PROVE IInv'
    BY <2>2, CreateFirstInv
  <2>3. ASSUME NEW imsi \in IMSIs, CreateForKnown(imsi, a, ebi) PROVE IInv'
    BY <2>3, CreateForKnownInv
  <2>4. ASSUME NEW teid \in told, CreateWithoutImsi(teid, a, ebi) PROVE IInv'
    BY <2>4, CreateWithoutImsiInv
  <2> QED  BY <2>1, <2>2, <2>3, <2>4
<1>2. ASSUME NEW teid \in told, RefuseCreate(teid) PROVE IInv'
  BY <1>2, RefuseCreateInv
<1>3. ASSUME NEW teid \in told, NEW ebi \in LinkedEbis, DeleteSessionRequest(teid, ebi) PROVE IInv'
  BY <1>3, DeleteSessionInv
<1>4. ASSUME NEW teid \in told, NEW named \in SUBSET EBIs \ {{}}, NEW to \in [named -> EnbFteids],
             ModifyBearerRequest(teid, to)
      PROVE  IInv'
  <2>1. \A e \in DOMAIN to : to[e] \in EnbFteids
    OBVIOUS
  <2> QED  BY <1>4, <2>1, ModifyBearerInv
<1>5. ASSUME NEW teid \in told, ReleaseAccessBearersRequest(teid) PROVE IInv'
  BY <1>5, ReleaseAccessBearersInv
<1>6. ASSUME NEW x \in s5s8, EndOfRequest(x) PROVE IInv'
  <2>1. ASSUME NEW accepted \in BOOLEAN, CreateResponse(x, accepted) PROVE IInv'
    BY <2>1, CreateResponseInv
  <2>2. ASSUME NEW accepted \in BOOLEAN, ModifyResponse(x, accepted) PROVE IInv'
    BY <2>2, ModifyResponseInv
  <2>3. CASE DeleteResponse(x)
    BY <2>3, DeleteResponseInv
  <2>4. CASE ReleaseResponse(x)
    BY <2>4, ReleaseResponseInv
  <2>5. CASE NotResponding(x)
    BY <2>5, NotRespondingInv
  <2> QED  BY <1>6, <2>1, <2>2, <2>3, <2>4, <2>5 DEF EndOfRequest
<1>7. ASSUME NEW t, DownlinkDataNotification(t) PROVE IInv'
  BY <1>7, DownlinkDataNotificationInv
<1> QED  BY <1>1, <1>2, <1>3, <1>4, <1>5, <1>6, <1>7 DEF Next

\* The invariant that is kept by every request and every end of one.
THEOREM Invariance == Spec => []IInv
<1>1. IInv /\ [Next]_vars => IInv'
  BY NextInv, StutterInv
<1> QED  BY InitInv, <1>1, PTL DEF Spec

\* The objects, tables and requests are of their types, whatever order requests
\* and responses come in.
THEOREM TypeCorrect == Spec => []TypeOK
<1>1. IInv => TypeOK
  <2> SUFFICES ASSUME IInv PROVE TypeOK
    OBVIOUS
  <2> USE DEF IInv, Base
  <2>1. \A t \in DOMAIN pdn :
          pdn[t] \in [apn : APNs, default_bearer : EBIs,
                      enb_fteid_s1u : EnbFteids \cup {NoFteid}, pgw : 0 .. uid]
    BY DEF ShapesOK, PdnShape, PdnRecords, Bounded
  <2>2. \A c \in DOMAIN ebc : \A k \in DOMAIN Procs(c) :
          /\ Procs(c)[k].type \in {"create", "delete", "modify", "release", "ddn"}
          /\ Procs(c)[k].tx \in 0 .. uid
    <3> SUFFICES ASSUME NEW c \in DOMAIN ebc, NEW k \in DOMAIN Procs(c)
                 PROVE  /\ Procs(c)[k].type \in {"create", "delete", "modify", "release", "ddn"}
                        /\ Procs(c)[k].tx \in 0 .. uid
      OBVIOUS
    <3>1. Procs(c)[k] \in ProcRecords /\ Procs(c)[k].tx \in Nat
      BY ProcTypes
    <3>2. Procs(c)[k].tx <= uid /\ uid \in Nat
      BY DEF Bounded, ShapesOK
    <3> QED  BY <3>1, <3>2 DEF ProcRecords
  <2>3. \A x \in s5s8 :
          x \in [type : {"create", "delete", "modify", "release"}, tx : 0 .. uid,
                 teid : 1 .. teid_s5s8_cp, pgw : 0 .. uid, enb : EnbFteids \cup {NoFteid}]
    BY DEF ShapesOK, Requests, Bounded
  <2> QED  BY <2>1, <2>2, <2>3 DEF TypeOK, ShapesOK, Bounded
<1> QED  BY Invariance, <1>1, PTL

\* A context is found by its IMSI and by its TEID, a connection by its TEID and
\* under its APN, and no context is left without a connection: the handlers of
\* deletions, collisions and failed creates keep the three tables together.
THEOREM TablesStayTogether == Spec => []TablesAgree
<1>1. IInv => TablesAgree
  <2> SUFFICES ASSUME IInv PROVE TablesAgree
    OBVIOUS
  <2>1. ShapesOK /\ Tables
    BY DEF IInv, Base
  <2>2. imsi2sgw_eps_bearer_context =
          [i \in {ebc[c].imsi : c \in DOMAIN ebc} |-> CHOOSE c \in DOMAIN ebc : ebc[c].imsi = i]
    <3>1. DOMAIN imsi2sgw_eps_bearer_context = {ebc[c].imsi : c \in DOMAIN ebc}
      BY <2>1 DEF Tables, ContextsByImsi
    <3>2. \A i \in DOMAIN imsi2sgw_eps_bearer_context :
            imsi2sgw_eps_bearer_context[i] = CHOOSE c \in DOMAIN ebc : ebc[c].imsi = i
      BY <2>1 DEF Tables, ContextsByImsi
    <3> QED  BY <2>1, <3>1, <3>2 DEF ShapesOK, IsMap
  <2>3. \A c \in DOMAIN ebc : Conns(c) # EmptyMap
    BY <2>1 DEF Tables, SomePdn, EmptyMap
  <2>4. \A t \in DOMAIN pdn :
          LET c == s5s8lteid2sgw_contexts[t]
          IN c \in DOMAIN ebc /\ pdn[t].apn \in DOMAIN Conns(c) /\ Conns(c)[pdn[t].apn] = t
    BY <2>1 DEF Tables, PdnsByTeid
  <2>5. \A c \in DOMAIN ebc : \A a \in DOMAIN Conns(c) :
          Live(Conns(c)[a]) /\ s5s8lteid2sgw_contexts[Conns(c)[a]] = c
    BY <2>1 DEF Tables, PdnsByTeid, PdnsByApn, Live
  <2> QED  BY <2>1, <2>2, <2>3, <2>4, <2>5 DEF TablesAgree, Tables, ContextsByTeid, PdnsByTeid
<1> QED  BY Invariance, <1>1, PTL

\* The response to each request about a live connection finds a procedure of the
\* type its handler casts it to, and a procedure of a live connection still has
\* its request in flight: find_procedure and remove_procedure never miss.
THEOREM ProceduresMatch == Spec => []ProceduresAgree
<1>1. IInv => EndFindsProcedure
  <2> SUFFICES ASSUME IInv, NEW x \in s5s8, Live(x.teid),
                      NEW c, c = s5s8lteid2sgw_contexts[x.teid], NEW k, k = FindProcedure(c, x.tx)
               PROVE  IF k = 0 THEN x.type = "modify" ELSE Procs(c)[k].type = x.type
    BY DEF EndFindsProcedure
  <2>1. ShapesOK /\ Tables /\ Bounded /\ Transactions /\ Waiting
    BY DEF IInv, Base
  <2>2. c \in DOMAIN ebc /\ x.tx # 0 /\ x \in Requests
    BY <2>1 DEF Tables, PdnsByTeid, Live, Transactions, DefaultTxGone, ShapesOK
  <2>3. x.tx \in 1 .. uid
    BY <2>1, <2>2 DEF Bounded, ShapesOK, Requests
  <2>4. Procs(c) \in Seq(ProcRecords)
    BY <2>1, <2>2 DEF ShapesOK, EbcShape
  <2>5. CASE k = 0
    <3>1. ProcsOf(c, x.tx) = {}
      BY <2>4, <2>5, FindResult DEF ProcsOf
    <3>2. x.type \notin {"create", "release"}
      BY <2>1, <3>1 DEF Waiting, OthersFind
    <3>3. x.type # "delete"
      <4>1. ASSUME x.type = "delete" PROVE FALSE
        <5>1. x \in OpenDeletes(c, x.tx)
          BY <4>1 DEF OpenDeletes
        <5>2. PICK f \in [OpenDeletes(c, x.tx) -> ProcsOf(c, x.tx)] : TRUE
          BY <2>1, <2>2, <2>3 DEF Waiting, DeletesFind
        <5> QED  BY <3>1, <5>1, <5>2
      <4> QED  BY <4>1
    <3> QED  BY <2>2, <2>5, <3>2, <3>3 DEF Requests
  <2>6. CASE k # 0
    <3>1. k \in DOMAIN Procs(c) /\ HasTrxnId(Procs(c)[k], x.tx)
      BY <2>4, <2>6, FindResult
    <3> QED  BY <2>1, <2>2, <2>6, <3>1 DEF Transactions, OneType
  <2> QED  BY <2>5, <2>6
<1>2. IInv => ProceduresWait
  BY DEF IInv, Waiting, DeletesWait, ModifiesWait, Waits, ProceduresWait
<1> QED  BY Invariance, <1>1, <1>2, PTL DEF ProceduresAgree

\* The MME gets one response to a request, whichever of its ends comes first and
\* however many connections it is about.
THEOREM OneAnswer == Spec => []AnsweredOnce
<1>1. IInv => AnsweredOnce
  BY DEF IInv, Transactions
<1> QED  BY Invariance, <1>1, PTL

\* A late response to the create of a connection that is gone never joins its
\* session of PGW-C to the connection that took its place.
THEOREM SessionIsOwn == Spec => []OwnSession
<1>1. IInv => OwnSession
  BY DEF IInv, Base, CreatesOwn
<1> QED  BY Invariance, <1>1, PTL
==============================================================================
