--------------------------- MODULE PgwcSessionProofs ---------------------------
(***************************************************************************)
(* Proofs about PgwcSession for every number of subscribers, connections    *)
(* and requests, and every size of the pool.                                *)
(***************************************************************************)
EXTENDS PgwcSession, FiniteSetTheorems, WellFoundedInduction, TLAPS

\* The static addresses, which subscriptions bring along, are past the end of the
\* pool. PGW-C does not check it (pgw_context.cpp:638): it is for the operator to
\* provision. Where it does not hold PoolAgrees does not, and one address may be
\* that of two connections.
StaticsPastPool == \A a \in Statics : a >= Num

IsMap(m) == m = [x \in DOMAIN m |-> m[x]]

\* A table of UE addresses.
IsRoutes(m) == IsMap(m) /\ NoAddress \notin DOMAIN m

Addrs  == DynamicAddresses \cup Statics \cup {NoAddress}
Fteids == EnbFteids \cup {NoFteid}

ProcRecords ==
  [type : {"establishment", "modify", "release", "delete", "ddn"},
   id : Nat, pdn : Nat, fteid : Fteids]
ContextRecords ==
  [imsi : IMSIs, apns : SUBSET (SUBSET Nat), pending_procedures : SUBSET ProcRecords]
PdnRecords ==
  [addr : Addrs, seid : Nat, up_fseid : Nat, dl : BOOLEAN, sgw_fteid : Fteids,
   released : BOOLEAN]
SessionRecords ==
  [cp : Nat, ul : {"forw", "drop", "none"}, dl : EnbFteids \cup {Nocp, NoRule}, addr : Addrs,
   notified : BOOLEAN]

EstReqs  == [to : {"spgwu"}, type : {"establishment"}, id : Nat, seid : {NoSeid}, cp : Nat]
ModReqs  == [to : {"spgwu"}, type : {"modify"}, id : Nat, seid : Nat,
             rules : {"create", "update"}, dl : EnbFteids \cup {Nocp, NoRule},
             ul : {"forw", "drop", "none"}, addr : Addrs]
DelReqs  == [to : {"spgwu"}, type : {"delete"}, id : Nat, seid : Nat]
EstResps == [to : {"pgwc"}, type : {"establishment"}, id : Nat, seid : Nat, up : Nat]
ModResps == [to : {"pgwc"}, type : {"modify"}, id : Nat, seid : Nat,
             accepted : BOOLEAN, created : BOOLEAN]
DelResps == [to : {"pgwc"}, type : {"delete"}, id : Nat, seid : Nat]
Reports  == [to : {"pgwc"}, type : {"report"}, id : Nat, seid : Nat]
MsgRecords ==
  EstReqs \cup ModReqs \cup DelReqs \cup EstResps \cup ModResps \cup DelResps \cup Reports

Shapes ==
  /\ IsMap(imsi2pgw_context) /\ IsMap(s5s8lteid2pgw_context)
  /\ IsMap(seid2pgw_context) /\ IsRoutes(ue_ip)
  /\ pc \in [DOMAIN pc -> ContextRecords]
  /\ pdn \in [DOMAIN pdn -> PdnRecords]
  /\ sessions \in [DOMAIN sessions -> SessionRecords]
  /\ sx \subseteq MsgRecords
  /\ teid \in Nat /\ uid \in Nat /\ up_seid \in Nat /\ requests \in Nat
  /\ teid <= requests /\ requests <= MaxRequests
  /\ modifying \subseteq [req : ModReqs, cp : Nat] /\ deleting \in 0..up_seid

\* The tables of PGW-C and the connections of its contexts.
Tables ==
  /\ DOMAIN pc \subseteq Teids /\ DOMAIN seid2pgw_context \subseteq Teids
  /\ DOMAIN s5s8lteid2pgw_context \subseteq Teids
  /\ DOMAIN pdn = DOMAIN s5s8lteid2pgw_context
  /\ \A i \in DOMAIN imsi2pgw_context :
       /\ i \in IMSIs
       /\ imsi2pgw_context[i] \in DOMAIN pc
       /\ pc[imsi2pgw_context[i]].imsi = i
  /\ \A t \in DOMAIN s5s8lteid2pgw_context :
       s5s8lteid2pgw_context[t] \in DOMAIN pc /\ t \in ConnsOf(s5s8lteid2pgw_context[t])
  /\ \A c \in DOMAIN pc : \A t \in ConnsOf(c) :
       t \in DOMAIN s5s8lteid2pgw_context /\ s5s8lteid2pgw_context[t] = c
  /\ \A c \in DOMAIN pc : ConnsOf(c) # {} =>
       pc[c].imsi \in DOMAIN imsi2pgw_context /\ imsi2pgw_context[pc[c].imsi] = c
  /\ \A t \in DOMAIN seid2pgw_context :
       /\ seid2pgw_context[t] \in DOMAIN pc
       /\ t \in DOMAIN s5s8lteid2pgw_context =>
            s5s8lteid2pgw_context[t] = seid2pgw_context[t]
  /\ \A c \in DOMAIN pc : \A a \in pc[c].apns : a # {} /\ a \subseteq Teids

\* How far each connection has come.
Connections ==
  /\ told \subseteq DOMAIN seid2pgw_context
  /\ overlapped \subseteq told
  /\ paged \subseteq Teids \X Teids
  /\ \A t \in DOMAIN pdn :
       /\ t \in DOMAIN seid2pgw_context => pdn[t].seid = t
       /\ t \notin DOMAIN seid2pgw_context => pdn[t].seid = NoSeid
       /\ t \in told => pdn[t].up_fseid \in 1..up_seid
       /\ t \notin told => pdn[t].up_fseid = NoSeid /\ ~pdn[t].dl

\* The pool: each of its addresses has at most one connection.
Pool ==
  /\ IsMap(alloc) /\ DOMAIN alloc = 0..(Num - 1) \div WordBits
  /\ \A w \in DOMAIN alloc : alloc[w] \subseteq FullWord
  /\ PoolAgrees
  /\ \A t \in Established : pdn[t].addr # NoAddress
  /\ \A t, u \in Established :
       pdn[t].addr = pdn[u].addr /\ pdn[t].addr \in DynamicAddresses => t = u

\* The procedures of all contexts. An id stands for one procedure and for one
\* message at a time, and the message is of the procedure.
AllProcs == UNION {Procs(c) : c \in DOMAIN pc}

\* Connection t of PGW-C is what message m is about.
About(m, t) ==
  \/ m.type = "establishment" /\ m.to = "spgwu" /\ m.cp = t
  \/ m.to = "pgwc" /\ m.seid = t
  \/ m.type # "establishment" /\ m.to = "spgwu" /\ m.seid \in DOMAIN sessions
       /\ sessions[m.seid].cp = t

NamesConnection(m) ==
  \/ m.to = "pgwc" /\ m.seid # NoSeid
  \/ m.to = "spgwu" /\ (m.type = "establishment" \/ m.seid \in DOMAIN sessions)

ProcedureOf(m, p) ==
  /\ m.type = "establishment" => p.type = "establishment"
  /\ m.type = "modify"        => p.type \in {"modify", "release"}
  /\ m.type = "delete"        => p.type = "delete"
  /\ NamesConnection(m)       => About(m, p.pdn)

Placed ==
  \A c \in DOMAIN pc : \A p \in Procs(c) :
    p.pdn \in DOMAIN seid2pgw_context /\ seid2pgw_context[p.pdn] = c

Ids ==
  /\ \A p \in AllProcs : p.id \in Uids /\ (p.type # "establishment" => p.pdn \in told)
  /\ \A p, q \in AllProcs : p.id = q.id => p = q
  /\ \A m \in sx : m.id \in Uids
  /\ \A m, n \in sx : m.id = n.id => m = n
  /\ \A m \in sx : m.type = "report" => \A p \in AllProcs : p.id # m.id
  /\ \A m \in sx : m.type # "report" => \E p \in AllProcs : p.id = m.id /\ ProcedureOf(m, p)

\* The sessions of SPGW-U and the messages that make and end them.
Sessions ==
  /\ DOMAIN sessions \subseteq 1..up_seid
  /\ \A s \in DOMAIN sessions :
       sessions[s].cp \in Established /\ sessions[s].addr \in {NoAddress, pdn[sessions[s].cp].addr}
  /\ \A s, r \in DOMAIN sessions : sessions[s].cp = sessions[r].cp => s = r
  /\ \A t \in told \cap DOMAIN pdn :
       pdn[t].up_fseid \in DOMAIN sessions => sessions[pdn[t].up_fseid].cp = t
  /\ \A s \in DOMAIN sessions :
       sessions[s].cp \in told => pdn[sessions[s].cp].up_fseid = s
  /\ \A m \in sx : m.type = "establishment" /\ m.to = "spgwu" =>
       /\ m.cp \in DOMAIN pdn /\ m.cp \in DOMAIN seid2pgw_context /\ m.cp \notin told
       /\ \A s \in DOMAIN sessions : sessions[s].cp # m.cp
       /\ \A n \in sx : n.type = "establishment" /\ n.to = "pgwc" => n.seid # m.cp
       /\ \A n \in sx : n.type = "establishment" /\ n.to = "spgwu" /\ n.cp = m.cp => n = m
  /\ \A m \in sx : m.type = "establishment" /\ m.to = "pgwc" =>
       /\ m.seid \in DOMAIN pdn /\ m.seid \in DOMAIN seid2pgw_context /\ m.seid \notin told
       /\ m.up \in 1..up_seid
       /\ m.up \in DOMAIN sessions => sessions[m.up].cp = m.seid
       /\ \A s \in DOMAIN sessions : sessions[s].cp = m.seid => s = m.up
       /\ \A n \in sx : n.type = "establishment" /\ n.to = "pgwc" /\ n.seid = m.seid => n = m
  /\ \A m \in sx : m.type \in {"modify", "delete"} /\ m.to = "spgwu" => m.seid \in 1..up_seid
  /\ \A m \in sx : m.type = "modify" /\ m.to = "spgwu" =>
       /\ m.rules = "update" => m.ul # "none"
       /\ m.rules = "create" /\ m.seid \in DOMAIN sessions =>
            m.addr = pdn[sessions[m.seid].cp].addr
  /\ \A m \in sx : m.type = "delete" /\ m.to = "pgwc" /\ m.seid # NoSeid =>
       /\ m.seid \in told \cap DOMAIN pdn
       /\ \A s \in DOMAIN sessions : sessions[s].cp # m.seid
       /\ \A n \in sx : n.type = "delete" /\ n.to = "pgwc" /\ n.seid = m.seid => n = m
  /\ \A m \in sx : m.type \in {"modify", "report"} /\ m.to = "pgwc" =>
       m.seid \in Teids \cup {NoSeid}
  /\ \A m \in sx : m.type = "report" => m.seid # NoSeid

\* The path PGW-C has stored for a connection, against the one SPGW-U has.
Pending(t) == {p \in AllProcs : p.pdn = t /\ p.type # "ddn"}

Accepted(m, p) == m.type = "modify" /\ m.to = "pgwc" /\ m.accepted /\ m.id = p.id

Stored(t) ==
  ~pdn[t].released /\ pdn[t].sgw_fteid # NoFteid =>
    sessions[pdn[t].up_fseid].dl = pdn[t].sgw_fteid

Path ==
  /\ \A p, q \in AllProcs :
       p.pdn = q.pdn /\ p.pdn \notin overlapped /\ p.type # "ddn" /\ q.type # "ddn" => p = q
  /\ \A p \in AllProcs : p.pdn \notin overlapped /\ p.pdn \in DOMAIN pdn =>
       /\ p.type = "release" => pdn[p.pdn].released
       /\ p.type = "modify"  => p.fteid # NoFteid
  /\ \A p \in AllProcs : \A m \in sx :
       p.type = "modify" /\ m.id = p.id /\ m.to = "spgwu" => m.dl = p.fteid
  /\ \A t \in DOMAIN pdn : t \notin told => pdn[t].sgw_fteid = NoFteid
  /\ \A m \in sx : m.type = "modify" /\ m.to = "pgwc" => (m.created => m.accepted)
  /\ \A t \in (told \cap DOMAIN pdn) \ overlapped :
       pdn[t].up_fseid \in DOMAIN sessions \ {deleting} =>
         /\ \A p \in Pending(t) : \A m \in sx :
              p.type = "modify" /\ Accepted(m, p) =>
                sessions[pdn[t].up_fseid].dl = p.fteid
         /\ \/ Stored(t)
            \/ \E p \in Pending(t) : \E m \in sx : p.type = "modify" /\ Accepted(m, p)

\* SGW-C knows connection t, and SPGW-U has not answered that it is deleted: it
\* will not, once its session is erased.
Kept(t) ==
  /\ t \in told \cap DOMAIN pdn
  /\ \A n \in sx : n.type = "delete" /\ n.to = "pgwc" => n.seid # t

\* The two tasks of SPGW-U. A modification that has found its session is about a
\* connection that is kept, even if the session is erased meanwhile.
Found(h) ==
  /\ h.req \in sx /\ h.req.to = "spgwu" /\ h.req.type = "modify"
  /\ Kept(h.cp) /\ pdn[h.cp].up_fseid = h.req.seid
  /\ h.req.rules = "create" => h.req.addr = pdn[h.cp].addr
  /\ \A p \in AllProcs : p.id = h.req.id => p.pdn = h.cp

Tasks ==
  /\ \A h \in modifying : Found(h)
  /\ \A s \in DOMAIN sessions :
       /\ sessions[s].addr # NoAddress => sessions[s].cp \in told
       /\ s # deleting => sessions[s].ul # "none"

\* The entry of a leads to a session with that address, or session s is erased,
\* and the connection it was made for is kept and still has the address.
Live(a) == ue_ip[a] \in DOMAIN sessions /\ sessions[ue_ip[a]].addr = a

HeldBy(t, a, s) == Kept(t) /\ pdn[t].addr = a /\ pdn[t].up_fseid = s

Stale(a) ==
  /\ ue_ip[a] \in 1..up_seid /\ ue_ip[a] \notin DOMAIN sessions
  /\ a \in DynamicAddresses => \E t \in told : HeldBy(t, a, ue_ip[a])

Led(s) ==
  sessions[s].dl # NoRule /\ sessions[s].addr \in DynamicAddresses =>
    sessions[s].addr \in DOMAIN ue_ip /\ ue_ip[sessions[s].addr] = s

Routes ==
  /\ \A a \in DOMAIN ue_ip : Live(a) \/ Stale(a)
  /\ \A s \in DOMAIN sessions : Led(s)

IInv ==
  /\ Shapes /\ Tables /\ Connections /\ Pool
  /\ Placed /\ Ids /\ Sessions /\ Tasks /\ Routes /\ Path


------------------------------------------------------------------------------
(* The pool *)

\* The word and the bit of an address.
LEMMA WordAndBit ==
  ASSUME NEW a \in Int
  PROVE  /\ a \div WordBits \in Int /\ a % WordBits \in FullWord
         /\ a = (a \div WordBits) * WordBits + (a % WordBits)
  BY WordBitsAssumption DEF FullWord

\* No other word and bit are those of the address.
LEMMA OneWordAndBit ==
  ASSUME NEW w \in Int, NEW b \in FullWord
  PROVE  /\ w * WordBits + b \in Int
         /\ (w * WordBits + b) \div WordBits = w /\ (w * WordBits + b) % WordBits = b
  BY WordBitsAssumption DEF FullWord

\* Addresses in order have their words in order.
LEMMA WordsInOrder ==
  ASSUME NEW a \in Int, NEW b \in Int, a <= b
  PROVE  a \div WordBits <= b \div WordBits
  BY WordBitsAssumption, WordAndBit DEF FullWord

\* The bitmap al covers the addresses of the pool.
Covers(al) ==
  /\ IsMap(al) /\ DOMAIN al = 0..(Num - 1) \div WordBits
  /\ \A w \in DOMAIN al : al[w] \subseteq FullWord

\* How many words there are.
LEMMA Words ==
  /\ (Num - 1) \div WordBits \in Int /\ (Num - 1) \div WordBits >= -1
  /\ \A a \in Int : a >= 0 /\ a < Num => a \div WordBits \in 0..(Num - 1) \div WordBits
<1>1. Num - 1 \in Int /\ Num - 1 >= -1 /\ Num \in Nat
  BY NamesAssumption
<1>2. (Num - 1) \div WordBits \in Int
  BY <1>1, WordAndBit
<1>3. (-1) \div WordBits >= -1 /\ 0 \div WordBits = 0
  <2>1. 0 \in FullWord /\ WordBits - 1 \in FullWord /\ WordBits \in Int
    BY WordBitsAssumption DEF FullWord
  <2>2. (0 * WordBits + 0) \div WordBits = 0
    BY <2>1, OneWordAndBit
  <2>3. PICK w \in Int, b \in FullWord : w = -1 /\ b = WordBits - 1
    BY <2>1
  <2>4. (w * WordBits + b) \div WordBits = w
    BY <2>3, OneWordAndBit
  <2>5. 0 * WordBits + 0 = 0 /\ w * WordBits + b = -1
    BY <2>1, <2>3
  <2> QED  BY <2>2, <2>3, <2>4, <2>5
<1>4. (Num - 1) \div WordBits >= -1
  <2>1. -1 \in Int /\ (-1) \div WordBits \in Int
    BY WordAndBit
  <2>2. (-1) \div WordBits <= (Num - 1) \div WordBits
    BY <1>1, <2>1, WordsInOrder
  <2> QED  BY <1>2, <1>3, <2>1, <2>2
<1>5. ASSUME NEW a \in Int, a >= 0, a < Num
      PROVE  a \div WordBits \in 0..(Num - 1) \div WordBits
  <2>1. 0 <= a /\ a <= Num - 1
    BY <1>1, <1>5
  <2>2. 0 \div WordBits <= a \div WordBits /\ a \div WordBits <= (Num - 1) \div WordBits
    BY <1>1, <2>1, WordsInOrder
  <2>3. a \div WordBits \in Int
    BY WordAndBit
  <2> QED  BY <1>2, <1>3, <2>2, <2>3
<1> QED  BY <1>2, <1>4, <1>5

\* The bits that are free, without their enumeration.
LEMMA FreeBitsAre ==
  ASSUME NEW al, Covers(al)
  PROVE  /\ FreeBits(al) \subseteq Nat
         /\ \A a \in Int : a \in FreeBits(al) <=>
              a \div WordBits \in DOMAIN al /\ a % WordBits \notin al[a \div WordBits]
<1> DEFINE K == (Num - 1) \div WordBits
<1>1. K \in Int /\ K >= -1
  BY Words
<1>2. Cardinality(0..K) = K + 1
  <2>1. CASE K >= 0
    BY <1>1, <2>1, FS_Interval
  <2>2. CASE K = -1
    <3>1. 0..K = {}
      BY <2>2
    <3> QED  BY <2>2, <3>1, FS_EmptySet
  <2> HIDE DEF K
  <2> QED  BY <1>1, <2>1, <2>2
<1>3. 0..Cardinality(DOMAIN al) - 1 = DOMAIN al /\ DOMAIN al \subseteq Nat
  <2>1. DOMAIN al = 0..K
    BY DEF Covers
  <2> HIDE DEF K
  <2> QED  BY <1>1, <1>2, <2>1
<1>4. FreeBits(al) = UNION {{w * WordBits + b : b \in FullWord \ al[w]} : w \in DOMAIN al}
  <2>1. \A w \in DOMAIN al : WordAt(al, w) = al[w]
    BY DEF WordAt
  <2> QED  BY ZenonT(60), <1>3, <2>1 DEF FreeBits
<1>5. ASSUME NEW a \in FreeBits(al)
      PROVE  a \in Nat /\ a \div WordBits \in DOMAIN al /\ a % WordBits \notin al[a \div WordBits]
  <2>1. PICK w \in DOMAIN al : \E b \in FullWord \ al[w] : a = w * WordBits + b
    BY <1>4, <1>5
  <2>2. PICK b \in FullWord \ al[w] : a = w * WordBits + b
    BY <2>1
  <2>3. w \in Nat /\ b \in Nat /\ WordBits \in Nat
    BY <1>3, WordBitsAssumption DEF FullWord
  <2>4. a \in Nat
    BY <2>2, <2>3
  <2> QED  BY <2>2, <2>3, <2>4, OneWordAndBit
<1>6. ASSUME NEW a \in Int, a \div WordBits \in DOMAIN al, a % WordBits \notin al[a \div WordBits]
      PROVE  a \in FreeBits(al)
  <2>1. a = (a \div WordBits) * WordBits + (a % WordBits) /\ a % WordBits \in FullWord
    BY WordAndBit
  <2> QED  BY <1>4, <1>6, <2>1
<1> QED  BY <1>5, <1>6

\* The address that is given out is free.
LEMMA FreeBitIsFree ==
  ASSUME NEW al, Covers(al), FreeBits(al) # {}
  PROVE  FreeBit(al) \in FreeBits(al)
<1>1. FreeBits(al) \subseteq Nat
  BY FreeBitsAre
<1>2. \E x \in FreeBits(al) : \A y \in FreeBits(al) : x <= y
  <2>1. PICK x \in FreeBits(al) : \A y \in FreeBits(al) : ~ (<<y, x>> \in OpToRel(<, Nat))
    BY Zenon, <1>1, NatLessThanWellFounded, WFMin
  <2>2. ASSUME NEW y \in FreeBits(al) PROVE x <= y
    <3>1. SUFFICES ASSUME ~(x <= y) PROVE FALSE
      OBVIOUS
    <3>2. x \in Nat /\ y \in Nat
      BY <1>1
    <3>3. <<y, x>> \in Nat \X Nat /\ y < x
      BY <3>1, <3>2
    <3>4. <<y, x>> \in OpToRel(<, Nat)
      BY <3>3, Zenon DEF OpToRel
    <3> QED  BY Zenon, <2>1, <3>4
  <2> QED  BY <2>2
<1> QED  BY <1>2 DEF FreeBit, Min

\* The pool starts with all its addresses free.
LEMMA NewPoolFree ==
  Covers(NewPool(Num)) /\ FreeBits(NewPool(Num)) = DynamicAddresses
<1> DEFINE al == NewPool(Num)
           K  == (Num - 1) \div WordBits
<1>0. Num \in Nat /\ WordBits \in Nat \ {0}
  BY NamesAssumption, WordBitsAssumption
<1>1. al = [w \in 0..K |-> {b \in FullWord : w * WordBits + b >= Num}]
  BY DEF NewPool
<1>2. K \in Int
  BY Words
<1>3. \A a \in DynamicAddresses : a \in Int /\ a >= 0 /\ a < Num /\ a \div WordBits \in 0..K
  BY <1>0, Words DEF DynamicAddresses
<1> HIDE DEF al, K
<1>4. Covers(al)
  BY <1>1 DEF Covers, IsMap, K
<1>5. ASSUME NEW a \in Int
      PROVE  a \in FreeBits(al) <=> a \in DynamicAddresses
  <2>1. /\ a \div WordBits \in Int /\ a % WordBits \in FullWord
        /\ a = (a \div WordBits) * WordBits + (a % WordBits)
    BY WordAndBit
  <2>2. a \in FreeBits(al) <=> a \div WordBits \in DOMAIN al /\ a % WordBits \notin al[a \div WordBits]
    BY <1>4, FreeBitsAre
  <2>3. a \in FreeBits(al) <=> a \div WordBits \in 0..K /\ a < Num
    BY <1>0, <1>1, <2>1, <2>2
  <2>4. a \div WordBits \in 0..K => a >= 0
    <3>1. a < 0 => a \div WordBits < 0
      <4>1. ASSUME a \div WordBits >= 0 PROVE a >= 0
        <5>1. (a \div WordBits) * WordBits >= 0
          BY <1>0, <2>1, <4>1
        <5>2. a % WordBits >= 0
          BY <2>1, <1>0 DEF FullWord
        <5>3. PICK x \in Int, y \in Int : a = x + y /\ x >= 0 /\ y >= 0
          BY <1>0, <2>1, <5>1, <5>2 DEF FullWord
        <5> QED  BY <5>3
      <4> QED  BY <2>1, <4>1
    <3> QED  BY <2>1, <3>1
  <2> QED  BY <1>0, <1>3, <2>3, <2>4 DEF DynamicAddresses
<1>6. FreeBits(al) \subseteq Int /\ DynamicAddresses \subseteq Int
  BY <1>4, <1>3, FreeBitsAre
<1>7. FreeBits(al) = DynamicAddresses
  <2>1. \A a : a \in FreeBits(al) => a \in DynamicAddresses
    BY <1>5, <1>6
  <2>2. \A a : a \in DynamicAddresses => a \in FreeBits(al)
    BY <1>5, <1>6
  <2> QED  BY <2>1, <2>2
<1> QED  BY <1>4, <1>7 DEF al

\* The bits of one word change, in a pool that stays as it is otherwise.
LEMMA AssignWord ==
  ASSUME NEW al, Covers(al), NEW w \in DOMAIN al, NEW S, S \subseteq FullWord
  PROVE  /\ Covers(MapAssign(al, w, S))
         /\ \A v \in DOMAIN al : MapAssign(al, w, S)[v] = IF v = w THEN S ELSE al[v]
  BY DEF Covers, MapAssign, IsMap

\* An address that is given out is free no longer, the others are what they were.
LEMMA AllocBitTakes ==
  ASSUME NEW al, Covers(al), FreeBits(al) # {}
  PROVE  Covers(AllocBit(al)) /\ FreeBits(AllocBit(al)) = FreeBits(al) \ {FreeBit(al)}
<1> DEFINE a == FreeBit(al)
           w == a \div WordBits
           b == a % WordBits
           S == al[w] \cup {b}
<1>1. a \in FreeBits(al) /\ a \in Int
  BY FreeBitIsFree, FreeBitsAre
<1>2. w \in DOMAIN al /\ b \notin al[w] /\ b \in FullWord /\ a = w * WordBits + b
  BY <1>1, FreeBitsAre, WordAndBit
<1>3. S \subseteq FullWord
  BY <1>2 DEF Covers
<1>4. AllocBit(al) = MapAssign(al, w, S)
  BY <1>2 DEF AllocBit, WordAt
<1>5. /\ Covers(AllocBit(al)) /\ DOMAIN AllocBit(al) = DOMAIN al
      /\ \A v \in DOMAIN al : AllocBit(al)[v] = IF v = w THEN S ELSE al[v]
  <2> HIDE DEF w, S
  <2>1. /\ Covers(MapAssign(al, w, S))
        /\ \A v \in DOMAIN al : MapAssign(al, w, S)[v] = IF v = w THEN S ELSE al[v]
    BY <1>2, <1>3, AssignWord
  <2> QED  BY <1>4, <2>1 DEF Covers
<1> HIDE DEF w, b, a
<1>6. ASSUME NEW x \in Int
      PROVE  x \in FreeBits(AllocBit(al)) <=> x \in FreeBits(al) /\ x # a
  <2>1. /\ x \in FreeBits(AllocBit(al)) <=>
             x \div WordBits \in DOMAIN al /\ x % WordBits \notin AllocBit(al)[x \div WordBits]
        /\ x \in FreeBits(al) <=>
             x \div WordBits \in DOMAIN al /\ x % WordBits \notin al[x \div WordBits]
    BY <1>5, FreeBitsAre
  <2>2. x = (x \div WordBits) * WordBits + (x % WordBits)
    BY WordAndBit
  <2>3. x \div WordBits = w /\ x % WordBits = b <=> x = a
    BY <1>2, <2>2 DEF w, b
  <2> QED  BY <1>5, <2>1, <2>3
<1>7. FreeBits(AllocBit(al)) \subseteq Int /\ FreeBits(al) \subseteq Int
  BY <1>5, FreeBitsAre
<1>8. FreeBits(AllocBit(al)) = FreeBits(al) \ {a}
  BY <1>6, <1>7
<1> QED  BY <1>5, <1>8 DEF a

\* An address of the pool that goes back is free, the others are what they were;
\* the static ones past its end are not of the pool.
LEMMA FreeAddressFrees ==
  ASSUME NEW al, Covers(al), NEW a \in DynamicAddresses \cup Statics, StaticsPastPool
  PROVE  /\ Covers(FreeAddress(al, Num, a))
         /\ FreeBits(FreeAddress(al, Num, a)) = FreeBits(al) \cup ({a} \cap DynamicAddresses)
<1>1. CASE a \notin DynamicAddresses
  <2>1. a \in Statics /\ a \in Int /\ Num \in Int /\ a >= Num
    <3>1. a \in Statics
      BY <1>1
    <3>2. a >= Num
      BY <3>1, StaticsPastPool DEF StaticsPastPool
    <3>3. Statics \subseteq Int /\ Num \in Int
      BY NamesAssumption
    <3> QED  BY <3>1, <3>2, <3>3
  <2>2. ~(a < Num)
    BY <2>1
  <2>3. FreeAddress(al, Num, a) = al
    BY <2>2 DEF FreeAddress
  <2> QED  BY <1>1, <2>3
<1>2. CASE a \in DynamicAddresses
  <2> DEFINE w == a \div WordBits
             b == a % WordBits
             S == al[w] \ {b}
             F == FreeAddress(al, Num, a)
  <2>1. a \in Int /\ a >= 0 /\ a < Num
    BY <1>2, NamesAssumption DEF DynamicAddresses
  <2>2. w \in DOMAIN al /\ b \in FullWord /\ a = w * WordBits + b
    BY <2>1, Words, WordAndBit DEF Covers
  <2>3. S \subseteq FullWord
    BY <2>2 DEF Covers
  <2>4. F = MapAssign(al, w, S)
    BY <2>1, <2>2 DEF FreeAddress, ClearBit, WordAt
  <2>5. /\ Covers(F) /\ DOMAIN F = DOMAIN al
        /\ \A v \in DOMAIN al : F[v] = IF v = w THEN S ELSE al[v]
    <3> HIDE DEF w, S, F
    <3>1. /\ Covers(MapAssign(al, w, S))
          /\ \A v \in DOMAIN al : MapAssign(al, w, S)[v] = IF v = w THEN S ELSE al[v]
      BY <2>2, <2>3, AssignWord
    <3> QED  BY <2>4, <3>1 DEF Covers
  <2> HIDE DEF w, b, F
  <2>6. ASSUME NEW x \in Int
        PROVE  x \in FreeBits(F) <=> x \in FreeBits(al) \/ x = a
    <3>1. /\ x \in FreeBits(F) <=>
               x \div WordBits \in DOMAIN al /\ x % WordBits \notin F[x \div WordBits]
          /\ x \in FreeBits(al) <=>
               x \div WordBits \in DOMAIN al /\ x % WordBits \notin al[x \div WordBits]
      BY <2>5, FreeBitsAre
    <3>2. x = (x \div WordBits) * WordBits + (x % WordBits)
      BY WordAndBit
    <3>3. x \div WordBits = w /\ x % WordBits = b <=> x = a
      BY <2>2, <3>2 DEF w, b
    <3> QED  BY <2>2, <2>5, <3>1, <3>3
  <2>7. FreeBits(F) \subseteq Int /\ FreeBits(al) \subseteq Int
    BY <2>5, FreeBitsAre
  <2>8. FreeBits(F) = FreeBits(al) \cup {a}
    BY <2>1, <2>6, <2>7
  <2> QED  BY <1>2, <2>5, <2>8 DEF F
<1> QED  BY <1>1, <1>2

------------------------------------------------------------------------------
(* Contexts and their procedures *)

\* Contexts keep their subscribers and connections.
SameContexts ==
  /\ DOMAIN pc' = DOMAIN pc
  /\ \A c \in DOMAIN pc : pc'[c].imsi = pc[c].imsi /\ pc'[c].apns = pc[c].apns

\* A context and what it has are typed.
LEMMA ContextTyped ==
  ASSUME Shapes, NEW c \in DOMAIN pc
  PROVE  /\ pc[c] \in ContextRecords /\ pc[c].imsi \in IMSIs
         /\ pc[c].apns \subseteq SUBSET Nat /\ Procs(c) \subseteq ProcRecords
  BY DEF Shapes, ContextRecords, Procs

\* The procedures of one context become S.
LEMMA ProceduresChange ==
  ASSUME Shapes, NEW c \in DOMAIN pc, NEW S, S \subseteq ProcRecords,
         pc' = [pc EXCEPT ![c].pending_procedures = S]
  PROVE  /\ SameContexts
         /\ pc' \in [DOMAIN pc' -> ContextRecords]
         /\ \A d \in DOMAIN pc : pc'[d].pending_procedures = IF d = c THEN S ELSE Procs(d)
<1>1. pc \in [DOMAIN pc -> ContextRecords] /\ pc[c] \in ContextRecords
  BY DEF Shapes
<1>2. DOMAIN pc' = DOMAIN pc /\ \A d \in DOMAIN pc : d # c => pc'[d] = pc[d]
  BY <1>1
<1>3. pc'[c] = [pc[c] EXCEPT !.pending_procedures = S]
  BY <1>1
<1>4. pc'[c] \in ContextRecords /\ pc'[c].pending_procedures = S
      /\ pc'[c].imsi = pc[c].imsi /\ pc'[c].apns = pc[c].apns
  BY <1>1, <1>3 DEF ContextRecords
<1>5. pc' \in [DOMAIN pc' -> ContextRecords]
  <2>1. pc' = [d \in DOMAIN pc |-> pc'[d]]
    OBVIOUS
  <2>2. \A d \in DOMAIN pc : pc'[d] \in ContextRecords
    BY <1>1, <1>2, <1>4
  <2> QED  BY <1>2, <2>1, <2>2
<1> QED  BY <1>2, <1>4, <1>5 DEF SameContexts, Procs

\* A procedure p of a connection comes into its context.
LEMMA ProcedureAdded ==
  ASSUME Shapes, Placed, NEW c \in DOMAIN pc, NEW p \in ProcRecords,
         p.pdn \in DOMAIN seid2pgw_context, seid2pgw_context[p.pdn] = c,
         UNCHANGED seid2pgw_context,
         pc' = [pc EXCEPT ![c].pending_procedures = @ \cup {p}]
  PROVE  /\ SameContexts /\ pc' \in [DOMAIN pc' -> ContextRecords]
         /\ Placed' /\ AllProcs' = AllProcs \cup {p}
<1> DEFINE S == Procs(c) \cup {p}
<1>1. S \subseteq ProcRecords
  BY ContextTyped
<1>2. pc' = [pc EXCEPT ![c].pending_procedures = S]
  BY DEF Procs
<1> HIDE DEF S
<1>3. /\ SameContexts /\ pc' \in [DOMAIN pc' -> ContextRecords]
      /\ \A d \in DOMAIN pc : pc'[d].pending_procedures = IF d = c THEN S ELSE Procs(d)
  BY ZenonT(60), <1>1, <1>2, ProceduresChange
<1>4. Placed'
  BY <1>3 DEF Placed, Procs, SameContexts, S
<1>5. AllProcs' = AllProcs \cup {p}
  BY <1>3 DEF AllProcs, Procs, SameContexts, S
<1> QED  BY <1>3, <1>4, <1>5

\* A procedure leaves its context.
LEMMA ProcedureRemoved ==
  ASSUME Shapes, Placed, NEW c \in DOMAIN pc, NEW p \in Procs(c),
         UNCHANGED seid2pgw_context,
         pc' = [pc EXCEPT ![c].pending_procedures = @ \ {p}]
  PROVE  /\ SameContexts /\ pc' \in [DOMAIN pc' -> ContextRecords]
         /\ Placed' /\ AllProcs' = AllProcs \ {p}
<1> DEFINE S == Procs(c) \ {p}
<1>1. S \subseteq ProcRecords
  BY ContextTyped
<1>2. pc' = [pc EXCEPT ![c].pending_procedures = S]
  BY DEF Procs
<1> HIDE DEF S
<1>3. /\ SameContexts /\ pc' \in [DOMAIN pc' -> ContextRecords]
      /\ \A d \in DOMAIN pc : pc'[d].pending_procedures = IF d = c THEN S ELSE Procs(d)
  BY <1>1, <1>2, ProceduresChange
<1>4. Placed'
  BY <1>3 DEF Placed, Procs, SameContexts, S
<1>5. \A d \in DOMAIN pc : p \in Procs(d) => d = c
  BY DEF Placed
<1>6. AllProcs' = AllProcs \ {p}
  BY <1>3, <1>5 DEF AllProcs, Procs, SameContexts, S
<1> QED  BY <1>3, <1>4, <1>6

\* The tables do not depend on procedures, nor on what connections hold.
LEMMA TablesKept ==
  ASSUME Tables, SameContexts, DOMAIN pdn' = DOMAIN pdn,
         UNCHANGED <<imsi2pgw_context, s5s8lteid2pgw_context, seid2pgw_context, teid>>
  PROVE  Tables'
<1>1. \A c \in DOMAIN pc : ConnsOf(c)' = ConnsOf(c)
  BY DEF SameContexts, ConnsOf
<1> QED  BY <1>1 DEF Tables, SameContexts, Teids

\* Nothing the pool depends on changes.
SameAddresses ==
  /\ DOMAIN pdn' = DOMAIN pdn
  /\ \A t \in DOMAIN pdn : pdn'[t].addr = pdn[t].addr /\ pdn'[t].seid = pdn[t].seid

\* The pool depends on the addresses of established connections only.
LEMMA PoolKept ==
  ASSUME Pool, SameAddresses, UNCHANGED alloc
  PROVE  Pool' /\ Established' = Established
<1>1. Established' = Established
  BY DEF SameAddresses, Established
<1>2. {pdn'[t].addr : t \in Established} = {pdn[t].addr : t \in Established}
  BY DEF SameAddresses, Established
<1>3. PoolAgrees'
  BY <1>1, <1>2 DEF Pool, PoolAgrees
<1>4. \A t \in Established : pdn'[t].addr = pdn[t].addr
  BY DEF SameAddresses, Established
<1> QED  BY <1>1, <1>3, <1>4 DEF Pool

------------------------------------------------------------------------------
(* Procedures and messages *)

\* Sessions stay with their connections; one that is new has the next SEID.
SessionsStay ==
  \A s \in DOMAIN sessions' :
    \/ s = up_seid + 1
    \/ s \in DOMAIN sessions /\ sessions'[s].cp = sessions[s].cp

SeidsGiven ==
  /\ up_seid \in Nat
  /\ \A m \in sx : m.type \in {"modify", "delete"} /\ m.to = "spgwu" => m.seid \in 1..up_seid

\* Its type and receiver tell what record a message is.
LEMMA MessageKinds ==
  ASSUME Shapes, NEW m \in sx
  PROVE  /\ m.type \in {"establishment", "modify", "delete", "report"}
         /\ m.to \in {"spgwu", "pgwc"} /\ m.id \in Nat /\ m.seid \in Nat
         /\ m.type = "report" => m \in Reports /\ m.to = "pgwc"
         /\ m.type = "establishment" /\ m.to = "spgwu" => m \in EstReqs
         /\ m.type = "modify" /\ m.to = "spgwu" => m \in ModReqs
         /\ m.type = "delete" /\ m.to = "spgwu" => m \in DelReqs
         /\ m.type = "establishment" /\ m.to = "pgwc" => m \in EstResps
         /\ m.type = "modify" /\ m.to = "pgwc" => m \in ModResps
         /\ m.type = "delete" /\ m.to = "pgwc" => m \in DelResps
  BY DEF Shapes, MsgRecords, EstReqs, ModReqs, DelReqs, EstResps, ModResps, DelResps,
         Reports, NoSeid

\* A message that is under way stays the message of its procedure.
LEMMA ProcedureStays ==
  ASSUME Shapes, SeidsGiven, SessionsStay, NEW m \in sx, NEW p, ProcedureOf(m, p)
  PROVE  ProcedureOf(m, p)'
<1>0. m.to = "spgwu" /\ m.type # "establishment" /\ m.seid \in DOMAIN sessions' =>
        m.seid \in DOMAIN sessions /\ sessions'[m.seid].cp = sessions[m.seid].cp
  <2> SUFFICES ASSUME m.to = "spgwu", m.type # "establishment", m.seid \in DOMAIN sessions'
               PROVE  m.seid \in DOMAIN sessions /\ sessions'[m.seid].cp = sessions[m.seid].cp
    OBVIOUS
  <2>1. m.type \in {"modify", "delete"}
    BY MessageKinds
  <2>2. m.seid \in 1..up_seid /\ up_seid \in Nat
    BY <2>1 DEF SeidsGiven
  <2> QED  BY <2>2 DEF SessionsStay
<1>1. NamesConnection(m)' => NamesConnection(m)
  BY <1>0, MessageKinds DEF NamesConnection
<1>2. NamesConnection(m)' /\ About(m, p.pdn) => About(m, p.pdn)'
  BY <1>0, MessageKinds DEF NamesConnection, About
<1> QED  BY <1>1, <1>2 DEF ProcedureOf

\* PGW-C starts procedure p with message m.
LEMMA IdsRequest ==
  ASSUME Shapes, SeidsGiven, SessionsStay, Ids, NEW p, NEW m,
         told \subseteq told', uid' = uid + 1, p.id = uid + 1, m.id = uid + 1,
         AllProcs' = AllProcs \cup {p}, sx' = sx \cup {m},
         m.type # "report", ProcedureOf(m, p)', p.type # "establishment" => p.pdn \in told
  PROVE  Ids'
<1>1. uid \in Nat /\ Uids \subseteq Uids' /\ uid + 1 \in Uids' /\ uid + 1 \notin Uids
  BY DEF Shapes, Uids
<1>2. \A q \in AllProcs : q.id # uid + 1
  BY <1>1 DEF Ids
<1>3. \A n \in sx : n.id # uid + 1
  BY <1>1 DEF Ids
<1>4. \A n \in sx : n.type # "report" => \E q \in AllProcs : q.id = n.id /\ ProcedureOf(n, q)'
  BY ProcedureStays DEF Ids
<1> QED  BY <1>1, <1>2, <1>3, <1>4 DEF Ids

\* SPGW-U answers m by n.
LEMMA IdsReply ==
  ASSUME Shapes, SeidsGiven, SessionsStay, Ids, NEW m \in sx, NEW n,
         UNCHANGED <<told, uid>>, AllProcs' = AllProcs, sx' = (sx \ {m}) \cup {n},
         n.id = m.id, m.type # "report", n.type # "report",
         \A p \in AllProcs : p.id = m.id /\ ProcedureOf(m, p) => ProcedureOf(n, p)'
  PROVE  Ids'
<1>1. Uids' = Uids
  BY DEF Uids
<1>2. \A k \in sx : k.type # "report" => \E q \in AllProcs : q.id = k.id /\ ProcedureOf(k, q)'
  BY ProcedureStays DEF Ids
<1>3. \E q \in AllProcs : q.id = n.id /\ ProcedureOf(n, q)'
  BY DEF Ids
<1> QED  BY <1>1, <1>2, <1>3 DEF Ids

\* Message m ends procedure p.
LEMMA IdsEnd ==
  ASSUME Shapes, SeidsGiven, SessionsStay, Ids, NEW m \in sx, NEW p \in AllProcs,
         told \subseteq told', UNCHANGED uid, p.id = m.id,
         AllProcs' = AllProcs \ {p}, sx' = sx \ {m}
  PROVE  Ids'
<1>1. Uids' = Uids
  BY DEF Uids
<1>2. \A k \in sx : k.type # "report" => \E q \in AllProcs : q.id = k.id /\ ProcedureOf(k, q)'
  BY ProcedureStays DEF Ids
<1>3. \A k \in sx : k # m => k.id # p.id
  BY DEF Ids
<1>4. \A k \in sx' : k.type # "report" => \E q \in AllProcs' : q.id = k.id /\ ProcedureOf(k, q)'
  BY <1>2, <1>3
<1> QED  BY <1>1, <1>4 DEF Ids

\* SPGW-U reports a packet by m.
LEMMA IdsReport ==
  ASSUME Shapes, SeidsGiven, SessionsStay, Ids, NEW m, m.type = "report", m.id = uid + 1,
         UNCHANGED told, uid' = uid + 1, AllProcs' = AllProcs, sx' = sx \cup {m}
  PROVE  Ids'
<1>1. uid \in Nat /\ Uids \subseteq Uids' /\ uid + 1 \in Uids' /\ uid + 1 \notin Uids
  BY DEF Shapes, Uids
<1>2. \A q \in AllProcs : q.id # uid + 1
  BY <1>1 DEF Ids
<1>3. \A n \in sx : n.id # uid + 1
  BY <1>1 DEF Ids
<1>4. \A n \in sx : n.type # "report" => \E q \in AllProcs : q.id = n.id /\ ProcedureOf(n, q)'
  BY ProcedureStays DEF Ids
<1> QED  BY <1>1, <1>2, <1>3, <1>4 DEF Ids

\* Report m starts procedure p.
LEMMA IdsNotified ==
  ASSUME Shapes, SeidsGiven, SessionsStay, Ids, NEW m \in sx, NEW p, m.type = "report",
         UNCHANGED <<told, uid>>, p.id = m.id, p.pdn \in told,
         AllProcs' = AllProcs \cup {p}, sx' = sx \ {m}
  PROVE  Ids'
<1>1. Uids' = Uids
  BY DEF Uids
<1>2. \A n \in sx : n.type # "report" => \E q \in AllProcs : q.id = n.id /\ ProcedureOf(n, q)'
  BY ProcedureStays DEF Ids
<1>3. \A q \in AllProcs : q.id # p.id
  BY DEF Ids
<1>4. \A n \in sx \ {m} : n.id # p.id
  BY DEF Ids
<1> QED  BY <1>1, <1>2, <1>3, <1>4 DEF Ids

\* Messages and procedures that do not matter any more may go.
LEMMA IdsFewer ==
  ASSUME Shapes, SeidsGiven, SessionsStay, Ids, UNCHANGED <<told, uid>>,
         AllProcs' \subseteq AllProcs, sx' \subseteq sx,
         \A p \in AllProcs : p \in AllProcs' \/ p.type = "ddn"
  PROVE  Ids'
<1>1. Uids' = Uids
  BY DEF Uids
<1>2. \A n \in sx : n.type # "report" =>
        \E q \in AllProcs : q.id = n.id /\ ProcedureOf(n, q)' /\ ProcedureOf(n, q)
  BY ProcedureStays DEF Ids
<1>3. \A n \in sx : \A q : n.type # "report" /\ ProcedureOf(n, q) => q.type # "ddn"
  BY MessageKinds DEF ProcedureOf
<1>4. \A n \in sx' : n.type # "report" => \E q \in AllProcs' : q.id = n.id /\ ProcedureOf(n, q)'
  BY <1>2, <1>3
<1> QED  BY <1>1, <1>4 DEF Ids

------------------------------------------------------------------------------
(* Requests of SGW-C about a connection *)

\* SPGW-U is asked about SEIDs it has given.
LEMMA SeidsAreGiven ==
  ASSUME IInv
  PROVE  SeidsGiven
  BY DEF IInv, Shapes, Sessions, SeidsGiven

LEMMA SessionsKept ==
  ASSUME UNCHANGED sessions
  PROVE  SessionsStay
  BY DEF SessionsStay

\* Sessions keep their rules.
SameSessions ==
  /\ DOMAIN sessions' = DOMAIN sessions
  /\ \A s \in DOMAIN sessions :
       /\ sessions'[s].cp = sessions[s].cp /\ sessions'[s].addr = sessions[s].addr
       /\ sessions'[s].ul = sessions[s].ul /\ sessions'[s].dl = sessions[s].dl

\* Connections that are kept stay so.
StillKept ==
  /\ told \subseteq told'
  /\ \A n \in sx' : n.type = "delete" /\ n.to = "pgwc" => n \in sx
  /\ \A t \in DOMAIN pdn : Kept(t) =>
       t \in DOMAIN pdn' /\ pdn'[t].addr = pdn[t].addr /\ pdn'[t].up_fseid = pdn[t].up_fseid

\* A step of PGW-C leaves the modification that SPGW-U is at and the routes alone.
LEMMA TasksKept ==
  ASSUME IInv, SameSessions, StillKept, UNCHANGED <<ue_ip, up_seid, modifying, deleting>>,
         \A m \in sx : m.to = "spgwu" => m \in sx',
         \A p \in AllProcs' : p \in AllProcs \/ \A m \in sx : m.to = "spgwu" => p.id # m.id
  PROVE  Tasks' /\ Routes'
<1>1. \A t : Kept(t) => /\ Kept(t)' /\ pdn'[t].addr = pdn[t].addr
                       /\ pdn'[t].up_fseid = pdn[t].up_fseid
  BY DEF Kept, StillKept
<1>2. \A h \in modifying : Found(h)'
  BY <1>1 DEF IInv, Tasks, Found
<1>3. Tasks'
  BY <1>2 DEF IInv, Tasks, SameSessions, StillKept
<1>4. \A t, a, s : HeldBy(t, a, s) => HeldBy(t, a, s)'
  BY <1>1 DEF HeldBy
<1>5. \A a \in DOMAIN ue_ip : Stale(a) => Stale(a)'
  BY <1>4 DEF Stale, SameSessions, StillKept
<1>6. \A a \in DOMAIN ue_ip : Live(a) => Live(a)'
  BY DEF Live, SameSessions
<1>7. \A s \in DOMAIN sessions : Led(s)'
  BY DEF IInv, Routes, Led, SameSessions
<1>8. Routes'
  BY <1>5, <1>6, <1>7 DEF IInv, Routes, SameSessions
<1> QED  BY <1>3, <1>8

\* The connection of a request and what the start of a procedure does.
LEMMA Started ==
  ASSUME IInv, NEW t, NEW p \in ProcRecords, NEW m,
         Addressed(t), p.pdn = t, Start(t, p, m)
  PROVE  /\ t \in told /\ t \in DOMAIN pdn /\ t \in DOMAIN seid2pgw_context
         /\ SameContexts /\ pc' \in [DOMAIN pc' -> ContextRecords]
         /\ Placed' /\ AllProcs' = AllProcs \cup {p}
         /\ Pending(t) = {} => overlapped' = overlapped
         /\ Pending(t) # {} => overlapped' = overlapped \cup {t}
<1>1. /\ t \in told /\ t \in DOMAIN pdn /\ t \in DOMAIN seid2pgw_context
      /\ ContextOf(t) \in DOMAIN pc /\ seid2pgw_context[t] = ContextOf(t)
  BY DEF IInv, Tables, Connections, Addressed, ContextOf
<1>2. /\ SameContexts /\ pc' \in [DOMAIN pc' -> ContextRecords]
      /\ Placed' /\ AllProcs' = AllProcs \cup {p}
  <2>1. pc' = [pc EXCEPT ![ContextOf(t)].pending_procedures = @ \cup {p}]
        /\ UNCHANGED seid2pgw_context
    BY DEF Start
  <2> QED  BY <1>1, <2>1, ProcedureAdded DEF IInv
<1>3. (\E q \in Procs(ContextOf(t)) : q.pdn = t /\ q.type # "ddn") <=> Pending(t) # {}
  BY <1>1 DEF IInv, Placed, Pending, AllProcs
<1> QED  BY <1>1, <1>2, <1>3 DEF Start

\* All that a request of SGW-C about connection t may do besides.
Requested(t, p, m) ==
  /\ p.type \in {"modify", "release", "delete"} /\ p.id = uid + 1 /\ p.pdn = t
  /\ m.id = uid + 1 /\ m.seid = pdn[t].up_fseid
  /\ p.type \in {"modify", "release"} => m \in ModReqs
  /\ p.type = "delete" => m \in DelReqs
  /\ p.type = "modify" => m.dl = p.fteid /\ p.fteid # NoFteid
  /\ m.type = "modify" => /\ m.rules = "update" => m.ul # "none"
                          /\ m.rules = "create" => m.addr = pdn[t].addr
  /\ pdn' \in [DOMAIN pdn -> PdnRecords]
  /\ \A u \in DOMAIN pdn :
       /\ pdn'[u].addr = pdn[u].addr /\ pdn'[u].seid = pdn[u].seid
       /\ pdn'[u].up_fseid = pdn[u].up_fseid /\ pdn'[u].sgw_fteid = pdn[u].sgw_fteid
       /\ pdn[u].released => pdn'[u].released
       /\ u # t => pdn'[u] = pdn[u]
  /\ p.type = "release" => pdn'[t].released
  /\ UNCHANGED alloc

\* A request keeps each part of the invariant in turn: ids first,
LEMMA RequestKeepsIds ==
  ASSUME IInv, NEW t, NEW p \in ProcRecords, NEW m,
         Addressed(t), Start(t, p, m), Requested(t, p, m)
  PROVE  Ids'
<1>1. /\ t \in told /\ t \in DOMAIN pdn /\ p.pdn = t
      /\ AllProcs' = AllProcs \cup {p}
  BY Started DEF Requested
<1>2. SeidsGiven /\ SessionsStay /\ UNCHANGED <<told, sessions>>
  BY SeidsAreGiven, SessionsKept DEF Start, upf
<1>3. m.to = "spgwu" /\ m.type \in {"modify", "delete"}
  BY DEF Requested, ModReqs, DelReqs
<1>4. ProcedureOf(m, p)'
  <2>1. /\ m.type = "modify" => p.type \in {"modify", "release"}
        /\ m.type = "delete" => p.type = "delete"
    BY <1>3 DEF Requested, ModReqs, DelReqs
  <2>2. pdn[t].up_fseid \in DOMAIN sessions => sessions[pdn[t].up_fseid].cp = t
    BY <1>1 DEF IInv, Sessions
  <2>3. m.seid \in DOMAIN sessions => sessions[m.seid].cp = t
    BY <2>2 DEF Requested
  <2> QED  BY <1>1, <1>2, <1>3, <2>1, <2>3 DEF ProcedureOf, NamesConnection, About
<1>5. p.id = uid + 1 /\ m.id = uid + 1 /\ uid' = uid + 1 /\ sx' = sx \cup {m}
  BY DEF Requested, Start
<1> QED  BY <1>1, <1>2, <1>3, <1>4, <1>5, IdsRequest DEF IInv

\* then what does not depend on messages,
LEMMA RequestKeepsShapes ==
  ASSUME IInv, NEW t, NEW p \in ProcRecords, NEW m,
         Addressed(t), Start(t, p, m), Requested(t, p, m)
  PROVE  Shapes' /\ Tables' /\ Connections' /\ Pool' /\ Placed' /\ Tasks' /\ Routes'
         /\ Established' = Established
<1>1. /\ t \in told /\ t \in DOMAIN pdn
      /\ SameContexts /\ pc' \in [DOMAIN pc' -> ContextRecords] /\ Placed'
      /\ overlapped' \subseteq overlapped \cup {t}
  BY Started DEF Requested
<1>2. /\ UNCHANGED <<imsi2pgw_context, s5s8lteid2pgw_context, seid2pgw_context, teid,
                     upf, told, paged, alloc>>
      /\ requests < MaxRequests /\ requests' = requests + 1
      /\ uid' = p.id /\ sx' = sx \cup {m}
  BY DEF Start, Asks, Requested
<1>3. DOMAIN pdn' = DOMAIN pdn /\ SameAddresses
  BY DEF Requested, SameAddresses
<1>4. Shapes'
  <2>1. m \in MsgRecords
    BY DEF Requested, MsgRecords
  <2>2. pdn' \in [DOMAIN pdn' -> PdnRecords]
    BY DEF Requested
  <2>3. requests' \in Nat /\ teid <= requests' /\ requests' <= MaxRequests
    BY <1>2, NamesAssumption DEF IInv, Shapes
  <2>4. uid' \in Nat
    BY <1>2 DEF ProcRecords
  <2> QED  BY <1>1, <1>2, <2>1, <2>2, <2>3, <2>4 DEF IInv, Shapes, upf, IsMap, IsRoutes
<1>5. Tables'
  BY <1>1, <1>2, <1>3, TablesKept DEF IInv
<1>6. Connections'
  <2>1. \A u \in DOMAIN pdn : u \notin told => pdn'[u].dl = pdn[u].dl
    BY <1>1 DEF Requested
  <2> QED  BY <1>1, <1>2, <1>3, <2>1 DEF IInv, Connections, Requested, Teids, upf
<1>7. Pool' /\ Established' = Established
  BY <1>2, <1>3, PoolKept DEF IInv
<1>8. Tasks' /\ Routes'
  <2>1. SameSessions /\ UNCHANGED <<ue_ip, up_seid, modifying, deleting>>
    BY <1>2 DEF SameSessions, upf
  <2>2. m.to = "spgwu"
    BY DEF Requested, ModReqs, DelReqs
  <2>3. StillKept
    BY <1>2, <1>3, <2>2 DEF StillKept, Requested
  <2>4. \A n \in sx : n.id # p.id
    BY DEF Requested, IInv, Shapes, Ids, Uids
  <2>5. AllProcs' = AllProcs \cup {p}
    BY Started DEF Requested
  <2> QED  BY <1>2, <2>1, <2>3, <2>4, <2>5, TasksKept
<1> QED  BY <1>1, <1>4, <1>5, <1>6, <1>7, <1>8

\* then sessions with the messages about them,
LEMMA RequestKeepsSessions ==
  ASSUME IInv, NEW t, NEW p \in ProcRecords, NEW m,
         Addressed(t), Start(t, p, m), Requested(t, p, m)
  PROVE  Sessions'
<1>1. /\ UNCHANGED <<sessions, up_seid, told, seid2pgw_context, teid>>
      /\ sx' = sx \cup {m} /\ DOMAIN pdn' = DOMAIN pdn
      /\ \A u \in DOMAIN pdn : pdn'[u].addr = pdn[u].addr /\ pdn'[u].up_fseid = pdn[u].up_fseid
  BY DEF Start, upf, Requested
<1>2. Established' = Established /\ Established \subseteq DOMAIN pdn
  BY RequestKeepsShapes DEF Established
<1>3. m.to = "spgwu" /\ m.type \in {"modify", "delete"}
  BY DEF Requested, ModReqs, DelReqs
<1>4. m.seid \in 1..up_seid /\ (m.seid \in DOMAIN sessions => sessions[m.seid].cp = t)
  <2>1. t \in told /\ t \in DOMAIN pdn
    BY Started DEF Requested
  <2> QED  BY <2>1 DEF IInv, Connections, Sessions, Requested
<1>5. m.type = "modify" => /\ m.rules = "update" => m.ul # "none"
                           /\ m.rules = "create" => m.addr = pdn[t].addr
  BY DEF Requested
<1> QED  BY <1>1, <1>2, <1>3, <1>4, <1>5 DEF IInv, Sessions, Teids

\* then the path: unless procedures overlap, nothing else is pending.
LEMMA RequestKeepsPath ==
  ASSUME IInv, NEW t, NEW p \in ProcRecords, NEW m,
         Addressed(t), Start(t, p, m), Requested(t, p, m)
  PROVE  Path'
<1>1. /\ t \in told /\ t \in DOMAIN pdn /\ AllProcs' = AllProcs \cup {p}
      /\ Pending(t) = {} => overlapped' = overlapped
      /\ Pending(t) # {} => overlapped' = overlapped \cup {t}
  BY Started DEF Requested
<1>2. UNCHANGED <<sessions, deleting, told>> /\ sx' = sx \cup {m} /\ DOMAIN pdn' = DOMAIN pdn
  BY DEF Start, upf, Requested
<1>3. m.to = "spgwu"
  BY DEF Requested, ModReqs, DelReqs
<1>4. (\A q \in AllProcs : q.id # uid + 1) /\ (\A n \in sx : n.id # uid + 1)
  BY DEF IInv, Ids, Uids, Shapes
<1>5. p.id = uid + 1 /\ m.id = uid + 1 /\ p.pdn = t /\ p.type # "ddn"
  BY DEF Requested
<1>6. \A q, r \in AllProcs' :
        q.pdn = r.pdn /\ q.pdn \notin overlapped' /\ q.type # "ddn" /\ r.type # "ddn" => q = r
  BY <1>1, <1>5 DEF IInv, Path, Pending
<1>7. \A q \in AllProcs' : q.pdn \notin overlapped' /\ q.pdn \in DOMAIN pdn' =>
        /\ q.type = "release" => pdn'[q.pdn].released
        /\ q.type = "modify"  => q.fteid # NoFteid
  <2>1. overlapped \subseteq overlapped'
    BY <1>1
  <2> QED  BY <1>1, <1>2, <1>5, <2>1 DEF IInv, Path, Requested
<1>8. \A q \in AllProcs' : \A n \in sx' :
        q.type = "modify" /\ n.id = q.id /\ n.to = "spgwu" => n.dl = q.fteid
  BY <1>1, <1>2, <1>4, <1>5 DEF IInv, Path, Requested
<1>9. /\ \A u \in DOMAIN pdn' : u \notin told' => pdn'[u].sgw_fteid = NoFteid
      /\ \A n \in sx' : n.type = "modify" /\ n.to = "pgwc" => (n.created => n.accepted)
  BY <1>2, <1>3 DEF IInv, Path, Requested
<1>10. ASSUME NEW u \in (told' \cap DOMAIN pdn') \ overlapped',
              pdn'[u].up_fseid \in DOMAIN sessions' \ {deleting'}
       PROVE  /\ \A q \in Pending(u)' : \A n \in sx' :
                   q.type = "modify" /\ Accepted(n, q) =>
                     sessions'[pdn'[u].up_fseid].dl = q.fteid
              /\ \/ Stored(u)'
                 \/ \E q \in Pending(u)' : \E n \in sx' : q.type = "modify" /\ Accepted(n, q)
  <2>1. /\ u \in (told \cap DOMAIN pdn) \ overlapped
        /\ pdn[u].up_fseid \in DOMAIN sessions \ {deleting}
        /\ pdn'[u].up_fseid = pdn[u].up_fseid
    BY <1>1, <1>2, <1>10 DEF Requested
  <2>2. \A n \in sx', q \in AllProcs' : Accepted(n, q) => n \in sx /\ q \in AllProcs
    BY <1>1, <1>2, <1>3, <1>4, <1>5 DEF Accepted
  <2>3. \A q \in Pending(u)' : q \in AllProcs => q \in Pending(u)
    BY DEF Pending
  <2>4. \A q \in Pending(u) : q \in Pending(u)'
    BY <1>1 DEF Pending
  <2>5. /\ \A q \in Pending(u) : \A n \in sx :
             q.type = "modify" /\ Accepted(n, q) => sessions[pdn[u].up_fseid].dl = q.fteid
        /\ \/ Stored(u)
           \/ \E q \in Pending(u) : \E n \in sx : q.type = "modify" /\ Accepted(n, q)
    BY <2>1 DEF IInv, Path
  <2>6. Stored(u) => Stored(u)'
    BY <1>2, <2>1 DEF Stored, Requested
  <2>7. \A q \in Pending(u)' : q \in AllProcs'
    BY DEF Pending
  <2> QED  BY <1>2, <2>1, <2>2, <2>3, <2>4, <2>5, <2>6, <2>7
<1> QED  BY <1>6, <1>7, <1>8, <1>9, <1>10 DEF Path

LEMMA RequestKeepsIInv ==
  ASSUME IInv, NEW t, NEW p \in ProcRecords, NEW m,
         Addressed(t), Start(t, p, m), Requested(t, p, m)
  PROVE  IInv'
  BY RequestKeepsIds, RequestKeepsShapes, RequestKeepsSessions, RequestKeepsPath DEF IInv

LEMMA Asked ==
  ASSUME IInv, NEW t, Addressed(t)
  PROVE  /\ t \in DOMAIN pdn /\ t \in Nat /\ uid + 1 \in Nat
         /\ pdn \in [DOMAIN pdn -> PdnRecords] /\ pdn[t] \in PdnRecords
<1>1. t \in DOMAIN pdn /\ DOMAIN pdn \subseteq Teids /\ pdn \in [DOMAIN pdn -> PdnRecords]
      /\ uid \in Nat
  BY DEF IInv, Tables, Shapes, Addressed
<1> QED  BY <1>1 DEF Teids

\* The three requests are such steps.
LEMMA ModifyBearerRequestInv ==
  ASSUME IInv, NEW t, NEW fteid \in EnbFteids, ModifyBearerRequest(t, fteid)
  PROVE  IInv'
<1>1. Addressed(t)
  BY DEF ModifyBearerRequest
<1> DEFINE p == Proc("modify", uid + 1, t, fteid)
           s == pdn[t].up_fseid
           a == pdn[t].addr
<1>2. PICK m : m = NewPath(t, fteid)
  OBVIOUS
<1>3. p \in ProcRecords /\ p.type = "modify" /\ p.id = uid + 1 /\ p.pdn = t /\ p.fteid = fteid
  BY <1>1, Asked DEF Proc, ProcRecords, Fteids
<1>4. fteid # NoFteid
  BY NamesAssumption
<1>5. s \in Nat /\ a \in Addrs /\ uid + 1 \in Nat
  BY <1>1, Asked DEF PdnRecords
<1>6. /\ m \in ModReqs /\ m.id = uid + 1 /\ m.seid = s /\ m.dl = fteid /\ m.type = "modify"
      /\ m.rules = "update" => m.ul # "none"
      /\ m.rules = "create" => m.addr = a
  <2> HIDE DEF s, a
  <2>1. m = ModificationRequest(uid + 1, s, "update", fteid, "forw", a)
        \/ m = ModificationRequest(uid + 1, s, "create", fteid, "none", a)
    BY <1>2 DEF NewPath, NextId, s, a
  <2> QED  BY <1>5, <2>1 DEF ModificationRequest, ModReqs
<1>7. Start(t, p, m) /\ pdn' = [pdn EXCEPT ![t].dl = TRUE] /\ UNCHANGED alloc
  BY <1>2 DEF ModifyBearerRequest, NextId
<1>8. /\ pdn' \in [DOMAIN pdn -> PdnRecords]
      /\ \A u \in DOMAIN pdn :
           /\ pdn'[u].addr = pdn[u].addr /\ pdn'[u].seid = pdn[u].seid
           /\ pdn'[u].up_fseid = pdn[u].up_fseid /\ pdn'[u].sgw_fteid = pdn[u].sgw_fteid
           /\ pdn'[u].released = pdn[u].released
           /\ u # t => pdn'[u] = pdn[u]
  BY ZenonT(60), <1>1, <1>7, Asked DEF PdnRecords
<1>9. Requested(t, p, m)
  <2> HIDE DEF p
  <2> QED  BY <1>3, <1>4, <1>6, <1>7, <1>8 DEF Requested
<1> HIDE DEF p
<1> QED  BY <1>1, <1>3, <1>7, <1>9, RequestKeepsIInv

LEMMA ReleaseAccessBearersRequestInv ==
  ASSUME IInv, NEW t, ReleaseAccessBearersRequest(t)
  PROVE  IInv'
<1>1. Addressed(t)
  BY DEF ReleaseAccessBearersRequest
<1> DEFINE p == Proc("release", uid + 1, t, NoFteid)
           s == pdn[t].up_fseid
<1>2. PICK m : m = NoPath(t)
  OBVIOUS
<1>3. p \in ProcRecords /\ p.type = "release" /\ p.id = uid + 1 /\ p.pdn = t
  BY <1>1, Asked DEF Proc, ProcRecords, Fteids
<1>5. s \in Nat /\ uid + 1 \in Nat
  BY <1>1, Asked DEF PdnRecords
<1>6. /\ m \in ModReqs /\ m.id = uid + 1 /\ m.seid = s /\ m.type = "modify"
      /\ m.rules = "update" /\ m.ul # "none"
  <2> HIDE DEF s
  <2>1. \E dl \in {Nocp, NoRule} :
          m = ModificationRequest(uid + 1, s, "update", dl, "drop", NoAddress)
    BY <1>2 DEF NoPath, NextId, s
  <2> QED  BY <1>5, <2>1 DEF ModificationRequest, ModReqs, Addrs
<1>7. /\ Start(t, p, m) /\ pdn' = [pdn EXCEPT ![t] = [pdn[t] EXCEPT !.released = TRUE]]
      /\ UNCHANGED alloc
  BY <1>2 DEF ReleaseAccessBearersRequest, NextId, ReleasedBearer
<1>8. /\ pdn' \in [DOMAIN pdn -> PdnRecords]
      /\ \A u \in DOMAIN pdn :
           /\ pdn'[u].addr = pdn[u].addr /\ pdn'[u].seid = pdn[u].seid
           /\ pdn'[u].up_fseid = pdn[u].up_fseid /\ pdn'[u].sgw_fteid = pdn[u].sgw_fteid
           /\ pdn[u].released => pdn'[u].released
           /\ u # t => pdn'[u] = pdn[u]
      /\ pdn'[t].released
  BY ZenonT(60), <1>1, <1>7, Asked DEF PdnRecords
<1>9. Requested(t, p, m)
  <2> HIDE DEF p
  <2> QED  BY <1>3, <1>6, <1>7, <1>8 DEF Requested
<1> HIDE DEF p
<1> QED  BY <1>1, <1>3, <1>7, <1>9, RequestKeepsIInv

LEMMA DeleteSessionRequestInv ==
  ASSUME IInv, NEW t, DeleteSessionRequest(t)
  PROVE  IInv'
<1>1. Addressed(t)
  BY DEF DeleteSessionRequest
<1> DEFINE p == Proc("delete", uid + 1, t, NoFteid)
           s == pdn[t].up_fseid
           m == DeletionRequest(uid + 1, s)
<1>2. p \in ProcRecords /\ p.type = "delete" /\ p.id = uid + 1 /\ p.pdn = t
  BY <1>1, Asked DEF Proc, ProcRecords, Fteids
<1>3. s \in Nat /\ uid + 1 \in Nat
  BY <1>1, Asked DEF PdnRecords
<1>4. m \in DelReqs /\ m.id = uid + 1 /\ m.seid = s /\ m.type = "delete"
  BY <1>3 DEF DeletionRequest, DelReqs
<1>5. Start(t, p, m) /\ UNCHANGED <<pdn, alloc>>
  BY DEF DeleteSessionRequest, NextId
<1>6. pdn' \in [DOMAIN pdn -> PdnRecords]
  BY <1>1, <1>5, Asked
<1>7. Requested(t, p, m)
  <2> HIDE DEF p, m
  <2> QED  BY <1>2, <1>4, <1>5, <1>6 DEF Requested
<1> HIDE DEF p, m
<1> QED  BY <1>1, <1>2, <1>5, <1>7, RequestKeepsIInv

------------------------------------------------------------------------------
(* SPGW-U *)

\* What concerns PGW-C only, in a step of SPGW-U.
LEMMA UpKeeps ==
  ASSUME IInv, up_seid' \in Nat, up_seid <= up_seid',
         UNCHANGED <<imsi2pgw_context, s5s8lteid2pgw_context, seid2pgw_context, pc, pdn,
                     alloc, teid, told, overlapped, paged>>
  PROVE  /\ Tables' /\ Connections' /\ Pool' /\ Placed'
         /\ AllProcs' = AllProcs /\ Established' = Established
<1>1. SameContexts /\ SameAddresses /\ DOMAIN pdn' = DOMAIN pdn
  BY DEF SameContexts, SameAddresses
<1>2. Tables'
  BY <1>1, TablesKept DEF IInv
<1>3. Pool' /\ Established' = Established
  BY <1>1, PoolKept DEF IInv
<1>4. Connections'
  BY DEF IInv, Connections, Shapes, Teids
<1>5. Placed' /\ AllProcs' = AllProcs
  BY DEF IInv, Placed, AllProcs, Procs
<1> QED  BY <1>2, <1>3, <1>4, <1>5

\* A modification that SPGW-U accepted.
IsAccepted(m) == m.type = "modify" /\ m.to = "pgwc" /\ m.accepted

\* The paths stay when no modification is accepted and none of those that were is
\* handled.
LEMMA PathKept ==
  ASSUME IInv, AllProcs' = AllProcs, UNCHANGED <<pdn, told, overlapped>>,
         \A t \in told \cap DOMAIN pdn : pdn[t].up_fseid \in DOMAIN sessions' \ {deleting'} =>
           /\ pdn[t].up_fseid \in DOMAIN sessions \ {deleting}
           /\ sessions'[pdn[t].up_fseid].dl = sessions[pdn[t].up_fseid].dl,
         \A m \in sx' : m \in sx \/ (m.to = "pgwc" /\ ~IsAccepted(m)),
         \A m \in sx' : m \in sx \/ m.type # "modify" \/ ~m.created,
         \A m \in sx : IsAccepted(m) => m \in sx'
  PROVE  Path'
<1>1. \A t : Pending(t)' = Pending(t)
  BY DEF Pending
<1>2. ASSUME NEW t \in (told \cap DOMAIN pdn) \ overlapped,
             pdn[t].up_fseid \in DOMAIN sessions' \ {deleting'}
      PROVE  /\ \A p \in Pending(t)' : \A m \in sx' :
                  p.type = "modify" /\ Accepted(m, p) =>
                    sessions'[pdn[t].up_fseid].dl = p.fteid
             /\ \/ Stored(t)'
                \/ \E p \in Pending(t)' : \E m \in sx' : p.type = "modify" /\ Accepted(m, p)
  <2>1. /\ pdn[t].up_fseid \in DOMAIN sessions \ {deleting}
        /\ sessions'[pdn[t].up_fseid].dl = sessions[pdn[t].up_fseid].dl
    BY <1>2
  <2>2. /\ \A p \in Pending(t) : \A m \in sx :
             p.type = "modify" /\ Accepted(m, p) => sessions[pdn[t].up_fseid].dl = p.fteid
        /\ \/ Stored(t)
           \/ \E p \in Pending(t) : \E m \in sx : p.type = "modify" /\ Accepted(m, p)
    BY <2>1 DEF IInv, Path
  <2>3. \A m : \A p : Accepted(m, p) => IsAccepted(m)
    BY DEF Accepted, IsAccepted
  <2>4. Stored(t) => Stored(t)'
    BY <2>1 DEF Stored
  <2> QED  BY <1>1, <2>1, <2>2, <2>3, <2>4
<1>3. \A p \in AllProcs' : \A m \in sx' :
        p.type = "modify" /\ m.id = p.id /\ m.to = "spgwu" => m.dl = p.fteid
  BY DEF IInv, Path
<1>4. \A m \in sx' : m.type = "modify" /\ m.to = "pgwc" => (m.created => m.accepted)
  BY DEF IInv, Path
<1> QED  BY <1>2, <1>3, <1>4 DEF IInv, Path

\* A session is established for a connection that had none.
LEMMA HandleEstablishmentInv ==
  ASSUME IInv, NEW m, HandleEstablishment(m)
  PROVE  IInv'
<1> DEFINE s == up_seid + 1
<1>0. PICK n : n = EstablishmentResponse(m, s)
  OBVIOUS
<1>1. /\ m \in sx /\ m.to = "spgwu" /\ m.type = "establishment"
      /\ up_seid' = s /\ sx' = (sx \ {m}) \cup {n}
      /\ sessions' = MapAssign(sessions, s, Session(m.cp))
      /\ UNCHANGED <<imsi2pgw_context, s5s8lteid2pgw_context, seid2pgw_context, pc, pdn,
                     alloc, teid, uid, ue_ip, modifying, deleting, requests, told, overlapped,
                     paged>>
      /\ modifying = {}
  BY <1>0 DEF HandleEstablishment, Taken, Reply, pgwc
<1>2. m \in EstReqs /\ up_seid \in Nat /\ s \in Nat /\ s \in 1..s /\ s \notin 1..up_seid
      /\ 1..up_seid \subseteq 1..s
  BY <1>1, MessageKinds DEF IInv, Shapes
<1>3. /\ n \in EstResps /\ n.to = "pgwc" /\ n.type = "establishment" /\ n.id = m.id
      /\ n.seid = m.cp /\ n.up = s
  BY <1>0, <1>2 DEF EstablishmentResponse, EstReqs, EstResps
<1>4. Session(m.cp) \in SessionRecords /\ Session(m.cp).cp = m.cp
      /\ Session(m.cp).dl = NoRule /\ Session(m.cp).addr = NoAddress
      /\ Session(m.cp).ul = "forw"
  BY <1>2 DEF Session, SessionRecords, EstReqs, Addrs
<1> HIDE DEF s
<1>5. /\ DOMAIN sessions' = DOMAIN sessions \cup {s} /\ s \notin DOMAIN sessions
      /\ \A r \in DOMAIN sessions : sessions'[r] = sessions[r] /\ r # s
      /\ sessions'[s] = Session(m.cp)
      /\ sessions' \in [DOMAIN sessions' -> SessionRecords]
  BY <1>1, <1>2, <1>4 DEF IInv, Sessions, Shapes, MapAssign
<1>6. /\ Tables' /\ Connections' /\ Pool' /\ Placed'
      /\ AllProcs' = AllProcs /\ Established' = Established
  BY <1>1, <1>2, UpKeeps DEF s
<1>7. Shapes'
  <2>1. n \in MsgRecords
    BY <1>3 DEF MsgRecords
  <2> QED  BY <1>1, <1>2, <1>5, <2>1 DEF IInv, Shapes, IsMap, IsRoutes
<1>8. Ids'
  <2>1. SeidsGiven /\ SessionsStay
    BY <1>5, SeidsAreGiven DEF SessionsStay, s
  <2>2. \A p \in AllProcs : ProcedureOf(m, p) => ProcedureOf(n, p)'
    BY <1>1, <1>3 DEF ProcedureOf, NamesConnection, About
  <2> QED  BY <1>1, <1>3, <1>6, <2>1, <2>2, IdsReply DEF IInv
<1>9. /\ m.cp \in DOMAIN pdn /\ m.cp \in DOMAIN seid2pgw_context /\ m.cp \notin told
      /\ m.cp \in Established
      /\ \A r \in DOMAIN sessions : sessions[r].cp # m.cp
      /\ \A k \in sx : k.type = "establishment" /\ k.to = "pgwc" => k.seid # m.cp
      /\ \A k \in sx : k.type = "establishment" /\ k.to = "spgwu" /\ k.cp = m.cp => k = m
  <2>1. m.cp \in DOMAIN pdn /\ m.cp \in DOMAIN seid2pgw_context
    BY <1>1 DEF IInv, Sessions
  <2>2. m.cp \in Established
    BY <2>1 DEF IInv, Connections, Established, Tables, Teids, NoSeid
  <2> QED  BY <1>1, <2>1, <2>2 DEF IInv, Sessions
<1>10. Sessions'
  <2>1. /\ DOMAIN sessions' \subseteq 1..up_seid'
        /\ \A r \in DOMAIN sessions' :
             /\ sessions'[r].cp \in Established
             /\ sessions'[r].addr \in {NoAddress, pdn[sessions'[r].cp].addr}
        /\ \A r, q \in DOMAIN sessions' : sessions'[r].cp = sessions'[q].cp => r = q
    BY <1>1, <1>2, <1>4, <1>5, <1>9 DEF IInv, Sessions, s
  <2>2. \A t \in told \cap DOMAIN pdn :
          pdn[t].up_fseid \in DOMAIN sessions' => sessions'[pdn[t].up_fseid].cp = t
    BY <1>2, <1>5 DEF IInv, Sessions, Connections, s
  <2>9. \A r \in DOMAIN sessions' :
          sessions'[r].cp \in told => pdn[sessions'[r].cp].up_fseid = r
    BY <1>4, <1>5, <1>9 DEF IInv, Sessions
  <2>3. \A k \in sx' : k.type = "establishment" /\ k.to = "spgwu" =>
          /\ k.cp \in DOMAIN pdn /\ k.cp \in DOMAIN seid2pgw_context /\ k.cp \notin told
          /\ \A r \in DOMAIN sessions' : sessions'[r].cp # k.cp
          /\ \A j \in sx' : j.type = "establishment" /\ j.to = "pgwc" => j.seid # k.cp
          /\ \A j \in sx' : j.type = "establishment" /\ j.to = "spgwu" /\ j.cp = k.cp => j = k
    BY <1>1, <1>3, <1>4, <1>5, <1>9 DEF IInv, Sessions
  <2>4. \A k \in sx' : k.type = "establishment" /\ k.to = "pgwc" =>
          /\ k.seid \in DOMAIN pdn /\ k.seid \in DOMAIN seid2pgw_context /\ k.seid \notin told
          /\ k.up \in 1..up_seid'
          /\ k.up \in DOMAIN sessions' => sessions'[k.up].cp = k.seid
          /\ \A r \in DOMAIN sessions' : sessions'[r].cp = k.seid => r = k.up
          /\ \A j \in sx' : j.type = "establishment" /\ j.to = "pgwc" /\ j.seid = k.seid => j = k
    <3>1. ASSUME NEW k \in sx, k.type = "establishment", k.to = "pgwc"
          PROVE  /\ k.seid \in DOMAIN pdn /\ k.seid \in DOMAIN seid2pgw_context
                 /\ k.seid \notin told /\ k.seid # m.cp
                 /\ k.up \in 1..up_seid' /\ k.up # s
                 /\ k.up \in DOMAIN sessions => sessions[k.up].cp = k.seid
                 /\ \A r \in DOMAIN sessions : sessions[r].cp = k.seid => r = k.up
                 /\ \A j \in sx : j.type = "establishment" /\ j.to = "pgwc" /\ j.seid = k.seid => j = k
      BY <1>1, <1>2, <1>9, <3>1 DEF IInv, Sessions, s
    <3> QED  BY <1>1, <1>2, <1>3, <1>4, <1>5, <1>9, <3>1
  <2>5. \A k \in sx' : k.type \in {"modify", "delete"} /\ k.to = "spgwu" => k.seid \in 1..up_seid'
    BY <1>1, <1>2, <1>3 DEF IInv, Sessions
  <2>6. \A k \in sx' : k.type = "modify" /\ k.to = "spgwu" =>
          /\ k.rules = "update" => k.ul # "none"
          /\ k.rules = "create" /\ k.seid \in DOMAIN sessions' =>
               k.addr = pdn[sessions'[k.seid].cp].addr
    BY <1>1, <1>2, <1>3, <1>5 DEF IInv, Sessions, s
  <2>7. \A k \in sx' : k.type = "delete" /\ k.to = "pgwc" /\ k.seid # NoSeid =>
          /\ k.seid \in told \cap DOMAIN pdn
          /\ \A r \in DOMAIN sessions' : sessions'[r].cp # k.seid
          /\ \A j \in sx' : j.type = "delete" /\ j.to = "pgwc" /\ j.seid = k.seid => j = k
    BY <1>1, <1>3, <1>4, <1>5, <1>9 DEF IInv, Sessions
  <2>8. /\ \A k \in sx' : k.type \in {"modify", "report"} /\ k.to = "pgwc" =>
             k.seid \in Teids \cup {NoSeid}
        /\ \A k \in sx' : k.type = "report" => k.seid # NoSeid
    BY <1>1, <1>3 DEF IInv, Sessions
  <2> QED  BY SMTT(60), <1>1, <1>6, <2>1, <2>2, <2>3, <2>4, <2>5, <2>6, <2>7, <2>8, <2>9 DEF Sessions, Teids
<1>11. Tasks' /\ Routes'
  <2>1. Tasks'
    BY <1>1, <1>4, <1>5 DEF IInv, Tasks
  <2>2. \A t : Kept(t) => Kept(t)'
    BY <1>1, <1>3 DEF Kept
  <2>3. \A a \in DOMAIN ue_ip : Stale(a) => Stale(a)'
    BY <1>1, <1>2, <1>5, <2>2 DEF Stale, HeldBy
  <2>4. \A a \in DOMAIN ue_ip : Live(a) => Live(a)'
    BY <1>1, <1>5 DEF Live
  <2>5. \A r \in DOMAIN sessions' : Led(r)'
    BY <1>1, <1>4, <1>5 DEF IInv, Routes, Led
  <2> QED  BY <1>1, <2>1, <2>3, <2>4, <2>5 DEF IInv, Routes
<1>12. Path'
  <2>1. \A t \in told \cap DOMAIN pdn : pdn[t].up_fseid \in DOMAIN sessions' \ {deleting'} =>
          /\ pdn[t].up_fseid \in DOMAIN sessions \ {deleting}
          /\ sessions'[pdn[t].up_fseid].dl = sessions[pdn[t].up_fseid].dl
    BY <1>1, <1>2, <1>5 DEF IInv, Connections, s
  <2>2. \A k \in sx' : k \in sx \/ (k.to = "pgwc" /\ ~IsAccepted(k))
    BY <1>1, <1>3 DEF IsAccepted
  <2>3. \A k \in sx' : k \in sx \/ k.type # "modify" \/ ~k.created
    BY <1>1, <1>3
  <2>4. \A k \in sx : IsAccepted(k) => k \in sx'
    BY <1>1 DEF IsAccepted
  <2> QED  BY <1>1, <1>6, <2>1, <2>2, <2>3, <2>4, PathKept
<1> QED  BY <1>6, <1>7, <1>8, <1>10, <1>11, <1>12 DEF IInv

\* Sessions keep their connection, and get no address but that of it.
SessionsLike ==
  \A s \in DOMAIN sessions' :
    /\ s \in DOMAIN sessions /\ sessions'[s].cp = sessions[s].cp
    /\ sessions'[s].addr \in {NoAddress, sessions[s].addr, pdn[sessions[s].cp].addr}

\* Message n of SPGW-U to PGW-C fits the sessions that are left.
Fits(n) ==
  /\ n.to = "pgwc" /\ n.type \in {"modify", "delete", "report"}
  /\ n.type \in {"modify", "report"} => n.seid \in Teids \cup {NoSeid}
  /\ n.type = "report" => n.seid # NoSeid
  /\ n.type = "delete" /\ n.seid # NoSeid =>
       /\ n.seid \in told \cap DOMAIN pdn
       /\ \A s \in DOMAIN sessions' : sessions'[s].cp # n.seid
       /\ \A k \in sx : k.type = "delete" /\ k.to = "pgwc" => k.seid # n.seid

\* An answer n of SPGW-U that fits the sessions keeps them in order.
LEMMA SessionsLikeKeeps ==
  ASSUME IInv, SessionsLike, Established' = Established,
         UNCHANGED <<pdn, told, seid2pgw_context, up_seid, teid>>,
         NEW n, Fits(n), sx' \subseteq sx \cup {n}
  PROVE  Sessions'
<1>1. /\ DOMAIN sessions' \subseteq 1..up_seid
      /\ \A r \in DOMAIN sessions' :
           /\ sessions'[r].cp \in Established
           /\ sessions'[r].addr \in {NoAddress, pdn[sessions'[r].cp].addr}
      /\ \A r, q \in DOMAIN sessions' : sessions'[r].cp = sessions'[q].cp => r = q
      /\ \A t \in told \cap DOMAIN pdn :
           pdn[t].up_fseid \in DOMAIN sessions' => sessions'[pdn[t].up_fseid].cp = t
      /\ \A r \in DOMAIN sessions' : sessions'[r].cp \in told => pdn[sessions'[r].cp].up_fseid = r
  BY DEF IInv, Sessions, SessionsLike
<1>2. \A k \in sx' : k.to = "spgwu" \/ k.type = "establishment" => k \in sx
  BY DEF Fits
<1>3. \A k \in sx' : k.type = "establishment" /\ k.to = "spgwu" =>
        /\ k.cp \in DOMAIN pdn /\ k.cp \in DOMAIN seid2pgw_context /\ k.cp \notin told
        /\ \A r \in DOMAIN sessions' : sessions'[r].cp # k.cp
        /\ \A j \in sx' : j.type = "establishment" /\ j.to = "pgwc" => j.seid # k.cp
        /\ \A j \in sx' : j.type = "establishment" /\ j.to = "spgwu" /\ j.cp = k.cp => j = k
  BY <1>2 DEF IInv, Sessions, SessionsLike
<1>4. \A k \in sx' : k.type = "establishment" /\ k.to = "pgwc" =>
        /\ k.seid \in DOMAIN pdn /\ k.seid \in DOMAIN seid2pgw_context /\ k.seid \notin told
        /\ k.up \in 1..up_seid
        /\ k.up \in DOMAIN sessions' => sessions'[k.up].cp = k.seid
        /\ \A r \in DOMAIN sessions' : sessions'[r].cp = k.seid => r = k.up
        /\ \A j \in sx' : j.type = "establishment" /\ j.to = "pgwc" /\ j.seid = k.seid => j = k
  BY <1>2 DEF IInv, Sessions, SessionsLike
<1>5. \A k \in sx' : k.type \in {"modify", "delete"} /\ k.to = "spgwu" => k.seid \in 1..up_seid
  BY <1>2 DEF IInv, Sessions
<1>6. \A k \in sx' : k.type = "modify" /\ k.to = "spgwu" =>
        /\ k.rules = "update" => k.ul # "none"
        /\ k.rules = "create" /\ k.seid \in DOMAIN sessions' =>
             k.addr = pdn[sessions'[k.seid].cp].addr
  BY <1>2 DEF IInv, Sessions, SessionsLike
<1>7. \A k \in sx' : k.type = "delete" /\ k.to = "pgwc" /\ k.seid # NoSeid =>
        /\ k.seid \in told \cap DOMAIN pdn
        /\ \A r \in DOMAIN sessions' : sessions'[r].cp # k.seid
        /\ \A j \in sx' : j.type = "delete" /\ j.to = "pgwc" /\ j.seid = k.seid => j = k
  BY DEF IInv, Sessions, SessionsLike, Fits
<1>8. \A k \in sx' :
        /\ k.type \in {"modify", "report"} /\ k.to = "pgwc" => k.seid \in Teids \cup {NoSeid}
        /\ k.type = "report" => k.seid # NoSeid
  BY DEF IInv, Sessions, Fits
<1> QED  BY <1>1, <1>3, <1>4, <1>5, <1>6, <1>7, <1>8 DEF Sessions, Teids

\* No two sessions have one address of the pool.
LEMMA AddressesOfSessions ==
  ASSUME IInv, NEW s \in DOMAIN sessions, NEW r \in DOMAIN sessions,
         sessions[s].addr = sessions[r].addr, sessions[s].addr \in DynamicAddresses
  PROVE  s = r
<1>1. NoAddress \notin DynamicAddresses
  BY NamesAssumption DEF NoAddress, DynamicAddresses
<1>2. /\ sessions[s].cp \in Established /\ sessions[s].addr = pdn[sessions[s].cp].addr
      /\ sessions[r].cp \in Established /\ sessions[r].addr = pdn[sessions[r].cp].addr
  BY <1>1 DEF IInv, Sessions
<1>3. sessions[s].cp = sessions[r].cp
  BY <1>2 DEF IInv, Pool
<1> QED  BY <1>3 DEF IInv, Sessions

\* The connection of a session has a TEID.
LEMMA SessionOfTeid ==
  ASSUME IInv, NEW s \in DOMAIN sessions
  PROVE  /\ sessions[s].cp \in Teids /\ sessions[s].cp \in Nat /\ sessions[s].cp # NoSeid
         /\ sessions[s].cp \in DOMAIN pdn /\ sessions[s] \in SessionRecords
<1>1. sessions[s].cp \in DOMAIN pdn /\ DOMAIN pdn \subseteq Teids /\ teid \in Nat
      /\ sessions[s] \in SessionRecords
  BY DEF IInv, Sessions, Established, Tables, Shapes
<1> QED  BY <1>1 DEF Teids, NoSeid

\* A session's address is out of the table: what is left leads to other sessions, or
\* nowhere.
LEMMA RoutesCleaned ==
  ASSUME IInv, NEW s \in DOMAIN sessions, CleanRoutes(s)
  PROVE  /\ IsRoutes(ue_ip') /\ DOMAIN ue_ip' \subseteq DOMAIN ue_ip
         /\ \A a \in DOMAIN ue_ip' :
              ue_ip'[a] = ue_ip[a] /\ (Stale(a) \/ (Live(a) /\ ue_ip[a] # s))
         /\ \A r \in DOMAIN sessions :
              r # s /\ sessions[r].dl # NoRule /\ sessions[r].addr \in DynamicAddresses =>
                sessions[r].addr \in DOMAIN ue_ip' /\ ue_ip'[sessions[r].addr] = r
<1>1. PICK b : b = sessions[s].addr
  OBVIOUS
<1>2. /\ IsRoutes(ue_ip') /\ DOMAIN ue_ip' = DOMAIN ue_ip \ {b}
      /\ \A a \in DOMAIN ue_ip' : ue_ip'[a] = ue_ip[a]
  BY <1>1 DEF CleanRoutes, MapErase, IsMap, IsRoutes, IInv, Shapes
<1>3. \A a \in DOMAIN ue_ip' : Stale(a) \/ (Live(a) /\ ue_ip[a] # s)
  BY <1>1, <1>2 DEF IInv, Routes, Live
<1>4. ASSUME NEW r \in DOMAIN sessions, r # s, sessions[r].dl # NoRule,
             sessions[r].addr \in DynamicAddresses
      PROVE  sessions[r].addr \in DOMAIN ue_ip' /\ ue_ip'[sessions[r].addr] = r
  <2>1. sessions[r].addr \in DOMAIN ue_ip /\ ue_ip[sessions[r].addr] = r
    BY <1>4 DEF IInv, Routes, Led
  <2>2. sessions[r].addr # b
    BY <1>1, <1>4, AddressesOfSessions
  <2> QED  BY <1>2, <2>1, <2>2
<1> QED  BY <1>2, <1>3, <1>4

\* A step that concerns the tasks of SPGW-U, its sessions and routes only.
LEMMA SwitchKeeps ==
  ASSUME IInv, SessionsLike, SessionsStay, IsRoutes(ue_ip'), Routes',
         sessions' \in [DOMAIN sessions' -> SessionRecords],
         \A s \in DOMAIN sessions' :
           /\ sessions'[s].addr = NoAddress \/ sessions'[s] = sessions[s]
           /\ s # deleting' => s # deleting /\ sessions'[s] = sessions[s],
         deleting' \in 0..up_seid,
         modifying' \subseteq [req : ModReqs, cp : Nat], \A h \in modifying' : Found(h),
         UNCHANGED <<imsi2pgw_context, s5s8lteid2pgw_context, seid2pgw_context, pc, pdn, alloc,
                     teid, uid, up_seid, sx, requests, told, overlapped, paged>>
  PROVE  IInv'
<1>1. /\ Tables' /\ Connections' /\ Pool' /\ Placed'
      /\ AllProcs' = AllProcs /\ Established' = Established
  BY UpKeeps DEF IInv, Shapes
<1>3. Shapes'
  BY DEF IInv, Shapes, IsMap, IsRoutes
<1>4. Ids'
  BY <1>1, SeidsAreGiven, IdsFewer DEF IInv
<1>5. Sessions'
  <2> DEFINE n == [to |-> "pgwc", type |-> "delete", seid |-> NoSeid]
  <2>1. Fits(n)
    BY DEF Fits
  <2> HIDE DEF n
  <2> QED  BY <1>1, <2>1, SessionsLikeKeeps
<1>6. Tasks'
  <2>1. \A h \in modifying' : Found(h)'
    BY <1>1 DEF Found, Kept
  <2> QED  BY <2>1 DEF IInv, Tasks, SessionsLike
<1>7. Path'
  <2>1. \A t \in told \cap DOMAIN pdn : pdn[t].up_fseid \in DOMAIN sessions' \ {deleting'} =>
          /\ pdn[t].up_fseid \in DOMAIN sessions \ {deleting}
          /\ sessions'[pdn[t].up_fseid].dl = sessions[pdn[t].up_fseid].dl
    BY DEF SessionsLike
  <2> QED  BY <1>1, <2>1, PathKept
<1> QED  BY <1>1, <1>3, <1>4, <1>5, <1>6, <1>7 DEF IInv

LEMMA CleanSessionUpInv ==
  ASSUME IInv, NEW s \in DOMAIN sessions, CleanSessionUp(s)
  PROVE  IInv'
<1>1. /\ CleanRoutes(s) /\ deleting = NoSeid /\ deleting' = s
      /\ sessions' = [sessions EXCEPT ![s] = CleanSession(sessions[s].cp)]
      /\ UNCHANGED <<imsi2pgw_context, s5s8lteid2pgw_context, seid2pgw_context, pc, pdn, alloc,
                     teid, uid, up_seid, modifying, sx, requests, told, overlapped, paged>>
  BY DEF CleanSessionUp, pgwc
<1>2. PICK x : x = CleanSession(sessions[s].cp)
  OBVIOUS
<1>3. /\ x \in SessionRecords /\ x.cp = sessions[s].cp /\ x.addr = NoAddress
      /\ x.dl = NoRule
  BY <1>2 DEF IInv, Shapes, CleanSession, Session, SessionRecords, Addrs
<1>4. /\ DOMAIN sessions' = DOMAIN sessions /\ sessions'[s] = x
      /\ \A r \in DOMAIN sessions : r # s => sessions'[r] = sessions[r]
      /\ sessions' \in [DOMAIN sessions' -> SessionRecords]
  BY <1>1, <1>2, <1>3 DEF IInv, Shapes
<1>5. SessionsLike /\ SessionsStay
  BY <1>3, <1>4 DEF SessionsLike, SessionsStay
<1>7. /\ IsRoutes(ue_ip')
      /\ \A a \in DOMAIN ue_ip' :
           ue_ip'[a] = ue_ip[a] /\ (Stale(a) \/ (Live(a) /\ ue_ip[a] # s))
      /\ \A r \in DOMAIN sessions :
           r # s /\ sessions[r].dl # NoRule /\ sessions[r].addr \in DynamicAddresses =>
             sessions[r].addr \in DOMAIN ue_ip' /\ ue_ip'[sessions[r].addr] = r
  BY <1>1, RoutesCleaned
<1>8. \A a \in DOMAIN ue_ip' : Stale(a) => Stale(a)'
  BY <1>1, <1>4, <1>7 DEF Stale, HeldBy, Kept
<1>9. \A a \in DOMAIN ue_ip' : Live(a) /\ ue_ip[a] # s => Live(a)'
  BY <1>4, <1>7 DEF Live
<1>10. \A r \in DOMAIN sessions' : Led(r)'
  BY <1>3, <1>4, <1>7 DEF Led
<1>11. Routes'
  BY <1>7, <1>8, <1>9, <1>10 DEF Routes
<1>12. \A r \in DOMAIN sessions' :
         /\ sessions'[r].addr = NoAddress \/ sessions'[r] = sessions[r]
         /\ r # deleting' => r # deleting /\ sessions'[r] = sessions[r]
  BY <1>1, <1>3, <1>4 DEF IInv, Sessions, Shapes, NoSeid
<1>13. deleting' \in 0..up_seid
  BY <1>1 DEF IInv, Sessions, Shapes
<1>14. IsRoutes(ue_ip')
  BY <1>7
<1>15. modifying' \subseteq [req : ModReqs, cp : Nat] /\ \A h \in modifying' : Found(h)
  BY <1>1 DEF IInv, Shapes, Tasks
<1> QED  BY <1>1, <1>4, <1>5, <1>11, <1>12, <1>13, <1>14, <1>15, SwitchKeeps

LEMMA EraseSessionInv ==
  ASSUME IInv, EraseSession
  PROVE  IInv'
<1>1. PICK d : d = deleting
  OBVIOUS
<1>2. /\ d # NoSeid /\ deleting' = NoSeid /\ sessions' = MapErase(sessions, d)
      /\ UNCHANGED <<imsi2pgw_context, s5s8lteid2pgw_context, seid2pgw_context, pc, pdn, alloc,
                     teid, uid, up_seid, modifying, sx, requests, told, overlapped, paged, ue_ip>>
  BY <1>1 DEF EraseSession, pgwc
<1>3. /\ DOMAIN sessions' = DOMAIN sessions \ {d}
      /\ \A r \in DOMAIN sessions' : sessions'[r] = sessions[r]
      /\ sessions' \in [DOMAIN sessions' -> SessionRecords]
  BY <1>2 DEF IInv, Shapes, MapErase
<1>4. SessionsLike /\ SessionsStay
  BY <1>3 DEF SessionsLike, SessionsStay
<1>5. ASSUME NEW a \in DOMAIN ue_ip, Live(a), ue_ip[a] = d
      PROVE  Stale(a)'
  <2>0. PICK t : t = sessions[d].cp
    OBVIOUS
  <2>1. d \in DOMAIN sessions /\ sessions[d].addr = a /\ a # NoAddress
    BY <1>5 DEF Live, IInv, Shapes, IsRoutes
  <2>2. t \in told /\ t \in DOMAIN pdn /\ pdn[t].addr = a /\ pdn[t].up_fseid = d
    BY <2>0, <2>1 DEF IInv, Tasks, Sessions, Established
  <2>3. Kept(t)
    BY <2>0, <2>1, <2>2, SessionOfTeid DEF IInv, Sessions, Kept
  <2>4. HeldBy(t, a, d)'
    BY <1>2, <2>2, <2>3 DEF HeldBy, Kept
  <2>5. d \in 1..up_seid /\ d \notin DOMAIN sessions'
    BY <1>3, <2>1 DEF IInv, Sessions
  <2>6. told' = told /\ ue_ip' = ue_ip /\ up_seid' = up_seid
    BY <1>2
  <2> QED  BY <1>5, <2>2, <2>4, <2>5, <2>6 DEF Stale
<1>6. \A a \in DOMAIN ue_ip : Stale(a) => Stale(a)'
  BY <1>2, <1>3 DEF Stale, HeldBy, Kept
<1>7. \A a \in DOMAIN ue_ip : Live(a) /\ ue_ip[a] # d => Live(a)'
  BY <1>2, <1>3 DEF Live
<1>8. \A r \in DOMAIN sessions' : Led(r)'
  BY <1>2, <1>3 DEF IInv, Routes, Led
<1>9. Routes'
  BY <1>2, <1>5, <1>6, <1>7, <1>8 DEF IInv, Routes
<1>10. IsRoutes(ue_ip')
  BY <1>2 DEF IInv, Shapes, IsRoutes, IsMap
<1>11. modifying' \subseteq [req : ModReqs, cp : Nat] /\ \A h \in modifying' : Found(h)
  BY <1>2 DEF IInv, Shapes, Tasks
<1>12. deleting' \in 0..up_seid
  BY <1>2 DEF IInv, Shapes, NoSeid
<1> QED  BY <1>1, <1>2, <1>3, <1>4, <1>9, <1>10, <1>11, <1>12, SwitchKeeps

\* The session of a connection that is to be deleted ends before PGW-C is told.
LEMMA HandleDeletionInv ==
  ASSUME IInv, NEW m, HandleDeletion(m)
  PROVE  IInv'
<1> DEFINE t == IF m.seid \in DOMAIN sessions THEN sessions[m.seid].cp ELSE NoSeid
<1>0. PICK n : n = DeletionResponse(m, t)
  OBVIOUS
<1>1. /\ m \in sx /\ m.to = "spgwu" /\ m.type = "delete" /\ sx' = (sx \ {m}) \cup {n}
      /\ UNCHANGED <<imsi2pgw_context, s5s8lteid2pgw_context, seid2pgw_context, pc, pdn,
                     alloc, teid, uid, up_seid, modifying, deleting, requests, told, overlapped,
                     paged>>
      /\ m.seid \in DOMAIN sessions =>
           CleanRoutes(m.seid) /\ sessions' = MapErase(sessions, m.seid)
      /\ m.seid \notin DOMAIN sessions => UNCHANGED <<sessions, ue_ip>>
      /\ modifying = {}
  BY <1>0 DEF HandleDeletion, Taken, Reply, pgwc
<1>2. /\ IsRoutes(ue_ip')
      /\ sessions' \in [DOMAIN sessions' -> SessionRecords]
      /\ DOMAIN sessions' = DOMAIN sessions \ {m.seid}
      /\ \A s \in DOMAIN sessions' : sessions'[s] = sessions[s]
      /\ SessionsLike /\ SessionsStay
  <2>1. CASE m.seid \in DOMAIN sessions
    <3>1. IsRoutes(ue_ip')
      BY <1>1, <2>1, RoutesCleaned
    <3>2. /\ sessions' \in [DOMAIN sessions' -> SessionRecords]
          /\ DOMAIN sessions' = DOMAIN sessions \ {m.seid}
          /\ \A s \in DOMAIN sessions' : sessions'[s] = sessions[s]
      BY <1>1, <2>1 DEF IInv, Shapes, MapErase
    <3> QED  BY <3>1, <3>2 DEF SessionsLike, SessionsStay
  <2>2. CASE m.seid \notin DOMAIN sessions
    BY ZenonT(60), <1>1, <2>2 DEF IInv, Shapes, SessionsLike, SessionsStay
  <2> QED  BY <2>1, <2>2
<1>3. /\ Tables' /\ Connections' /\ Pool' /\ Placed'
      /\ AllProcs' = AllProcs /\ Established' = Established
  BY <1>1, UpKeeps DEF IInv, Shapes
<1>4. t \in Nat /\ m.id \in Nat
  BY <1>1, MessageKinds DEF IInv, Shapes, SessionRecords, NoSeid
<1>5. n \in DelResps /\ n.to = "pgwc" /\ n.type = "delete" /\ n.id = m.id /\ n.seid = t
  <2> HIDE DEF t
  <2> QED  BY <1>0, <1>4 DEF DeletionResponse, DelResps
<1>6. Shapes'
  <2>1. n \in MsgRecords
    BY <1>5 DEF MsgRecords
  <2> QED  BY <1>1, <1>2, <1>3, <2>1 DEF IInv, Shapes, IsMap, IsRoutes
<1>7. PICK p \in AllProcs : p.id = m.id /\ ProcedureOf(m, p)
  BY <1>1 DEF IInv, Ids
<1>8. t # NoSeid => /\ m.seid \in DOMAIN sessions /\ sessions[m.seid].cp = t
                    /\ p.pdn = t /\ t \in told /\ t \in DOMAIN pdn
  <2>1. SUFFICES ASSUME t # NoSeid
                 PROVE  /\ m.seid \in DOMAIN sessions /\ sessions[m.seid].cp = t
                        /\ p.pdn = t /\ t \in told /\ t \in DOMAIN pdn
    OBVIOUS
  <2>2. m.seid \in DOMAIN sessions /\ sessions[m.seid].cp = t
    BY <2>1
  <2> HIDE DEF t
  <2>3. p.pdn = t /\ p.type = "delete"
    BY <1>1, <1>7, <2>2 DEF ProcedureOf, NamesConnection, About
  <2>4. t \in told
    BY <1>7, <2>3 DEF IInv, Ids
  <2>5. t \in DOMAIN pdn
    BY <2>2 DEF IInv, Sessions, Established
  <2> QED  BY <2>2, <2>3, <2>4, <2>5
<1> HIDE DEF t
<1>9. Ids'
  <2>1. \A q \in AllProcs : ProcedureOf(m, q) => ProcedureOf(n, q)'
    BY <1>1, <1>5, <1>8 DEF ProcedureOf, NamesConnection, About
  <2> QED  BY <1>1, <1>2, <1>3, <1>5, <2>1, SeidsAreGiven, IdsReply DEF IInv
<1>10. Sessions'
  <2>1. Fits(n)
    <3>1. t # NoSeid => \A s \in DOMAIN sessions' : sessions'[s].cp # t
      BY <1>2, <1>8 DEF IInv, Sessions
    <3>2. t # NoSeid => \A k \in sx : k.type = "delete" /\ k.to = "pgwc" => k.seid # t
      BY <1>8 DEF IInv, Sessions
    <3> QED  BY <1>5, <1>8, <3>1, <3>2 DEF Fits
  <2> QED  BY <1>1, <1>2, <1>3, <2>1, SessionsLikeKeeps
<1>11. Path'
  <2>1. \A k \in sx' : k \in sx \/ (k.to = "pgwc" /\ ~IsAccepted(k))
    BY <1>1, <1>5 DEF IsAccepted
  <2>2. \A k \in sx' : k \in sx \/ k.type # "modify" \/ ~k.created
    BY <1>1, <1>5
  <2>3. \A k \in sx : IsAccepted(k) => k \in sx'
    BY <1>1 DEF IsAccepted
  <2>4. \A u \in told \cap DOMAIN pdn : pdn[u].up_fseid \in DOMAIN sessions' \ {deleting'} =>
          /\ pdn[u].up_fseid \in DOMAIN sessions \ {deleting}
          /\ sessions'[pdn[u].up_fseid].dl = sessions[pdn[u].up_fseid].dl
    BY <1>1, <1>2
  <2> QED  BY <1>1, <1>2, <1>3, <2>1, <2>2, <2>3, <2>4, PathKept
<1>12. Tasks'
  BY <1>1, <1>2 DEF IInv, Tasks
<1>13. \A u \in told : Kept(u) /\ pdn[u].up_fseid \notin DOMAIN sessions => Kept(u)'
  <2>1. ASSUME NEW u \in told, Kept(u), pdn[u].up_fseid \notin DOMAIN sessions
        PROVE  Kept(u)'
    <3>1. t # u
      <4>1. CASE t = NoSeid
        <5>1. u \in Teids /\ teid \in Nat
          BY <2>1 DEF IInv, Tables, Kept, Shapes
        <5> QED  BY <4>1, <5>1 DEF Teids, NoSeid
      <4>2. CASE t # NoSeid
        BY <1>8, <2>1, <4>2 DEF IInv, Sessions
      <4> QED  BY <4>1, <4>2
    <3> QED  BY <1>1, <1>5, <2>1, <3>1 DEF Kept
  <2> QED  BY <2>1
<1>14. \A a \in DOMAIN ue_ip : Stale(a) /\ ue_ip'[a] = ue_ip[a] => Stale(a)'
  BY <1>1, <1>2, <1>13 DEF Stale, HeldBy
<1>15. Routes'
  <2>1. CASE m.seid \in DOMAIN sessions
    <3>1. /\ DOMAIN ue_ip' \subseteq DOMAIN ue_ip
          /\ \A a \in DOMAIN ue_ip' :
               ue_ip'[a] = ue_ip[a] /\ (Stale(a) \/ (Live(a) /\ ue_ip[a] # m.seid))
          /\ \A r \in DOMAIN sessions :
               r # m.seid /\ sessions[r].dl # NoRule /\ sessions[r].addr \in DynamicAddresses =>
                 sessions[r].addr \in DOMAIN ue_ip' /\ ue_ip'[sessions[r].addr] = r
      BY <1>1, <2>1, RoutesCleaned
    <3>2. \A a \in DOMAIN ue_ip' : Live(a) /\ ue_ip[a] # m.seid => Live(a)'
      BY <1>2, <3>1 DEF Live
    <3>3. \A r \in DOMAIN sessions' : Led(r)'
      BY <1>2, <3>1 DEF Led
    <3> QED  BY <1>14, <3>1, <3>2, <3>3 DEF Routes
  <2>2. CASE m.seid \notin DOMAIN sessions
    <3>1. UNCHANGED <<sessions, ue_ip>>
      BY <1>1, <2>2
    <3>2. \A a \in DOMAIN ue_ip : Live(a) => Live(a)'
      BY <3>1 DEF Live
    <3>3. \A r \in DOMAIN sessions : Led(r)'
      BY <3>1 DEF IInv, Routes, Led
    <3> QED  BY <1>14, <3>1, <3>2, <3>3 DEF IInv, Routes
  <2> QED  BY <2>1, <2>2
<1> QED  BY <1>2, <1>3, <1>6, <1>9, <1>10, <1>11, <1>12, <1>15 DEF IInv

\* A packet is reported, of a session that has a connection.
LEMMA PacketInCoreInv ==
  ASSUME IInv, NEW a \in DOMAIN ue_ip, PacketInCore(a)
  PROVE  IInv'
<1> DEFINE s == ue_ip[a]
           t == sessions[s].cp
<1>0. PICK n : n = Report(uid + 1, t)
  OBVIOUS
<1>1. /\ s \in DOMAIN sessions /\ sx' = sx \cup {n} /\ uid' = uid + 1
      /\ sessions' = [sessions EXCEPT ![s].notified = TRUE]
      /\ UNCHANGED <<imsi2pgw_context, s5s8lteid2pgw_context, seid2pgw_context, pc, pdn,
                     alloc, teid, ue_ip, up_seid, modifying, deleting, requests, told,
                     overlapped, paged>>
  BY <1>0 DEF PacketInCore, NextId
<1>2. /\ sessions' \in [DOMAIN sessions' -> SessionRecords] /\ DOMAIN sessions' = DOMAIN sessions
      /\ \A r \in DOMAIN sessions : /\ sessions'[r].cp = sessions[r].cp
                                    /\ sessions'[r].addr = sessions[r].addr
                                    /\ sessions'[r].dl = sessions[r].dl
                                    /\ sessions'[r].ul = sessions[r].ul
  <2>1. sessions \in [DOMAIN sessions -> SessionRecords] /\ DOMAIN sessions' = DOMAIN sessions
    BY <1>1 DEF IInv, Shapes
  <2>2. \A r \in DOMAIN sessions :
          \/ sessions'[r] = sessions[r]
          \/ sessions'[r] = [sessions[r] EXCEPT !.notified = TRUE]
    BY <1>1, <2>1
  <2>3. ASSUME NEW r \in DOMAIN sessions
        PROVE  /\ sessions'[r] \in SessionRecords /\ sessions'[r].cp = sessions[r].cp
               /\ sessions'[r].addr = sessions[r].addr /\ sessions'[r].dl = sessions[r].dl
               /\ sessions'[r].ul = sessions[r].ul
    <3> PICK x, y : x = sessions[r] /\ y = sessions'[r]
      OBVIOUS
    <3>1. x \in SessionRecords /\ (y = x \/ y = [x EXCEPT !.notified = TRUE])
      BY <2>1, <2>2
    <3>2. y \in SessionRecords /\ y.cp = x.cp /\ y.addr = x.addr /\ y.dl = x.dl /\ y.ul = x.ul
      BY <3>1 DEF SessionRecords
    <3> QED  BY <3>2
  <2>4. sessions' = [r \in DOMAIN sessions' |-> sessions'[r]]
    BY <1>1, <2>1
  <2>5. sessions' \in [DOMAIN sessions' -> SessionRecords]
    BY <2>1, <2>3, <2>4
  <2> QED  BY <2>1, <2>3, <2>5
<1>3. SessionsLike /\ SessionsStay
  BY <1>2 DEF SessionsLike, SessionsStay
<1>4. t \in Teids /\ t \in Nat /\ t # NoSeid
  BY <1>1, SessionOfTeid
<1>5. uid \in Nat /\ uid + 1 \in Nat
  BY DEF IInv, Shapes
<1> HIDE DEF t
<1>6. n \in Reports /\ n.to = "pgwc" /\ n.type = "report" /\ n.id = uid + 1 /\ n.seid = t
  BY <1>0, <1>4, <1>5 DEF Report, Reports
<1>7. /\ Tables' /\ Connections' /\ Pool' /\ Placed'
      /\ AllProcs' = AllProcs /\ Established' = Established
  BY <1>1, UpKeeps DEF IInv, Shapes
<1>8. Shapes'
  <2>1. n \in MsgRecords
    BY <1>6 DEF MsgRecords
  <2> QED  BY <1>1, <1>2, <1>5, <2>1 DEF IInv, Shapes, IsMap, IsRoutes
<1>9. Ids'
  BY <1>1, <1>3, <1>6, <1>7, SeidsAreGiven, IdsReport DEF IInv
<1>10. Sessions'
  <2>1. Fits(n)
    BY <1>4, <1>6 DEF Fits
  <2> QED  BY <1>1, <1>3, <1>7, <2>1, SessionsLikeKeeps
<1>11. Tasks' /\ Routes'
  <2>1. SameSessions
    BY <1>2 DEF SameSessions
  <2>2. StillKept
    BY <1>1, <1>6 DEF StillKept, Kept
  <2> QED  BY <1>1, <1>7, <2>1, <2>2, TasksKept
<1>12. Path'
  <2>1. \A k \in sx' : k \in sx \/ (k.to = "pgwc" /\ ~IsAccepted(k))
    BY <1>1, <1>6 DEF IsAccepted
  <2>2. \A k \in sx' : k \in sx \/ k.type # "modify" \/ ~k.created
    BY <1>1, <1>6
  <2>3. \A k \in sx : IsAccepted(k) => k \in sx'
    BY <1>1
  <2>4. \A u \in told \cap DOMAIN pdn : pdn[u].up_fseid \in DOMAIN sessions' \ {deleting'} =>
          /\ pdn[u].up_fseid \in DOMAIN sessions \ {deleting}
          /\ sessions'[pdn[u].up_fseid].dl = sessions[pdn[u].up_fseid].dl
    BY <1>1, <1>2
  <2> QED  BY <1>1, <1>2, <1>7, <2>1, <2>2, <2>3, <2>4, PathKept
<1> QED  BY <1>7, <1>8, <1>9, <1>10, <1>11, <1>12 DEF IInv

\* A modification request finds its session, or is refused.
LEMMA HandleModificationInv ==
  ASSUME IInv, NEW m, HandleModification(m)
  PROVE  IInv'
<1>1. /\ m \in sx /\ m.to = "spgwu" /\ m.type = "modify" /\ modifying = {}
      /\ UNCHANGED <<imsi2pgw_context, s5s8lteid2pgw_context, seid2pgw_context, pc, pdn,
                     alloc, teid, uid, sessions, ue_ip, up_seid, deleting, requests, told,
                     overlapped, paged>>
  BY DEF HandleModification, Taken, pgwc
<1>2. m \in ModReqs /\ m.id \in Nat
  BY <1>1, MessageKinds DEF IInv, ModReqs
<1>3. SessionsLike /\ SessionsStay
  BY <1>1 DEF SessionsLike, SessionsStay
<1>4. sessions' \in [DOMAIN sessions' -> SessionRecords] /\ IsRoutes(ue_ip')
  BY <1>1 DEF IInv, Shapes, IsRoutes, IsMap
<1>5. CASE /\ m.seid \notin DOMAIN sessions
           /\ Reply(m, ModificationResponse(m, NoSeid, FALSE, FALSE))
           /\ UNCHANGED modifying
  <2>1. PICK n : n = ModificationResponse(m, NoSeid, FALSE, FALSE)
    BY Zenon
  <2>2. /\ n \in ModResps /\ n.id = m.id /\ n.seid = NoSeid /\ ~n.accepted /\ ~n.created
        /\ n.to = "pgwc" /\ n.type = "modify"
    BY <1>2, <2>1 DEF NoSeid, ModificationResponse, ModResps
  <2>3. sx' = (sx \ {m}) \cup {n}
    BY <1>5, <2>1 DEF Reply
  <2>4. /\ Tables' /\ Connections' /\ Pool' /\ Placed'
        /\ AllProcs' = AllProcs /\ Established' = Established
    BY <1>1, UpKeeps DEF IInv, Shapes
  <2>5. Shapes'
    <3>1. n \in MsgRecords
      BY <2>2 DEF MsgRecords
    <3> QED  BY <1>1, <1>4, <1>5, <2>3, <2>4, <3>1 DEF IInv, Shapes, IsMap, IsRoutes
  <2>6. Ids'
    <3>1. \A q \in AllProcs : ProcedureOf(m, q) => ProcedureOf(n, q)'
      BY <1>1, <2>2 DEF ProcedureOf, NamesConnection, About
    <3> QED  BY <1>1, <1>3, <2>2, <2>3, <2>4, <3>1, SeidsAreGiven, IdsReply DEF IInv
  <2>7. Sessions'
    <3>1. Fits(n)
      BY <2>2 DEF Fits
    <3> QED  BY <1>1, <1>3, <2>3, <2>4, <3>1, SessionsLikeKeeps
  <2>8. Tasks'
    BY <1>1, <1>5 DEF IInv, Tasks
  <2>9. Routes'
    <3>1. \A t : Kept(t) => Kept(t)'
      BY <1>1, <2>2, <2>3 DEF Kept
    <3>2. \A a \in DOMAIN ue_ip : Stale(a) => Stale(a)'
      BY <1>1, <3>1 DEF Stale, HeldBy
    <3>3. \A a \in DOMAIN ue_ip : Live(a) => Live(a)'
      BY <1>1 DEF Live
    <3>4. \A s \in DOMAIN sessions : Led(s)'
      BY <1>1 DEF IInv, Routes, Led
    <3> QED  BY <1>1, <3>2, <3>3, <3>4 DEF IInv, Routes
  <2>10. Path'
    <3>1. \A k \in sx' : k \in sx \/ (k.to = "pgwc" /\ ~IsAccepted(k))
      BY <2>2, <2>3 DEF IsAccepted
    <3>2. \A k \in sx' : k \in sx \/ k.type # "modify" \/ ~k.created
      BY <2>2, <2>3
    <3>3. \A k \in sx : IsAccepted(k) => k \in sx'
      BY <1>1, <2>3 DEF IsAccepted
    <3> QED  BY <1>1, <2>4, <3>1, <3>2, <3>3, PathKept
  <2> QED  BY <2>4, <2>5, <2>6, <2>7, <2>8, <2>9, <2>10 DEF IInv
<1>6. CASE /\ m.seid \in DOMAIN sessions
           /\ modifying' = {[req |-> m, cp |-> sessions[m.seid].cp]}
           /\ UNCHANGED sx
  <2>1. PICK t : t = sessions[m.seid].cp
    OBVIOUS
  <2>2. PICK h : h = [req |-> m, cp |-> t]
    OBVIOUS
  <2>3. h.req = m /\ h.cp = t /\ h \in [req : ModReqs, cp : Nat]
    BY <1>2, <1>6, <2>1, <2>2, SessionOfTeid
  <2>4. PICK q \in AllProcs : q.id = m.id /\ ProcedureOf(m, q)
    BY <1>1 DEF IInv, Ids
  <2>5. q.pdn = t /\ t \in told /\ \A p \in AllProcs : p.id = m.id => p.pdn = t
    BY <1>1, <1>6, <2>1, <2>4 DEF IInv, Ids, ProcedureOf, NamesConnection, About
  <2>6. Kept(t)
    BY <1>6, <2>1, <2>5, SessionOfTeid DEF IInv, Sessions, Kept
  <2>7. pdn[t].up_fseid = m.seid /\ (m.rules = "create" => m.addr = pdn[t].addr)
    BY <1>1, <1>6, <2>1, <2>5 DEF IInv, Sessions
  <2>8. Found(h)
    BY <1>1, <2>3, <2>5, <2>6, <2>7 DEF Found
  <2>9. Routes'
    BY <1>1, <1>6 DEF IInv, Routes, Live, Stale, HeldBy, Kept, Led
  <2>10. \A s \in DOMAIN sessions' :
           /\ sessions'[s].addr = NoAddress \/ sessions'[s] = sessions[s]
           /\ s # deleting' => s # deleting /\ sessions'[s] = sessions[s]
    BY <1>1
  <2>11. deleting' \in 0..up_seid
    BY <1>1 DEF IInv, Shapes
  <2>12. modifying' = {h}
    BY <1>6, <2>1, <2>2
  <2> QED  BY <1>1, <1>3, <1>4, <1>6, <2>3, <2>8, <2>9, <2>10, <2>11, <2>12, SwitchKeeps
<1> QED  BY <1>5, <1>6 DEF HandleModification

\* The modification that SPGW-U is at, and its connection.
LEMMA FoundIs ==
  ASSUME IInv, NEW h \in modifying
  PROVE  /\ Found(h) /\ h.req \in ModReqs
         /\ h.cp \in Nat /\ h.cp \in Teids /\ h.cp # NoSeid
         /\ h.cp \in told /\ h.cp \in DOMAIN pdn /\ h.cp \in Established
         /\ pdn[h.cp].addr # NoAddress /\ h.req.seid \in 1..up_seid
         /\ h.req.seid \in DOMAIN sessions => sessions[h.req.seid].cp = h.cp
         /\ h.req.rules = "update" => h.req.ul # "none"
<1>1. Found(h) /\ h.req \in ModReqs
  BY MessageKinds DEF IInv, Tasks, Found
<1>2. h.cp \in told /\ h.cp \in DOMAIN pdn /\ pdn[h.cp].up_fseid = h.req.seid
  BY <1>1 DEF Found, Kept
<1>3. h.cp \in Teids /\ h.cp \in Nat /\ h.cp # NoSeid /\ pdn[h.cp].seid = h.cp
  BY <1>2 DEF IInv, Connections, Tables, Shapes, Teids, NoSeid
<1>4. h.cp \in Established /\ pdn[h.cp].addr # NoAddress
  BY <1>2, <1>3 DEF IInv, Pool, Established
<1>5. /\ h.req.seid \in DOMAIN sessions => sessions[h.req.seid].cp = h.cp
      /\ h.req.seid \in 1..up_seid /\ (h.req.rules = "update" => h.req.ul # "none")
  BY <1>1, <1>2 DEF IInv, Sessions, Found
<1> QED  BY <1>1, <1>2, <1>3, <1>4, <1>5

\* SPGW-U ends modification h with answer n, whatever becomes of it. If its session
\* is cleaned up the rules that are left do not matter.
Modified(h, n) ==
  /\ h \in modifying /\ modifying' = {} /\ sx' = (sx \ {h.req}) \cup {n}
  /\ n \in ModResps /\ n.id = h.req.id /\ n.seid = h.cp /\ (n.created => n.accepted)
  /\ UNCHANGED <<imsi2pgw_context, s5s8lteid2pgw_context, seid2pgw_context, pc, pdn,
                 alloc, teid, uid, up_seid, deleting, requests, told, overlapped, paged>>
  /\ IsRoutes(ue_ip') /\ SessionsLike
  /\ sessions' \in [DOMAIN sessions -> SessionRecords]
  /\ \A s \in DOMAIN sessions : s # h.req.seid => sessions'[s] = sessions[s]
  /\ h.req.seid \in DOMAIN sessions \ {deleting} =>
       /\ sessions'[h.req.seid].ul # "none"
       /\ n.accepted  => h.req.dl = NoRule \/ sessions'[h.req.seid].dl = h.req.dl
       /\ ~n.accepted => sessions'[h.req.seid].dl = sessions[h.req.seid].dl

\* If the answer is accepted its procedure is the only one pending, or overlaps.
LEMMA ModifiedKeepsPath ==
  ASSUME IInv, NEW h, NEW n, Modified(h, n), AllProcs' = AllProcs
  PROVE  Path'
<1>0. PICK m : m = h.req
  OBVIOUS
<1>1. /\ m \in sx /\ m.to = "spgwu" /\ m.type = "modify" /\ sx' = (sx \ {m}) \cup {n}
      /\ UNCHANGED <<pdn, deleting, told, overlapped>> /\ DOMAIN sessions' = DOMAIN sessions
      /\ n.id = m.id /\ n.to = "pgwc" /\ (n.created => n.accepted)
  BY <1>0, FoundIs DEF Modified, ModResps, Found
<1>2. \A t : Pending(t)' = Pending(t)
  BY DEF Pending
<1>3. PICK q \in AllProcs : q.id = m.id /\ ProcedureOf(m, q)
  BY <1>1 DEF IInv, Ids
<1>4. q.type \in {"modify", "release"} /\ q.pdn \in told /\ q.type # "ddn"
      /\ \A p \in AllProcs : p.id = m.id => p = q
  BY <1>1, <1>3 DEF IInv, Ids, ProcedureOf
<1>5. /\ q.pdn = h.cp /\ q.pdn \in DOMAIN pdn /\ pdn[q.pdn].up_fseid = m.seid
      /\ m.seid \in DOMAIN sessions => sessions[m.seid].cp = q.pdn
  BY <1>0, <1>3, FoundIs DEF Modified, Found
<1>6. ASSUME NEW t \in (told \cap DOMAIN pdn) \ overlapped,
             pdn[t].up_fseid \in DOMAIN sessions \ {deleting}
      PROVE  /\ \A p \in Pending(t) : \A k \in sx' :
                  p.type = "modify" /\ Accepted(k, p) =>
                    sessions'[pdn[t].up_fseid].dl = p.fteid
             /\ \/ Stored(t)'
                \/ \E p \in Pending(t) : \E k \in sx' : p.type = "modify" /\ Accepted(k, p)
  <2> DEFINE u == pdn[t].up_fseid
  <2>1. sessions[u].cp = t
    BY <1>6 DEF IInv, Sessions
  <2>2. /\ \A p \in Pending(t) : \A k \in sx :
             p.type = "modify" /\ Accepted(k, p) => sessions[u].dl = p.fteid
        /\ \/ Stored(t)
           \/ \E p \in Pending(t) : \E k \in sx : p.type = "modify" /\ Accepted(k, p)
    BY <1>6 DEF IInv, Path
  <2>3. \A k \in sx' : \A p : Accepted(k, p) => (k = n /\ p.id = m.id) \/ (k \in sx /\ k # m)
    BY <1>1 DEF Accepted
  <2>4. \A k \in sx : \A p : Accepted(k, p) => k \in sx' /\ k.id # m.id
    BY <1>1 DEF Accepted, IInv, Ids
  <2>5. \A p \in Pending(t) : p \in AllProcs /\ p.pdn = t /\ p.type # "ddn"
    BY DEF Pending
  <2>6. sessions'[u].dl = sessions[u].dl => (Stored(t) => Stored(t)')
    BY <1>1 DEF Stored
  <2>7. CASE u # m.seid
    <3>1. sessions'[u].dl = sessions[u].dl
      BY <1>0, <1>6, <2>7 DEF Modified
    <3>2. \A p \in Pending(t) : ~Accepted(n, p)
      BY <1>1, <1>4, <1>5, <2>5, <2>7 DEF Accepted
    <3>3. \A p \in Pending(t) : \A k \in sx' :
            p.type = "modify" /\ Accepted(k, p) => sessions'[u].dl = p.fteid
      BY <2>2, <2>3, <3>1, <3>2
    <3>4. \/ Stored(t)'
          \/ \E p \in Pending(t) : \E k \in sx' : p.type = "modify" /\ Accepted(k, p)
      BY <2>2, <2>4, <2>6, <3>1
    <3> QED  BY <3>3, <3>4
  <2>8. CASE u = m.seid
    <3>1. q.pdn = t /\ q \in Pending(t) /\ \A p \in Pending(t) : p = q
      <4>1. q.pdn = t
        BY <1>5, <1>6, <2>1, <2>8
      <4>2. q \in Pending(t)
        BY <1>4, <4>1 DEF Pending
      <4> QED  BY <1>6, <4>1, <4>2, <2>5 DEF IInv, Path
    <3>2. \A p \in Pending(t) : \A k \in sx' : Accepted(k, p) => k = n
      BY <1>3, <2>3, <2>4, <3>1 DEF Accepted
    <3>3. CASE q.type = "release"
      <4>1. pdn[t].released
        BY <1>6, <3>1, <3>3 DEF IInv, Path
      <4>2. Stored(t)'
        BY <1>1, <4>1 DEF Stored
      <4> QED  BY <3>1, <3>3, <4>2
    <3>4. CASE q.type = "modify" /\ n.accepted
      <4>1. m.dl = q.fteid /\ q.fteid # NoFteid
        BY <1>1, <1>3, <1>6, <3>1, <3>4 DEF IInv, Path
      <4>2. sessions'[u].dl = q.fteid
        BY <1>0, <1>6, <2>8, <3>4, <4>1 DEF Modified, NoRule, NoFteid
      <4>3. n \in sx' /\ Accepted(n, q)
        BY <1>1, <1>3, <3>4 DEF Accepted, Modified, ModResps
      <4> QED  BY <3>1, <3>4, <4>2, <4>3
    <3>5. CASE q.type = "modify" /\ ~n.accepted
      <4>1. sessions'[u].dl = sessions[u].dl
        BY <1>0, <1>6, <2>8, <3>5 DEF Modified
      <4>2. \A p \in Pending(t) : \A k \in sx' : ~Accepted(k, p)
        BY <3>2, <3>5 DEF Accepted
      <4>3. \A p \in Pending(t) : \A k \in sx : ~Accepted(k, p)
        BY <2>4, <4>2
      <4>4. Stored(t)'
        BY <2>2, <2>6, <4>1, <4>3
      <4> QED  BY <4>2, <4>4
    <3> QED  BY <1>4, <3>3, <3>4, <3>5
  <2> QED  BY <2>7, <2>8
<1>7. \A p \in AllProcs' : \A k \in sx' :
        p.type = "modify" /\ k.id = p.id /\ k.to = "spgwu" => k.dl = p.fteid
  BY <1>1 DEF IInv, Path
<1>8. \A k \in sx' : k.type = "modify" /\ k.to = "pgwc" => (k.created => k.accepted)
  BY <1>1 DEF IInv, Path
<1> QED  BY <1>1, <1>2, <1>6, <1>7, <1>8 DEF IInv, Path

LEMMA ModifiedKeepsIInv ==
  ASSUME IInv, NEW h, NEW n, Modified(h, n), Routes'
  PROVE  IInv'
<1>0. PICK m : m = h.req
  OBVIOUS
<1>1. /\ m \in sx /\ m.to = "spgwu" /\ m.type = "modify" /\ sx' = (sx \ {m}) \cup {n}
      /\ UNCHANGED <<imsi2pgw_context, s5s8lteid2pgw_context, seid2pgw_context, pc, pdn,
                     alloc, teid, uid, up_seid, deleting, requests, told, overlapped, paged>>
      /\ IsRoutes(ue_ip') /\ SessionsLike /\ modifying' = {}
      /\ sessions' \in [DOMAIN sessions -> SessionRecords]
  BY <1>0, FoundIs DEF Modified, Found
<1>2. SessionsStay /\ DOMAIN sessions' = DOMAIN sessions
  BY <1>1 DEF SessionsLike, SessionsStay
<1>3. /\ n \in ModResps /\ n.to = "pgwc" /\ n.type = "modify" /\ n.id = m.id
      /\ n.seid = h.cp /\ h.cp \in Teids /\ h.cp # NoSeid /\ h.cp \in told
      /\ m.seid \in DOMAIN sessions => sessions[m.seid].cp = h.cp
      /\ \A p \in AllProcs : p.id = m.id => p.pdn = h.cp
  BY <1>0, FoundIs DEF Modified, ModResps, Found
<1>4. /\ Tables' /\ Connections' /\ Pool' /\ Placed'
      /\ AllProcs' = AllProcs /\ Established' = Established
  BY <1>1, UpKeeps DEF IInv, Shapes
<1>5. Shapes'
  <2>1. n \in MsgRecords
    BY <1>3 DEF MsgRecords
  <2> QED  BY <1>1, <1>2, <1>4, <2>1 DEF IInv, Shapes, IsMap
<1>6. Ids'
  <2>1. \A q \in AllProcs : q.id = m.id /\ ProcedureOf(m, q) => ProcedureOf(n, q)'
    BY <1>1, <1>3 DEF ProcedureOf, NamesConnection, About
  <2> QED  BY <1>1, <1>2, <1>3, <1>4, <2>1, SeidsAreGiven, IdsReply DEF IInv
<1>7. Sessions'
  <2>1. Fits(n)
    BY <1>3 DEF Fits
  <2> QED  BY <1>1, <1>2, <1>4, <2>1, SessionsLikeKeeps
<1>8. Path'
  BY ZenonT(60), <1>4, ModifiedKeepsPath
<1>9. Tasks'
  <2>1. ASSUME NEW s \in DOMAIN sessions'
        PROVE  /\ sessions'[s].addr # NoAddress => sessions'[s].cp \in told
               /\ s # deleting => sessions'[s].ul # "none"
    <3>1. CASE s # m.seid
      <4>1. s \in DOMAIN sessions /\ sessions'[s] = sessions[s]
        BY <1>0, <1>2, <3>1 DEF Modified
      <4> QED  BY <4>1 DEF IInv, Tasks
    <3>2. CASE s = m.seid
      <4>1. sessions'[s].cp = h.cp
        BY <1>1, <1>2, <1>3, <3>2 DEF SessionsLike
      <4>2. s # deleting => sessions'[s].ul # "none"
        BY <1>0, <1>2, <3>2 DEF Modified
      <4> QED  BY <1>3, <4>1, <4>2
    <3> QED  BY <3>1, <3>2
  <2> QED  BY <1>1, <2>1 DEF Tasks
<1> QED  BY <1>1, <1>4, <1>5, <1>6, <1>7, <1>8, <1>9 DEF IInv

\* What leads nowhere stays so, while the connections do.
LEMMA StaleKept ==
  ASSUME NEW h, NEW n, Modified(h, n), DOMAIN sessions' = DOMAIN sessions
  PROVE  /\ \A t, a, s : HeldBy(t, a, s) => HeldBy(t, a, s)'
         /\ \A a \in DOMAIN ue_ip : Stale(a) /\ ue_ip'[a] = ue_ip[a] => Stale(a)'
<1>1. \A t : Kept(t) => Kept(t)'
  BY DEF Kept, Modified, ModResps
<1>2. \A t, a, s : HeldBy(t, a, s) => HeldBy(t, a, s)'
  BY <1>1 DEF HeldBy, Modified
<1>3. UNCHANGED <<told, up_seid>>
  BY DEF Modified
<1> QED  BY <1>2, <1>3 DEF Stale

\* The rules SPGW-U creates put the address of the connection into the table, unless
\* an entry is there, which leads to the same session; or to none any more.
LEMMA CreateRulesInv ==
  ASSUME IInv, NEW h \in modifying, EnterRules(h), CreateRules(h)
  PROVE  IInv'
<1>1. PICK m : m = h.req
  OBVIOUS
<1>2. PICK s, a : s = m.seid /\ a = m.addr
  OBVIOUS
<1>3. PICK n : n = ModificationResponse(m, h.cp, TRUE, TRUE)
  OBVIOUS
<1>4. /\ m.rules = "create" /\ modifying' = {} /\ sx' = (sx \ {m}) \cup {n}
      /\ sessions' = [r \in DOMAIN sessions |->
           IF r = s THEN [sessions[r] EXCEPT !.dl = m.dl, !.addr = a] ELSE sessions[r]]
      /\ ue_ip' = MapInsert(ue_ip, a, s)
      /\ UNCHANGED <<imsi2pgw_context, s5s8lteid2pgw_context, seid2pgw_context, pc, pdn,
                     alloc, teid, uid, up_seid, deleting, requests, told, overlapped, paged>>
  BY Zenon, <1>1, <1>2, <1>3 DEF EnterRules, CreateRules, Reply, pgwc
<1>5. /\ m \in ModReqs /\ m.dl \in EnbFteids \cup {Nocp, NoRule} /\ a \in Addrs
      /\ a = pdn[h.cp].addr /\ a # NoAddress /\ s = pdn[h.cp].up_fseid /\ s \in 1..up_seid
      /\ h.cp \in Established /\ h.cp \in told /\ Kept(h.cp) /\ h.cp \in Nat /\ m.id \in Nat
      /\ s \in DOMAIN sessions => sessions[s].cp = h.cp
  BY <1>1, <1>2, <1>4, FoundIs DEF Found, ModReqs
<1>6. n \in ModResps /\ n.id = m.id /\ n.seid = h.cp /\ n.accepted /\ n.created
  BY <1>3, <1>5 DEF ModificationResponse, ModResps
<1>7. sessions \in [DOMAIN sessions -> SessionRecords] /\ IsRoutes(ue_ip)
  BY DEF IInv, Shapes
<1>8. /\ DOMAIN sessions' = DOMAIN sessions
      /\ \A r \in DOMAIN sessions : r # s => sessions'[r] = sessions[r]
  BY <1>4
<1>9. ASSUME s \in DOMAIN sessions
      PROVE  /\ sessions'[s] \in SessionRecords /\ sessions'[s].dl = m.dl
             /\ sessions'[s].addr = a /\ sessions'[s].cp = h.cp
             /\ sessions'[s].ul = sessions[s].ul
  <2> PICK x, y : x = sessions[s] /\ y = sessions'[s]
    OBVIOUS
  <2>1. x \in SessionRecords /\ y = [[x EXCEPT !.dl = m.dl] EXCEPT !.addr = a] /\ x.cp = h.cp
    BY <1>4, <1>5, <1>7, <1>9
  <2>2. y \in SessionRecords /\ y.dl = m.dl /\ y.addr = a /\ y.cp = x.cp /\ y.ul = x.ul
    BY <1>5, <2>1 DEF SessionRecords
  <2> QED  BY <2>1, <2>2
<1>10. sessions' \in [DOMAIN sessions -> SessionRecords]
  <2>1. sessions' = [r \in DOMAIN sessions |-> sessions'[r]]
    BY <1>4
  <2> QED  BY <1>7, <1>8, <1>9, <2>1
<1>11. SessionsLike
  BY <1>5, <1>8, <1>9 DEF SessionsLike
<1>12. /\ IsRoutes(ue_ip') /\ DOMAIN ue_ip' = DOMAIN ue_ip \cup {a}
       /\ \A b \in DOMAIN ue_ip : ue_ip'[b] = ue_ip[b]
       /\ a \notin DOMAIN ue_ip => ue_ip'[a] = s
  BY <1>4, <1>5, <1>7 DEF MapInsert, IsRoutes, IsMap
<1>13. Modified(h, n)
  <2>1. s \in DOMAIN sessions \ {deleting} => sessions'[s].ul # "none"
    BY <1>9 DEF IInv, Tasks
  <2> QED  BY <1>1, <1>2, <1>4, <1>6, <1>8, <1>9, <1>10, <1>11, <1>12, <2>1 DEF Modified
<1>14. \A b \in DOMAIN ue_ip : Live(b) => Live(b)'
  <2>1. ASSUME NEW b \in DOMAIN ue_ip, Live(b), ue_ip[b] = s
        PROVE  b = a
    BY <1>5, <1>7, <2>1 DEF Live, IsRoutes, IInv, Sessions
  <2> QED  BY <1>8, <1>9, <1>12, <2>1 DEF Live
<1>15. \A b \in DOMAIN ue_ip : Stale(b) => Stale(b)'
  BY <1>8, <1>12, <1>13, StaleKept
<1>16. a \notin DOMAIN ue_ip => Live(a)' \/ Stale(a)'
  <2>1. ASSUME a \notin DOMAIN ue_ip, s \in DOMAIN sessions
        PROVE  Live(a)'
    BY <1>8, <1>9, <1>12, <2>1 DEF Live
  <2>2. ASSUME a \notin DOMAIN ue_ip, s \notin DOMAIN sessions
        PROVE  Stale(a)'
    <3>1. HeldBy(h.cp, a, s)'
      BY <1>5, <1>8, <1>13, StaleKept DEF HeldBy
    <3> QED  BY <1>4, <1>5, <1>8, <1>12, <2>2, <3>1 DEF Stale
  <2> QED  BY <2>1, <2>2
<1>17. ASSUME s \in DOMAIN sessions, a \in DynamicAddresses, a \in DOMAIN ue_ip
       PROVE  ue_ip[a] = s
  <2>1. CASE Live(a)
    <3>1. sessions[ue_ip[a]].cp \in Established /\ pdn[sessions[ue_ip[a]].cp].addr = a
      BY <1>5, <2>1 DEF Live, IInv, Sessions
    <3>2. sessions[ue_ip[a]].cp = h.cp
      BY <1>5, <1>17, <3>1 DEF IInv, Pool
    <3> QED  BY <1>5, <1>17, <2>1, <3>2 DEF Live, IInv, Sessions
  <2>2. CASE Stale(a)
    <3>1. PICK t \in told : HeldBy(t, a, ue_ip[a]) /\ ue_ip[a] \notin DOMAIN sessions
      BY <1>17, <2>2 DEF Stale
    <3>2. t \in Established /\ pdn[t].addr = a /\ pdn[t].up_fseid = ue_ip[a]
      BY <3>1 DEF HeldBy, Kept, Established, IInv, Connections, Tables, Teids, NoSeid
    <3>3. t = h.cp
      BY <1>5, <1>17, <3>2 DEF IInv, Pool
    <3> QED  BY <1>5, <1>17, <3>1, <3>2, <3>3
  <2> QED  BY <1>17, <2>1, <2>2 DEF IInv, Routes
<1>18. \A r \in DOMAIN sessions' : Led(r)'
  <2>1. ASSUME NEW r \in DOMAIN sessions, r # s
        PROVE  Led(r)'
    BY <1>8, <1>12, <2>1 DEF Led, IInv, Routes
  <2>2. ASSUME s \in DOMAIN sessions
        PROVE  Led(s)'
    BY <1>8, <1>9, <1>12, <1>17, <2>2 DEF Led
  <2> QED  BY <1>8, <2>1, <2>2
<1>19. Routes'
  <2>1. \A b \in DOMAIN ue_ip : Live(b) \/ Stale(b)
    BY DEF IInv, Routes
  <2> QED  BY <1>12, <1>14, <1>15, <1>16, <1>18, <2>1 DEF Routes
<1> QED  BY <1>13, <1>19, ModifiedKeepsIInv

\* Rules that are updated change no route.
LEMMA UpdateRulesInv ==
  ASSUME IInv, NEW h \in modifying, EnterRules(h), UpdateRules(h)
  PROVE  IInv'
<1>1. PICK m : m = h.req
  OBVIOUS
<1>2. PICK s : s = m.seid
  OBVIOUS
<1>3. PICK ok \in BOOLEAN :
        ok = ((m.dl = NoRule \/ Held(h).dl # NoRule) /\ Held(h).ul # "none")
  OBVIOUS
<1>4. PICK n : n = ModificationResponse(m, h.cp, ok, FALSE)
  OBVIOUS
<1>5. /\ m.rules = "update" /\ modifying' = {} /\ sx' = (sx \ {m}) \cup {n}
      /\ sessions' = [r \in DOMAIN sessions |->
           IF r = s
           THEN [sessions[r] EXCEPT !.dl = IF m.dl = NoRule \/ @ = NoRule THEN @ ELSE m.dl,
                                    !.ul = IF @ = "none" THEN @ ELSE m.ul]
           ELSE sessions[r]]
      /\ UNCHANGED <<imsi2pgw_context, s5s8lteid2pgw_context, seid2pgw_context, pc, pdn, ue_ip,
                     alloc, teid, uid, up_seid, deleting, requests, told, overlapped, paged>>
  BY <1>1, <1>2, <1>3, <1>4 DEF EnterRules, UpdateRules, Reply, pgwc
<1>6. /\ m \in ModReqs /\ m.dl \in EnbFteids \cup {Nocp, NoRule} /\ m.ul \in {"forw", "drop"}
      /\ h.cp \in Nat /\ m.id \in Nat
  BY <1>1, <1>5, FoundIs DEF ModReqs
<1>7. n \in ModResps /\ n.id = m.id /\ n.seid = h.cp /\ n.accepted = ok /\ ~n.created
  BY <1>4, <1>6 DEF ModificationResponse, ModResps
<1>8. sessions \in [DOMAIN sessions -> SessionRecords] /\ IsRoutes(ue_ip')
  BY <1>5 DEF IInv, Shapes, IsRoutes, IsMap
<1>9. /\ DOMAIN sessions' = DOMAIN sessions /\ UNCHANGED ue_ip
      /\ \A r \in DOMAIN sessions : r # s => sessions'[r] = sessions[r]
  BY Zenon, <1>5
<1>10. ASSUME s \in DOMAIN sessions
       PROVE  /\ sessions'[s] \in SessionRecords
              /\ sessions'[s].cp = sessions[s].cp /\ sessions'[s].addr = sessions[s].addr
              /\ sessions'[s].dl # NoRule => sessions[s].dl # NoRule
              /\ sessions[s].ul # "none" => sessions'[s].ul # "none"
              /\ ok => m.dl = NoRule \/ sessions'[s].dl = m.dl
              /\ ~ok => sessions[s].ul = "none" \/ sessions'[s].dl = sessions[s].dl
  <2>1. PICK x, y : x = sessions[s] /\ y = sessions'[s]
    OBVIOUS
  <2>2. PICK dl, ul : /\ dl = (IF m.dl = NoRule \/ x.dl = NoRule THEN x.dl ELSE m.dl)
                      /\ ul = (IF x.ul = "none" THEN x.ul ELSE m.ul)
    BY Zenon
  <2>3. x \in SessionRecords /\ y = [[x EXCEPT !.dl = dl] EXCEPT !.ul = ul]
    BY <1>5, <1>8, <1>10, <2>1, <2>2
  <2>4. dl \in EnbFteids \cup {Nocp, NoRule} /\ ul \in {"forw", "drop", "none"}
    BY <1>6, <2>2, <2>3 DEF SessionRecords
  <2>5. y \in SessionRecords /\ y.dl = dl /\ y.ul = ul /\ y.cp = x.cp /\ y.addr = x.addr
    BY <2>3, <2>4 DEF SessionRecords
  <2>6. Held(h) = x
    BY <1>1, <1>2, <1>10, <2>1 DEF Held
  <2>7. /\ dl # NoRule => x.dl # NoRule
        /\ x.ul # "none" => ul # "none"
        /\ ok => m.dl = NoRule \/ dl = m.dl
        /\ ~ok => x.ul = "none" \/ dl = x.dl
    BY <1>3, <1>6, <2>2, <2>6
  <2> QED  BY <2>1, <2>5, <2>7
<1>11. sessions' \in [DOMAIN sessions -> SessionRecords]
  <2>1. sessions' = [r \in DOMAIN sessions |-> sessions'[r]]
    BY <1>5
  <2> QED  BY <1>8, <1>9, <1>10, <2>1
<1>12. SessionsLike
  BY <1>9, <1>10 DEF SessionsLike
<1>13. Modified(h, n)
  <2>1. s \in DOMAIN sessions \ {deleting} => sessions[s].ul # "none"
    BY DEF IInv, Tasks
  <2>2. s \in DOMAIN sessions \ {deleting} =>
          /\ sessions'[s].ul # "none"
          /\ n.accepted  => m.dl = NoRule \/ sessions'[s].dl = m.dl
          /\ ~n.accepted => sessions'[s].dl = sessions[s].dl
    BY <1>7, <1>10, <2>1
  <2> QED  BY <1>1, <1>2, <1>5, <1>7, <1>8, <1>9, <1>11, <1>12, <2>2 DEF Modified
<1>14. \A b \in DOMAIN ue_ip : Live(b) => Live(b)'
  BY <1>9, <1>10 DEF Live
<1>15. \A b \in DOMAIN ue_ip : Stale(b) => Stale(b)'
  BY <1>9, <1>13, StaleKept
<1>16. \A r \in DOMAIN sessions' : Led(r)'
  BY <1>9, <1>10 DEF Led, IInv, Routes
<1>17. Routes'
  BY <1>9, <1>14, <1>15, <1>16 DEF IInv, Routes
<1> QED  BY <1>13, <1>17, ModifiedKeepsIInv

LEMMA EnterRulesInv ==
  ASSUME IInv, NEW h \in modifying, EnterRules(h)
  PROVE  IInv'
  BY CreateRulesInv, UpdateRulesInv DEF EnterRules

------------------------------------------------------------------------------
(* Responses of SPGW-U *)

\* The procedure an awaited response ends.
LEMMA ProcedureAwaited ==
  ASSUME IInv, NEW m, NEW type \in {"establishment", "modify", "delete"}, Awaited(m, type)
  PROVE  /\ m \in sx /\ m.to = "pgwc" /\ m.type = type /\ m.seid # NoSeid
         /\ ContextOfSeid(m) \in DOMAIN pc /\ ProcOf(m) \in Procs(ContextOfSeid(m))
         /\ ProcOf(m) \in AllProcs /\ ProcOf(m) \in ProcRecords
         /\ ProcOf(m).id = m.id /\ ProcedureOf(m, ProcOf(m)) /\ ProcOf(m).pdn = m.seid
         /\ m.seid \in DOMAIN seid2pgw_context /\ seid2pgw_context[m.seid] = ContextOfSeid(m)
<1>1. /\ m \in sx /\ m.to = "pgwc" /\ m.type = type /\ m.seid \in DOMAIN seid2pgw_context
      /\ \E p \in Procs(ContextOfSeid(m)) : p.id = m.id
  BY DEF Awaited, ContextOfSeid
<1>2. ProcOf(m) \in Procs(ContextOfSeid(m)) /\ ProcOf(m).id = m.id
  BY <1>1 DEF ProcOf
<1>3. PICK p : p = ProcOf(m)
  OBVIOUS
<1>4. m.seid # NoSeid /\ ContextOfSeid(m) \in DOMAIN pc
      /\ seid2pgw_context[m.seid] = ContextOfSeid(m)
  BY <1>1 DEF IInv, Tables, Teids, NoSeid, ContextOfSeid
<1>5. p \in AllProcs /\ p \in ProcRecords /\ p.id = m.id
  BY <1>2, <1>3, <1>4, ContextTyped DEF AllProcs, IInv
<1>6. ProcedureOf(m, p)
  BY <1>1, <1>5 DEF IInv, Ids
<1>7. p.pdn = m.seid
  BY <1>1, <1>4, <1>6 DEF ProcedureOf, NamesConnection, About
<1> QED  BY <1>1, <1>2, <1>3, <1>4, <1>5, <1>6, <1>7

\* The end of a procedure.
LEMMA ProcedureEnded ==
  ASSUME IInv, NEW m, NEW type \in {"establishment", "modify", "delete"}, Awaited(m, type),
         EndProc(m), UNCHANGED <<seid2pgw_context, uid, sessions>>, told \subseteq told'
  PROVE  /\ SameContexts /\ pc' \in [DOMAIN pc' -> ContextRecords]
         /\ Placed' /\ AllProcs' = AllProcs \ {ProcOf(m)} /\ sx' = sx \ {m} /\ Ids'
<1>1. PICK p : p = ProcOf(m)
  OBVIOUS
<1>2. PICK c : c = ContextOfSeid(m)
  OBVIOUS
<1>3. m \in sx /\ c \in DOMAIN pc /\ p \in Procs(c) /\ p \in AllProcs /\ p.id = m.id
  BY <1>1, <1>2, ProcedureAwaited
<1>4. pc' = [pc EXCEPT ![c].pending_procedures = @ \ {p}] /\ sx' = sx \ {m}
  BY <1>1, <1>2 DEF EndProc
<1>5. SameContexts /\ pc' \in [DOMAIN pc' -> ContextRecords] /\ Placed' /\ AllProcs' = AllProcs \ {p}
  BY <1>3, <1>4, ProcedureRemoved DEF IInv
<1>6. Ids'
  BY <1>3, <1>4, <1>5, SeidsAreGiven, SessionsKept, IdsEnd DEF IInv
<1> QED  BY <1>1, <1>4, <1>5, <1>6

\* SGW-C is told of a connection once, when its session is there.
LEMMA HandleEstablishmentResponseInv ==
  ASSUME IInv, NEW m, HandleEstablishmentResponse(m)
  PROVE  IInv'
<1>0. Awaited(m, "establishment") /\ EndProc(m)
  BY DEF HandleEstablishmentResponse
<1>1. PICK p, t : p = ProcOf(m) /\ t = p.pdn
  OBVIOUS
<1>2. /\ m \in sx /\ m.to = "pgwc" /\ m.type = "establishment" /\ m.seid = t
      /\ p \in AllProcs /\ p.pdn = t /\ p.type = "establishment"
  BY <1>0, <1>1, ProcedureAwaited DEF ProcedureOf
<1>3. /\ pdn' = [pdn EXCEPT ![t].up_fseid = m.up] /\ told' = told \cup {t}
      /\ UNCHANGED <<imsi2pgw_context, s5s8lteid2pgw_context, seid2pgw_context, alloc,
                     teid, uid, sessions, ue_ip, up_seid, modifying, deleting,
                     requests, overlapped, paged>>
  BY <1>1 DEF HandleEstablishmentResponse, upf
<1>4. /\ SameContexts /\ pc' \in [DOMAIN pc' -> ContextRecords] /\ Placed'
      /\ AllProcs' = AllProcs \ {p} /\ sx' = sx \ {m} /\ Ids'
  BY <1>0, <1>1, <1>3, ProcedureEnded
<1>5. /\ t \in DOMAIN pdn /\ t \in DOMAIN seid2pgw_context /\ t \notin told
      /\ m.up \in 1..up_seid /\ m.up \in Nat
      /\ m.up \in DOMAIN sessions => sessions[m.up].cp = t
      /\ \A s \in DOMAIN sessions : sessions[s].cp = t => s = m.up
      /\ \A k \in sx' : k.type = "establishment" /\ k.to = "pgwc" => k.seid # t
      /\ \A k \in sx' : k.type = "establishment" /\ k.to = "spgwu" => k.cp # t
  BY <1>2, <1>4, MessageKinds DEF IInv, Sessions, EstResps
<1>6. /\ pdn' \in [DOMAIN pdn -> PdnRecords]
      /\ pdn'[t].up_fseid = m.up
      /\ \A u \in DOMAIN pdn :
           /\ pdn'[u].addr = pdn[u].addr /\ pdn'[u].seid = pdn[u].seid
           /\ pdn'[u].sgw_fteid = pdn[u].sgw_fteid /\ pdn'[u].released = pdn[u].released
           /\ u # t => pdn'[u] = pdn[u]
  BY <1>3, <1>5 DEF IInv, Shapes, PdnRecords
<1>7. DOMAIN pdn' = DOMAIN pdn /\ SameAddresses
  BY <1>6 DEF SameAddresses
<1>8. Shapes'
  BY <1>3, <1>4, <1>6, <1>7 DEF IInv, Shapes, IsMap, IsRoutes
<1>9. Tables'
  BY <1>3, <1>4, <1>7, TablesKept DEF IInv
<1>10. Pool' /\ Established' = Established
  BY <1>3, <1>7, PoolKept DEF IInv
<1>11. Connections'
  BY <1>3, <1>5, <1>6, <1>7 DEF IInv, Connections, Teids
<1>12. Sessions'
  <2>1. \A u \in told' \cap DOMAIN pdn' :
          pdn'[u].up_fseid \in DOMAIN sessions => sessions[pdn'[u].up_fseid].cp = u
    BY <1>3, <1>5, <1>6, <1>7 DEF IInv, Sessions
  <2>2. /\ \A s \in DOMAIN sessions :
             /\ sessions[s].cp \in Established
             /\ sessions[s].addr \in {NoAddress, pdn'[sessions[s].cp].addr}
        /\ \A k \in sx' : k.type = "modify" /\ k.to = "spgwu" =>
             /\ k.rules = "update" => k.ul # "none"
             /\ k.rules = "create" /\ k.seid \in DOMAIN sessions =>
                  k.addr = pdn'[sessions[k.seid].cp].addr
    BY <1>4, <1>6 DEF IInv, Sessions, Established
  <2>3. \A s \in DOMAIN sessions :
          sessions[s].cp \in told' => pdn'[sessions[s].cp].up_fseid = s
    BY <1>3, <1>5, <1>6, <2>2 DEF IInv, Sessions, Established
  <2> QED  BY <1>3, <1>4, <1>5, <1>7, <1>10, <2>1, <2>2, <2>3 DEF IInv, Sessions, Teids
<1>13. Tasks' /\ Routes'
  <2>1. \A u : Kept(u) => u # t
    BY <1>5 DEF Kept
  <2>2. StillKept
    BY <1>3, <1>4, <1>6, <1>7, <2>1 DEF StillKept
  <2> QED  BY <1>2, <1>3, <1>4, <2>2, TasksKept DEF SameSessions
<1>14. Path'
  <2>2. ASSUME NEW u \in (told' \cap DOMAIN pdn') \ overlapped,
               pdn'[u].up_fseid \in DOMAIN sessions \ {deleting}
        PROVE  /\ \A q \in Pending(u)' : \A k \in sx' :
                    q.type = "modify" /\ Accepted(k, q) =>
                      sessions[pdn'[u].up_fseid].dl = q.fteid
               /\ \/ Stored(u)'
                  \/ \E q \in Pending(u)' : \E k \in sx' : q.type = "modify" /\ Accepted(k, q)
    <3>1. CASE u = t
      <4>1. \A q \in Pending(t)' : q.type # "modify"
        BY <1>4, <1>5 DEF Pending, IInv, Ids
      <4>2. Stored(t)'
        BY <1>5, <1>6 DEF IInv, Path, Stored
      <4> QED  BY <3>1, <4>1, <4>2
    <3>2. CASE u # t
      <4>1. /\ u \in (told \cap DOMAIN pdn) \ overlapped
            /\ pdn[u].up_fseid \in DOMAIN sessions \ {deleting} /\ pdn'[u] = pdn[u]
        BY <1>3, <1>6, <1>7, <2>2, <3>2
      <4>2. Pending(u)' = Pending(u)
        BY <1>2, <1>4, <3>2 DEF Pending
      <4>3. /\ \A q \in Pending(u) : \A k \in sx :
                 q.type = "modify" /\ Accepted(k, q) => sessions[pdn[u].up_fseid].dl = q.fteid
            /\ \/ Stored(u)
               \/ \E q \in Pending(u) : \E k \in sx : q.type = "modify" /\ Accepted(k, q)
        BY <4>1 DEF IInv, Path
      <4>4. \A k, q : Accepted(k, q) => k # m
        BY <1>2 DEF Accepted
      <4>5. Stored(u) => Stored(u)'
        BY <1>3, <4>1 DEF Stored
      <4> QED  BY <1>4, <4>1, <4>2, <4>3, <4>4, <4>5
    <3> QED  BY <3>1, <3>2
  <2>3. /\ \A q, r \in AllProcs' :
             q.pdn = r.pdn /\ q.pdn \notin overlapped /\ q.type # "ddn" /\ r.type # "ddn" => q = r
        /\ \A q \in AllProcs' : q.pdn \notin overlapped /\ q.pdn \in DOMAIN pdn =>
             /\ q.type = "release" => pdn'[q.pdn].released
             /\ q.type = "modify"  => q.fteid # NoFteid
        /\ \A q \in AllProcs' : \A k \in sx' :
             q.type = "modify" /\ k.id = q.id /\ k.to = "spgwu" => k.dl = q.fteid
        /\ \A u \in DOMAIN pdn : u \notin told' => pdn'[u].sgw_fteid = NoFteid
        /\ \A k \in sx' : k.type = "modify" /\ k.to = "pgwc" => (k.created => k.accepted)
    BY <1>3, <1>4, <1>6 DEF IInv, Path
  <2> QED  BY <1>3, <1>7, <2>2, <2>3 DEF Path
<1> QED  BY <1>4, <1>8, <1>9, <1>10, <1>11, <1>12, <1>13, <1>14 DEF IInv

\* PGW-C stores the F-TEID SPGW-U has accepted.
LEMMA HandleModificationResponseInv ==
  ASSUME IInv, NEW m, HandleModificationResponse(m)
  PROVE  IInv'
<1>0. Awaited(m, "modify") /\ EndProc(m)
  BY DEF HandleModificationResponse
<1>1. PICK p, t : p = ProcOf(m) /\ t = p.pdn
  OBVIOUS
<1>2. /\ m \in sx /\ m.to = "pgwc" /\ m.type = "modify" /\ m.seid = t
      /\ p \in AllProcs /\ p.pdn = t /\ p.type \in {"modify", "release"} /\ p.type # "ddn"
      /\ p.id = m.id /\ p.fteid \in Fteids
  BY <1>0, <1>1, ProcedureAwaited DEF ProcedureOf, ProcRecords
<1>3. /\ pdn' = IF p.type = "release" \/ t \notin DOMAIN pdn THEN pdn
                ELSE IF m.created
                THEN [pdn EXCEPT ![t].sgw_fteid = p.fteid, ![t].released = FALSE]
                ELSE IF m.accepted THEN [pdn EXCEPT ![t].sgw_fteid = p.fteid] ELSE pdn
      /\ UNCHANGED <<imsi2pgw_context, s5s8lteid2pgw_context, seid2pgw_context, alloc,
                     teid, uid, sessions, ue_ip, up_seid, modifying, deleting,
                     requests, told, overlapped, paged>>
  BY <1>1 DEF HandleModificationResponse, upf
<1>4. /\ SameContexts /\ pc' \in [DOMAIN pc' -> ContextRecords] /\ Placed'
      /\ AllProcs' = AllProcs \ {p} /\ sx' = sx \ {m} /\ Ids'
  BY <1>0, <1>1, <1>3, ProcedureEnded
<1>5. t \in told /\ (m.created => m.accepted)
      /\ \A k \in sx : k.id = m.id => k = m
  BY SMTT(60), <1>2 DEF IInv, Ids, Path
<1>6. /\ pdn' \in [DOMAIN pdn -> PdnRecords]
      /\ \A u \in DOMAIN pdn :
           /\ pdn'[u].addr = pdn[u].addr /\ pdn'[u].seid = pdn[u].seid
           /\ pdn'[u].up_fseid = pdn[u].up_fseid /\ pdn'[u].dl = pdn[u].dl
           /\ u # t => pdn'[u] = pdn[u]
      /\ t \in DOMAIN pdn => \/ /\ p.type = "release" \/ ~m.accepted
                                /\ pdn'[t] = pdn[t]
                             \/ p.type = "modify" /\ m.accepted /\ pdn'[t].sgw_fteid = p.fteid
  <2>1. pdn \in [DOMAIN pdn -> PdnRecords]
    BY DEF IInv, Shapes
  <2>2. CASE pdn' = pdn /\ (t \notin DOMAIN pdn \/ p.type = "release" \/ ~m.accepted)
    BY <2>1, <2>2
  <2>3. CASE /\ pdn' = [pdn EXCEPT ![t].sgw_fteid = p.fteid, ![t].released = FALSE]
             /\ p.type = "modify" /\ m.accepted /\ t \in DOMAIN pdn
    <3>1. /\ DOMAIN pdn' = DOMAIN pdn /\ pdn[t] \in PdnRecords
          /\ \A u \in DOMAIN pdn : u # t => pdn'[u] = pdn[u]
          /\ pdn'[t] = [[pdn[t] EXCEPT !.sgw_fteid = p.fteid] EXCEPT !.released = FALSE]
      BY <2>1, <2>3
    <3>2. /\ pdn'[t] \in PdnRecords /\ pdn'[t].sgw_fteid = p.fteid
          /\ pdn'[t].addr = pdn[t].addr /\ pdn'[t].seid = pdn[t].seid
          /\ pdn'[t].up_fseid = pdn[t].up_fseid /\ pdn'[t].dl = pdn[t].dl
      BY <1>2, <3>1 DEF PdnRecords
    <3>3. pdn' = [u \in DOMAIN pdn |-> pdn'[u]]
      BY <2>3
    <3> QED  BY <2>1, <2>3, <3>1, <3>2, <3>3
  <2>4. CASE /\ pdn' = [pdn EXCEPT ![t].sgw_fteid = p.fteid]
             /\ p.type = "modify" /\ m.accepted /\ t \in DOMAIN pdn
    BY <1>2, <2>1, <2>4 DEF PdnRecords
  <2> QED  BY <1>2, <1>3, <1>5, <2>2, <2>3, <2>4
<1>7. DOMAIN pdn' = DOMAIN pdn /\ SameAddresses
  BY <1>6 DEF SameAddresses
<1>8. Shapes'
  BY <1>3, <1>4, <1>6, <1>7 DEF IInv, Shapes, IsMap, IsRoutes
<1>9. Tables'
  BY <1>3, <1>4, <1>7, TablesKept DEF IInv
<1>10. Pool' /\ Established' = Established
  BY <1>3, <1>7, PoolKept DEF IInv
<1>11. Connections'
  BY SMTT(60), <1>3, <1>6, <1>7 DEF IInv, Connections, Teids
<1>12. Sessions'
  BY <1>3, <1>4, <1>6, <1>7, <1>10 DEF IInv, Sessions, Teids, Established
<1>13. Tasks' /\ Routes'
  <2>1. StillKept
    BY <1>3, <1>4, <1>6, <1>7 DEF StillKept
  <2> QED  BY <1>2, <1>3, <1>4, <2>1, TasksKept DEF SameSessions
<1>14. Path'
  <2>1. \A q \in AllProcs : q.pdn = t /\ t \notin overlapped /\ q.type # "ddn" => q = p
    BY <1>2 DEF IInv, Path
  <2>2. ASSUME NEW u \in (told \cap DOMAIN pdn) \ overlapped,
               pdn[u].up_fseid \in DOMAIN sessions \ {deleting}
        PROVE  /\ \A q \in Pending(u)' : \A k \in sx' :
                    q.type = "modify" /\ Accepted(k, q) =>
                      sessions[pdn[u].up_fseid].dl = q.fteid
               /\ \/ Stored(u)'
                  \/ \E q \in Pending(u)' : \E k \in sx' : q.type = "modify" /\ Accepted(k, q)
    <3>1. /\ \A q \in Pending(u) : \A k \in sx :
               q.type = "modify" /\ Accepted(k, q) => sessions[pdn[u].up_fseid].dl = q.fteid
          /\ \/ Stored(u)
             \/ \E q \in Pending(u) : \E k \in sx : q.type = "modify" /\ Accepted(k, q)
      BY <2>2 DEF IInv, Path
    <3>2. pdn'[u] = pdn[u] => (Stored(u) => Stored(u)')
      BY <1>3 DEF Stored
    <3>3. CASE u = t
      <4>1. Pending(u)' = {}
        BY <1>4, <2>1, <2>2, <3>3 DEF Pending
      <4>2. p \in Pending(u) /\ \A q \in Pending(u) : q = p
        BY <1>2, <2>1, <2>2, <3>3 DEF Pending
      <4>3. CASE p.type = "modify" /\ m.accepted
        <5>1. sessions[pdn[u].up_fseid].dl = p.fteid
          BY <1>2, <3>1, <4>2, <4>3 DEF Accepted
        <5>2. pdn'[u].sgw_fteid = p.fteid /\ pdn'[u].up_fseid = pdn[u].up_fseid
          BY <1>6, <2>2, <3>3, <4>3
        <5> QED  BY <1>3, <4>1, <5>1, <5>2 DEF Stored
      <4>4. CASE p.type = "release"
        <5>1. pdn[u].released /\ pdn'[u] = pdn[u]
          BY <1>2, <1>6, <2>2, <3>3, <4>4 DEF IInv, Path
        <5> QED  BY <4>1, <5>1 DEF Stored
      <4>5. CASE p.type = "modify" /\ ~m.accepted
        <5>1. \A k \in sx : ~Accepted(k, p)
          BY <1>2, <1>5, <4>5 DEF Accepted
        <5>2. pdn'[u] = pdn[u]
          BY <1>6, <2>2, <3>3, <4>5
        <5> QED  BY <3>1, <3>2, <4>1, <4>2, <5>1, <5>2
      <4> QED  BY <1>2, <4>3, <4>4, <4>5
    <3>4. CASE u # t
      <4>1. Pending(u)' = Pending(u) /\ pdn'[u] = pdn[u]
        BY <1>2, <1>4, <1>6, <2>2, <3>4 DEF Pending
      <4>2. \A q \in Pending(u) : \A k \in sx : Accepted(k, q) => k \in sx'
        <5>1. SUFFICES ASSUME NEW q \in Pending(u), Accepted(m, q) PROVE FALSE
          BY <1>4
        <5>2. q \in AllProcs /\ q.id = p.id /\ q.pdn = u
          BY <1>2, <5>1 DEF Pending, Accepted
        <5> QED  BY <1>2, <3>4, <5>2 DEF IInv, Ids
      <4> QED  BY <1>4, <3>1, <3>2, <4>1, <4>2
    <3> QED  BY <3>3, <3>4
  <2>3. \A q \in AllProcs' : q.pdn \notin overlapped /\ q.pdn \in DOMAIN pdn =>
          /\ q.type = "release" => pdn'[q.pdn].released
          /\ q.type = "modify"  => q.fteid # NoFteid
    <3>1. \A q \in AllProcs' : q.pdn = t /\ t \notin overlapped => q.type = "ddn"
      BY <1>4, <2>1
    <3> QED  BY <1>4, <1>6, <3>1 DEF IInv, Path
  <2>4. \A u \in DOMAIN pdn : u \notin told => pdn'[u].sgw_fteid = NoFteid
    BY <1>5, <1>6 DEF IInv, Path
  <2>5. \A u \in DOMAIN pdn : pdn'[u].up_fseid = pdn[u].up_fseid
    BY <1>6
  <2>6. /\ \A q, r \in AllProcs' :
             q.pdn = r.pdn /\ q.pdn \notin overlapped /\ q.type # "ddn" /\ r.type # "ddn" => q = r
        /\ \A q \in AllProcs' : \A k \in sx' :
             q.type = "modify" /\ k.id = q.id /\ k.to = "spgwu" => k.dl = q.fteid
        /\ \A k \in sx' : k.type = "modify" /\ k.to = "pgwc" => (k.created => k.accepted)
    BY <1>4 DEF IInv, Path
  <2> QED  BY <1>3, <1>7, <2>2, <2>3, <2>4, <2>5, <2>6 DEF Path
<1> QED  BY <1>4, <1>8, <1>9, <1>10, <1>11, <1>12, <1>13, <1>14 DEF IInv

\* The connections of a context.
PdnsOf(ctx) == UNION ctx.apns

\* The connections of a context without one of them.
LEMMA PdnRemoved ==
  ASSUME NEW ctx \in ContextRecords, NEW t, NEW r, r = RemovePdn(ctx, t)
  PROVE  /\ r \in ContextRecords /\ r.imsi = ctx.imsi
         /\ r.pending_procedures = ctx.pending_procedures
         /\ PdnsOf(r) = PdnsOf(ctx) \ {t}
         /\ \A a \in r.apns : a # {} /\ \E b \in ctx.apns : a \subseteq b
<1> DEFINE S == {b \ {t} : b \in ctx.apns} \ {{}}
<1>1. r = [ctx EXCEPT !.apns = S]
  BY DEF RemovePdn
<1>2. ctx.apns \in SUBSET (SUBSET Nat)
  BY DEF ContextRecords
<1>3. /\ \A a \in S : \E b \in ctx.apns : a = b \ {t} /\ a # {}
      /\ \A b \in ctx.apns : b \ {t} # {} => b \ {t} \in S
  OBVIOUS
<1> HIDE DEF S
<1>4. S \in SUBSET (SUBSET Nat)
  BY <1>2, <1>3
<1>5. /\ r \in ContextRecords /\ r.imsi = ctx.imsi /\ r.apns = S
      /\ r.pending_procedures = ctx.pending_procedures
  BY <1>1, <1>4 DEF ContextRecords
<1>6. \A a \in S : a # {} /\ \E b \in ctx.apns : a \subseteq b
  BY <1>3
<1>7. \A x : x \in UNION S <=> x \in UNION ctx.apns /\ x # t
  <2>1. ASSUME NEW x, x \in UNION S
        PROVE  x \in UNION ctx.apns /\ x # t
    BY <1>3, <2>1
  <2>2. ASSUME NEW x, NEW b \in ctx.apns, x \in b, x # t
        PROVE  x \in UNION S
    <3>1. x \in b \ {t} /\ b \ {t} # {}
      BY <2>2
    <3>2. b \ {t} \in S
      BY <1>3, <3>1
    <3> QED  BY <3>1, <3>2
  <2> QED  BY <2>1, <2>2
<1>8. UNION S = (UNION ctx.apns) \ {t}
  <2> DEFINE A == UNION S
             B == UNION ctx.apns
  <2> HIDE DEF A, B
  <2>1. \A x : x \in A <=> x \in B /\ x # t
    BY <1>7 DEF A, B
  <2>2. A = B \ {t}
    BY <2>1
  <2> QED  BY <2>2 DEF A, B
<1> QED  BY <1>5, <1>6, <1>8 DEF PdnsOf

\* The connection a deletion response is about leaves all tables and the pool gets
\* its address.
LEMMA ConnectionDeleted ==
  ASSUME IInv, StaticsPastPool, NEW m, HandleDeletionResponse(m),
         NEW p, NEW t, NEW c, p = ProcOf(m), t = p.pdn, c = ContextOfSeid(m)
  PROVE  /\ t \in DOMAIN pdn /\ t \in told /\ t = m.seid
         /\ Tables' /\ Pool' /\ Placed'
         /\ pc' \in [DOMAIN pc' -> ContextRecords]
         /\ IsMap(imsi2pgw_context') /\ IsMap(s5s8lteid2pgw_context')
         /\ AllProcs' = AllProcs \ {p} /\ Established' = Established \ {t}
         /\ pdn' = MapErase(pdn, t)
<1>0. Awaited(m, "delete")
  BY DEF HandleDeletionResponse
<1>1. /\ m \in sx /\ m.to = "pgwc" /\ m.type = "delete" /\ m.seid = t /\ m.seid # NoSeid
      /\ c \in DOMAIN pc /\ p \in Procs(c) /\ t \in DOMAIN seid2pgw_context
      /\ seid2pgw_context[t] = c
  BY <1>0, ProcedureAwaited
<1>2. t \in told /\ t \in DOMAIN pdn
  BY <1>1 DEF IInv, Sessions
<1>3. PICK r : r = RemovePdn(pc[c], t)
  OBVIOUS
<1>4. PICK ctx : ctx = [r EXCEPT !.pending_procedures = @ \ {p}]
  OBVIOUS
<1>5. /\ pc' = [pc EXCEPT ![c] = ctx]
      /\ imsi2pgw_context' = IF ctx.apns = {} THEN MapErase(imsi2pgw_context, ctx.imsi)
                             ELSE imsi2pgw_context
      /\ alloc' = FreeAddress(alloc, Num, pdn[t].addr)
      /\ s5s8lteid2pgw_context' = MapErase(s5s8lteid2pgw_context, t)
      /\ pdn' = MapErase(pdn, t)
      /\ UNCHANGED <<seid2pgw_context, teid>>
  BY <1>2, <1>3, <1>4 DEF HandleDeletionResponse
<1>6. pc \in [DOMAIN pc -> ContextRecords] /\ pc[c] \in ContextRecords
  BY <1>1, ContextTyped DEF IInv, Shapes
<1>7. /\ r \in ContextRecords /\ r.imsi = pc[c].imsi
      /\ r.pending_procedures = Procs(c)
      /\ PdnsOf(r) = ConnsOf(c) \ {t}
      /\ \A a \in r.apns : a # {} /\ \E b \in pc[c].apns : a \subseteq b
  <2>1. PICK x : x = pc[c]
    OBVIOUS
  <2>2. x \in ContextRecords /\ r = RemovePdn(x, t)
    BY <1>3, <1>6, <2>1
  <2>3. /\ r \in ContextRecords /\ r.imsi = x.imsi
        /\ r.pending_procedures = x.pending_procedures
        /\ PdnsOf(r) = PdnsOf(x) \ {t}
        /\ \A a \in r.apns : a # {} /\ \E b \in x.apns : a \subseteq b
    BY <2>2, PdnRemoved
  <2>4. ConnsOf(c) = PdnsOf(x) /\ Procs(c) = x.pending_procedures
    BY <2>1 DEF Procs, ConnsOf, PdnsOf
  <2> QED  BY <2>1, <2>3, <2>4
<1>8. /\ ctx \in ContextRecords /\ ctx.imsi = pc[c].imsi /\ ctx.apns = r.apns
      /\ ctx.pending_procedures = Procs(c) \ {p}
  BY <1>4, <1>7 DEF ContextRecords
<1>9. /\ DOMAIN pc' = DOMAIN pc /\ pc'[c] = ctx
      /\ \A d \in DOMAIN pc : d # c => pc'[d] = pc[d]
      /\ pc' \in [DOMAIN pc' -> ContextRecords]
  BY <1>1, <1>5, <1>6, <1>8
<1>10. /\ \A d \in DOMAIN pc : d # c => Procs(d)' = Procs(d) /\ ConnsOf(d)' = ConnsOf(d)
       /\ Procs(c)' = Procs(c) \ {p} /\ ConnsOf(c)' = ConnsOf(c) \ {t}
  BY <1>7, <1>8, <1>9 DEF Procs, ConnsOf, PdnsOf
<1>11. Placed'
  BY <1>1, <1>5, <1>9, <1>10 DEF IInv, Placed
<1>12. AllProcs' = AllProcs \ {p}
  <2>1. \A d \in DOMAIN pc : p \in Procs(d) => d = c
    BY <1>1 DEF IInv, Placed
  <2> QED  BY <1>1, <1>9, <1>10, <2>1 DEF AllProcs
<1>13. /\ DOMAIN pdn' = DOMAIN pdn \ {t} /\ \A u \in DOMAIN pdn' : pdn'[u] = pdn[u]
       /\ IsMap(s5s8lteid2pgw_context')
       /\ DOMAIN s5s8lteid2pgw_context' = DOMAIN s5s8lteid2pgw_context \ {t}
       /\ \A u \in DOMAIN s5s8lteid2pgw_context' :
            s5s8lteid2pgw_context'[u] = s5s8lteid2pgw_context[u]
  BY <1>5 DEF MapErase, IsMap
<1>14. s5s8lteid2pgw_context[t] = c /\ t \in ConnsOf(c) /\ pc[c].imsi \in DOMAIN imsi2pgw_context
       /\ imsi2pgw_context[pc[c].imsi] = c
  BY <1>1, <1>2 DEF IInv, Tables
<1>15. /\ IsMap(imsi2pgw_context') /\ DOMAIN imsi2pgw_context' \subseteq DOMAIN imsi2pgw_context
       /\ \A i \in DOMAIN imsi2pgw_context' : imsi2pgw_context'[i] = imsi2pgw_context[i]
       /\ \A i \in DOMAIN imsi2pgw_context :
            i \in DOMAIN imsi2pgw_context' \/ (i = pc[c].imsi /\ ctx.apns = {})
  BY <1>5, <1>8 DEF MapErase, IsMap, IInv, Shapes
<1>16. Tables'
  <2>1. \A i \in DOMAIN imsi2pgw_context' :
          /\ i \in IMSIs /\ imsi2pgw_context'[i] \in DOMAIN pc'
          /\ pc'[imsi2pgw_context'[i]].imsi = i
    BY <1>8, <1>9, <1>15 DEF IInv, Tables
  <2>2. \A u \in DOMAIN s5s8lteid2pgw_context' :
          /\ s5s8lteid2pgw_context'[u] \in DOMAIN pc'
          /\ u \in ConnsOf(s5s8lteid2pgw_context[u])'
    <3>1. ASSUME NEW u \in DOMAIN s5s8lteid2pgw_context', NEW d, d = s5s8lteid2pgw_context'[u]
          PROVE  d \in DOMAIN pc /\ u \in ConnsOf(d)'
      BY <1>10, <1>13, <3>1 DEF IInv, Tables
    <3> QED  BY <1>9, <3>1 DEF ConnsOf
  <2>3. \A d \in DOMAIN pc' : \A u \in ConnsOf(d)' :
          u \in DOMAIN s5s8lteid2pgw_context' /\ s5s8lteid2pgw_context'[u] = d
    <3>1. ASSUME NEW d \in DOMAIN pc, NEW u \in ConnsOf(d)'
          PROVE  u \in DOMAIN s5s8lteid2pgw_context' /\ s5s8lteid2pgw_context'[u] = d
      <4>1. u \in ConnsOf(d) /\ (d = c => u # t)
        BY <1>10
      <4>2. u \in DOMAIN s5s8lteid2pgw_context /\ s5s8lteid2pgw_context[u] = d
        BY <4>1 DEF IInv, Tables
      <4> QED  BY <1>13, <1>14, <4>1, <4>2
    <3> QED  BY <1>9, <3>1
  <2>4. \A d \in DOMAIN pc' : ConnsOf(d)' # {} =>
          pc'[d].imsi \in DOMAIN imsi2pgw_context' /\ imsi2pgw_context'[pc'[d].imsi] = d
    <3>1. ASSUME NEW d \in DOMAIN pc, ConnsOf(d)' # {}
          PROVE  pc'[d].imsi \in DOMAIN imsi2pgw_context' /\ imsi2pgw_context'[pc'[d].imsi] = d
      <4>1. ConnsOf(d) # {} /\ pc'[d].imsi = pc[d].imsi
        BY <1>8, <1>9, <1>10, <3>1
      <4>2. pc[d].imsi \in DOMAIN imsi2pgw_context /\ imsi2pgw_context[pc[d].imsi] = d
        BY <4>1 DEF IInv, Tables
      <4>3. r.apns = {} => PdnsOf(r) = {}
        BY DEF PdnsOf
      <4>4. d = c => ctx.apns # {}
        BY <1>7, <1>8, <1>10, <3>1, <4>3
      <4> QED  BY <1>14, <1>15, <4>1, <4>2, <4>4
    <3> QED  BY <1>9, <3>1
  <2>5. \A d \in DOMAIN pc' : \A a \in pc'[d].apns : a # {} /\ a \subseteq Teids
    <3>1. \A d \in DOMAIN pc : \A a \in pc[d].apns : a # {} /\ a \subseteq Teids
      BY DEF IInv, Tables
    <3>2. \A a \in ctx.apns : a # {} /\ a \subseteq Teids
      BY <1>1, <1>7, <1>8, <3>1
    <3> QED  BY <1>9, <3>1, <3>2
  <2>6. \A u \in DOMAIN seid2pgw_context :
          /\ seid2pgw_context[u] \in DOMAIN pc'
          /\ u \in DOMAIN s5s8lteid2pgw_context' =>
               s5s8lteid2pgw_context'[u] = seid2pgw_context[u]
    BY <1>9, <1>13 DEF IInv, Tables
  <2>7. /\ DOMAIN pc \subseteq Teids /\ DOMAIN seid2pgw_context \subseteq Teids
        /\ DOMAIN s5s8lteid2pgw_context \subseteq Teids
        /\ DOMAIN pdn = DOMAIN s5s8lteid2pgw_context /\ Teids' = Teids
    BY <1>5 DEF IInv, Tables, Teids
  <2> QED  BY <1>5, <1>9, <1>13, <2>1, <2>2, <2>3, <2>4, <2>5, <2>6, <2>7 DEF Tables
<1>17. t \in Established /\ Established' = Established \ {t}
  BY <1>1, <1>2, <1>13 DEF IInv, Connections, Established
<1>18. Pool'
  <2> DEFINE a == pdn[t].addr
  <2>1. a \in DynamicAddresses \cup Statics /\ a # NoAddress
    BY <1>17 DEF IInv, Pool, Established, Shapes, PdnRecords, Addrs
  <2>2. Covers(alloc) /\ FreeBits(alloc) = DynamicAddresses \ {pdn[u].addr : u \in Established}
    BY DEF IInv, Pool, Covers, PoolAgrees
  <2>3. /\ Covers(alloc')
        /\ FreeBits(alloc') = FreeBits(alloc) \cup ({a} \cap DynamicAddresses)
    <3> HIDE DEF a
    <3>1. alloc' = FreeAddress(alloc, Num, a)
      BY <1>5 DEF a
    <3> QED  BY <2>1, <2>2, <3>1, FreeAddressFrees, StaticsPastPool
  <2>4. \A u \in Established' : pdn'[u].addr = pdn[u].addr /\ u # t /\ u \in Established
    BY <1>13, <1>17 DEF Established
  <2>5. \A x \in DynamicAddresses :
          x \in {pdn'[u].addr : u \in Established'} <=>
            x \in {pdn[u].addr : u \in Established} /\ x # a
    <3>1. ASSUME NEW x \in DynamicAddresses, NEW u \in Established', x = pdn'[u].addr
          PROVE  x \in {pdn[v].addr : v \in Established} /\ x # a
      <4>1. x = pdn[u].addr /\ u \in Established /\ u # t
        BY <2>4, <3>1
      <4> QED  BY <1>17, <4>1 DEF IInv, Pool
    <3>2. ASSUME NEW x \in DynamicAddresses, NEW u \in Established, x = pdn[u].addr, x # a
          PROVE  x \in {pdn'[v].addr : v \in Established'}
      <4>1. u \in Established' /\ x = pdn'[u].addr
        BY <1>17, <2>4, <3>2
      <4> QED  BY <4>1
    <3> QED  BY <3>1, <3>2
  <2>6. FreeBits(alloc') = DynamicAddresses \ {pdn'[u].addr : u \in Established'}
    <3> DEFINE A == {pdn[u].addr : u \in Established}
               B == {pdn'[u].addr : u \in Established'}
    <3>1. a \in DynamicAddresses => a \notin B
      BY <2>5
    <3> HIDE DEF a, A, B
    <3> QED  BY <2>2, <2>3, <2>5, <3>1 DEF A, B
  <2>7. PoolAgrees'
    BY <2>6 DEF PoolAgrees, DynamicAddresses
  <2>8. /\ \A u \in Established' : pdn'[u].addr # NoAddress
        /\ \A u, v \in Established' :
             pdn'[u].addr = pdn'[v].addr /\ pdn'[u].addr \in DynamicAddresses => u = v
    BY <2>4 DEF IInv, Pool
  <2> QED  BY <2>3, <2>7, <2>8 DEF Pool, Covers
<1> QED  BY <1>1, <1>2, <1>5, <1>9, <1>11, <1>12, <1>13, <1>15, <1>16, <1>17, <1>18

\* A connection is deleted when SPGW-U has no session of it.
LEMMA HandleDeletionResponseInv ==
  ASSUME IInv, StaticsPastPool, NEW m, HandleDeletionResponse(m)
  PROVE  IInv'
<1>0. Awaited(m, "delete")
  BY DEF HandleDeletionResponse
<1>1. PICK p, t, c : p = ProcOf(m) /\ t = p.pdn /\ c = ContextOfSeid(m)
  OBVIOUS
<1>2. /\ m \in sx /\ m.to = "pgwc" /\ m.type = "delete" /\ m.seid = t /\ m.seid # NoSeid
      /\ p \in AllProcs /\ p.id = m.id
  BY <1>0, <1>1, ProcedureAwaited
<1>3. /\ t \in DOMAIN pdn /\ t \in told /\ Tables' /\ Pool' /\ Placed'
      /\ pc' \in [DOMAIN pc' -> ContextRecords]
      /\ IsMap(imsi2pgw_context') /\ IsMap(s5s8lteid2pgw_context')
      /\ AllProcs' = AllProcs \ {p} /\ Established' = Established \ {t}
      /\ pdn' = MapErase(pdn, t)
  BY <1>1, ConnectionDeleted, StaticsPastPool
<1>4. /\ sx' = sx \ {m}
      /\ UNCHANGED <<seid2pgw_context, teid, uid, sessions, ue_ip, up_seid, modifying, deleting,
                     requests, told, overlapped, paged>>
  BY DEF HandleDeletionResponse, upf
<1>5. /\ DOMAIN pdn' = DOMAIN pdn \ {t} /\ \A u \in DOMAIN pdn' : pdn'[u] = pdn[u]
      /\ pdn' \in [DOMAIN pdn' -> PdnRecords]
  BY <1>3 DEF MapErase, IInv, Shapes
<1>6. Shapes'
  BY <1>3, <1>4, <1>5 DEF IInv, Shapes, IsMap, IsRoutes
<1>7. Connections'
  BY <1>4, <1>5 DEF IInv, Connections, Teids
<1>8. Ids'
  BY <1>2, <1>3, <1>4, SeidsAreGiven, SessionsKept, IdsEnd DEF IInv
<1>9. \A s \in DOMAIN sessions : sessions[s].cp # t /\ sessions[s].cp \in DOMAIN pdn'
  BY <1>2, <1>5 DEF IInv, Sessions, Established
<1>10. Sessions'
  <2>1. \A s \in DOMAIN sessions :
          /\ sessions[s].cp \in Established'
          /\ sessions[s].addr \in {NoAddress, pdn'[sessions[s].cp].addr}
    BY <1>3, <1>5, <1>9 DEF IInv, Sessions
  <2>2. \A u \in told \cap DOMAIN pdn' :
          pdn'[u].up_fseid \in DOMAIN sessions => sessions[pdn'[u].up_fseid].cp = u
    BY <1>5 DEF IInv, Sessions
  <2>3. \A k \in sx' : k.type = "modify" /\ k.to = "spgwu" =>
          /\ k.rules = "update" => k.ul # "none"
          /\ k.rules = "create" /\ k.seid \in DOMAIN sessions =>
               k.addr = pdn'[sessions[k.seid].cp].addr
    BY <1>4, <1>5, <1>9 DEF IInv, Sessions
  <2>4. \A k \in sx' : k.type = "delete" /\ k.to = "pgwc" /\ k.seid # NoSeid =>
          k.seid \in told \cap DOMAIN pdn'
    BY <1>2, <1>4, <1>5 DEF IInv, Sessions
  <2>5. \A k \in sx' : k.type = "establishment" =>
          /\ k.to = "spgwu" => k.cp \in DOMAIN pdn'
          /\ k.to = "pgwc"  => k.seid \in DOMAIN pdn'
    BY <1>3, <1>4, <1>5 DEF IInv, Sessions
  <2>6. \A s \in DOMAIN sessions :
          sessions[s].cp \in told => pdn'[sessions[s].cp].up_fseid = s
    BY <1>5, <1>9 DEF IInv, Sessions
  <2> QED  BY <1>4, <2>1, <2>2, <2>3, <2>4, <2>5, <2>6 DEF IInv, Sessions, Teids
<1>11. Tasks' /\ Routes'
  <2>1. \A u : Kept(u) => u # t
    BY <1>2 DEF Kept
  <2>2. StillKept
    BY <1>4, <1>5, <2>1 DEF StillKept
  <2> QED  BY <1>2, <1>3, <1>4, <2>2, TasksKept DEF SameSessions
<1>12. Path'
  <2>1. ASSUME NEW u \in (told \cap DOMAIN pdn') \ overlapped,
               pdn'[u].up_fseid \in DOMAIN sessions \ {deleting}
        PROVE  /\ \A q \in Pending(u)' : \A k \in sx' :
                    q.type = "modify" /\ Accepted(k, q) =>
                      sessions[pdn'[u].up_fseid].dl = q.fteid
               /\ \/ Stored(u)'
                  \/ \E q \in Pending(u)' : \E k \in sx' : q.type = "modify" /\ Accepted(k, q)
    <3>1. u # t /\ u \in DOMAIN pdn /\ pdn'[u] = pdn[u]
      BY <1>5
    <3>2. Pending(u)' = Pending(u)
      BY <1>1, <1>3, <3>1 DEF Pending
    <3>3. /\ \A q \in Pending(u) : \A k \in sx :
               q.type = "modify" /\ Accepted(k, q) => sessions[pdn[u].up_fseid].dl = q.fteid
          /\ \/ Stored(u)
             \/ \E q \in Pending(u) : \E k \in sx : q.type = "modify" /\ Accepted(k, q)
      BY <2>1, <3>1 DEF IInv, Path
    <3>4. \A k, q : Accepted(k, q) => k # m
      BY <1>2 DEF Accepted
    <3>5. Stored(u) => Stored(u)'
      BY <1>4, <3>1 DEF Stored
    <3> QED  BY <1>4, <3>1, <3>2, <3>3, <3>4, <3>5
  <2>2. /\ \A q, r \in AllProcs' :
             q.pdn = r.pdn /\ q.pdn \notin overlapped /\ q.type # "ddn" /\ r.type # "ddn" => q = r
        /\ \A q \in AllProcs' : q.pdn \notin overlapped /\ q.pdn \in DOMAIN pdn' =>
             /\ q.type = "release" => pdn'[q.pdn].released
             /\ q.type = "modify"  => q.fteid # NoFteid
        /\ \A q \in AllProcs' : \A k \in sx' :
             q.type = "modify" /\ k.id = q.id /\ k.to = "spgwu" => k.dl = q.fteid
        /\ \A u \in DOMAIN pdn' : u \notin told => pdn'[u].sgw_fteid = NoFteid
        /\ \A k \in sx' : k.type = "modify" /\ k.to = "pgwc" => (k.created => k.accepted)
    BY <1>3, <1>4, <1>5 DEF IInv, Path
  <2> QED  BY <1>4, <2>1, <2>2 DEF Path
<1> QED  BY <1>3, <1>6, <1>7, <1>8, <1>10, <1>11, <1>12 DEF IInv

\* The paths stay when only downlink data notifications start or end.
LEMMA PathNotified ==
  ASSUME IInv, UNCHANGED <<pdn, told, overlapped, sessions, deleting>>, sx' \subseteq sx,
         \A k \in sx : IsAccepted(k) => k \in sx',
         \A p : p \in AllProcs' /\ p \notin AllProcs => p.type = "ddn",
         \A p : p \in AllProcs /\ p \notin AllProcs' => p.type = "ddn"
  PROVE  Path'
<1>1. \A t : Pending(t)' = Pending(t)
  BY DEF Pending
<1>2. ASSUME NEW t \in (told \cap DOMAIN pdn) \ overlapped,
             pdn[t].up_fseid \in DOMAIN sessions \ {deleting}
      PROVE  /\ \A p \in Pending(t)' : \A m \in sx' :
                  p.type = "modify" /\ Accepted(m, p) =>
                    sessions[pdn[t].up_fseid].dl = p.fteid
             /\ \/ Stored(t)'
                \/ \E p \in Pending(t)' : \E m \in sx' : p.type = "modify" /\ Accepted(m, p)
  <2>1. /\ \A p \in Pending(t) : \A m \in sx :
             p.type = "modify" /\ Accepted(m, p) => sessions[pdn[t].up_fseid].dl = p.fteid
        /\ \/ Stored(t)
           \/ \E p \in Pending(t) : \E m \in sx : p.type = "modify" /\ Accepted(m, p)
    BY <1>2 DEF IInv, Path
  <2>2. \A m : \A p : Accepted(m, p) => IsAccepted(m)
    BY DEF Accepted, IsAccepted
  <2>3. Stored(t) => Stored(t)'
    BY DEF Stored
  <2> QED  BY <1>1, <2>1, <2>2, <2>3
<1>3. /\ \A p, q \in AllProcs' :
           p.pdn = q.pdn /\ p.pdn \notin overlapped /\ p.type # "ddn" /\ q.type # "ddn" => p = q
      /\ \A p \in AllProcs' : p.pdn \notin overlapped /\ p.pdn \in DOMAIN pdn =>
           /\ p.type = "release" => pdn[p.pdn].released
           /\ p.type = "modify"  => p.fteid # NoFteid
      /\ \A p \in AllProcs' : \A m \in sx' :
           p.type = "modify" /\ m.id = p.id /\ m.to = "spgwu" => m.dl = p.fteid
      /\ \A m \in sx' : m.type = "modify" /\ m.to = "pgwc" => (m.created => m.accepted)
  BY DEF IInv, Path
<1> QED  BY <1>2, <1>3 DEF IInv, Path

\* Fewer messages and no other sessions.
LEMMA SessionsFewer ==
  ASSUME IInv, UNCHANGED <<pdn, told, seid2pgw_context, up_seid, teid, sessions>>,
         Established' = Established, sx' \subseteq sx
  PROVE  Sessions'
<1>1. PICK n : n = [to |-> "pgwc", type |-> "delete", seid |-> NoSeid]
  OBVIOUS
<1>2. Fits(n) /\ SessionsLike
  BY <1>1 DEF Fits, SessionsLike
<1> QED  BY <1>2, SessionsLikeKeeps

\* The connection that is found by the id of a PDR is one of the context.
LEMMA FoundByPdr ==
  ASSUME IInv, NEW c \in DOMAIN pc, NEW t \in FindByPdr(c)
  PROVE  /\ t \in told /\ t \in DOMAIN pdn /\ t \in Teids
         /\ t \in DOMAIN seid2pgw_context /\ seid2pgw_context[t] = c
<1>1. t \in ConnsOf(c) /\ pdn[t].dl
  BY DEF FindByPdr
<1>2. /\ t \in DOMAIN s5s8lteid2pgw_context /\ s5s8lteid2pgw_context[t] = c
      /\ t \in DOMAIN pdn /\ t \in Teids
  BY <1>1 DEF IInv, Tables
<1>3. t \in told
  BY <1>1, <1>2 DEF IInv, Connections
<1> QED  BY <1>2, <1>3 DEF IInv, Tables, Connections

\* A notification adds a procedure that no message answers.
LEMMA HandleReportRequestInv ==
  ASSUME IInv, NEW m, HandleReportRequest(m)
  PROVE  IInv'
<1>1. PICK c : c = seid2pgw_context[m.seid]
  OBVIOUS
<1>2. /\ m \in sx /\ m.to = "pgwc" /\ m.type = "report" /\ m.seid \in DOMAIN seid2pgw_context
      /\ sx' = sx \ {m}
      /\ UNCHANGED <<imsi2pgw_context, s5s8lteid2pgw_context, seid2pgw_context, pdn,
                     alloc, teid, uid, sessions, ue_ip, up_seid, modifying, deleting,
                     requests, told, overlapped>>
      /\ \/ UNCHANGED <<pc, paged>>
         \/ \E t \in FindByPdr(c) :
              /\ pc' = [pc EXCEPT ![c].pending_procedures =
                          @ \cup {Proc("ddn", m.id, t, NoFteid)}]
              /\ paged' = paged \cup {<<m.seid, t>>}
  BY <1>1 DEF HandleReportRequest, upf
<1>3. c \in DOMAIN pc /\ m.seid \in Teids /\ m.id \in Nat
  BY <1>1, <1>2, MessageKinds DEF IInv, Tables
<1>4. SameAddresses /\ SessionsStay /\ SeidsGiven
  BY <1>2, SessionsKept, SeidsAreGiven DEF SameAddresses
<1>5. Pool' /\ Established' = Established
  BY <1>2, <1>4, PoolKept DEF IInv
<1>6. Sessions'
  BY <1>2, <1>5, SessionsFewer
<1>7. /\ SameSessions /\ StillKept
      /\ \A k \in sx : k.to = "spgwu" => k \in sx' /\ k.id # m.id
  BY <1>2 DEF SameSessions, StillKept, IInv, Ids
<1>8. \A k \in sx : IsAccepted(k) => k \in sx'
  BY <1>2 DEF IsAccepted
<1>9. CASE UNCHANGED <<pc, paged>>
  <2>1. SameContexts /\ Placed' /\ AllProcs' = AllProcs
    BY <1>2, <1>9 DEF SameContexts, IInv, Placed, AllProcs, Procs
  <2>2. Tables'
    BY <1>2, <2>1, TablesKept DEF IInv
  <2>3. Shapes' /\ Connections'
    BY <1>2, <1>9 DEF IInv, Shapes, Connections, Teids, IsMap, IsRoutes
  <2>4. Ids'
    BY <1>2, <1>4, <2>1, IdsFewer DEF IInv
  <2>5. Path'
    BY <1>2, <1>8, <2>1, PathNotified
  <2>6. Tasks' /\ Routes'
    BY <1>2, <1>7, <2>1, TasksKept
  <2> QED  BY <1>5, <1>6, <2>1, <2>2, <2>3, <2>4, <2>5, <2>6 DEF IInv
<1>10. ASSUME NEW t \in FindByPdr(c),
              pc' = [pc EXCEPT ![c].pending_procedures =
                       @ \cup {Proc("ddn", m.id, t, NoFteid)}],
              paged' = paged \cup {<<m.seid, t>>}
       PROVE  IInv'
  <2>1. PICK p : p = Proc("ddn", m.id, t, NoFteid)
    OBVIOUS
  <2>2. /\ t \in told /\ t \in DOMAIN pdn /\ t \in Teids /\ t \in Nat
        /\ t \in DOMAIN seid2pgw_context /\ seid2pgw_context[t] = c
    BY <1>3, <1>10, FoundByPdr DEF Teids
  <2>3. p \in ProcRecords /\ p.type = "ddn" /\ p.id = m.id /\ p.pdn = t
    BY <1>3, <2>1, <2>2 DEF Proc, ProcRecords, Fteids
  <2>4. /\ SameContexts /\ pc' \in [DOMAIN pc' -> ContextRecords]
        /\ Placed' /\ AllProcs' = AllProcs \cup {p}
    <3>1. pc' = [pc EXCEPT ![c].pending_procedures = @ \cup {p}]
      BY <1>10, <2>1
    <3> QED  BY <1>2, <1>3, <2>2, <2>3, <3>1, ProcedureAdded DEF IInv
  <2>5. Tables'
    BY <1>2, <2>4, TablesKept DEF IInv
  <2>6. Shapes'
    BY <1>2, <2>4 DEF IInv, Shapes, IsMap, IsRoutes
  <2>7. Connections'
    BY <1>2, <1>3, <1>10, <2>2 DEF IInv, Connections, Teids
  <2>8. Ids'
    BY <1>2, <1>4, <2>2, <2>3, <2>4, IdsNotified DEF IInv
  <2>9. Path'
    BY <1>2, <1>8, <2>3, <2>4, PathNotified
  <2>10. Tasks' /\ Routes'
    BY <1>2, <1>7, <2>3, <2>4, TasksKept
  <2> QED  BY <1>5, <1>6, <2>4, <2>5, <2>6, <2>7, <2>8, <2>9, <2>10 DEF IInv
<1> QED  BY <1>2, <1>9, <1>10

LEMMA DownlinkDataNotificationAcknowledgeInv ==
  ASSUME IInv, NEW t, DownlinkDataNotificationAcknowledge(t)
  PROVE  IInv'
<1>1. PICK c : c = ContextOf(t)
  OBVIOUS
<1>2. /\ t \in DOMAIN s5s8lteid2pgw_context
      /\ UNCHANGED <<imsi2pgw_context, s5s8lteid2pgw_context, seid2pgw_context, pdn, alloc,
                     teid, uid, sessions, ue_ip, up_seid, modifying, deleting, sx,
                     requests, told, overlapped, paged>>
      /\ \E p \in Procs(c) :
           /\ p.type = "ddn" /\ p.pdn = t
           /\ pc' = [pc EXCEPT ![c].pending_procedures = @ \ {p}]
  BY <1>1 DEF DownlinkDataNotificationAcknowledge, upf
<1>3. PICK p \in Procs(c) : p.type = "ddn" /\ pc' = [pc EXCEPT ![c].pending_procedures = @ \ {p}]
  BY <1>2
<1>4. c \in DOMAIN pc
  BY <1>1, <1>2 DEF ContextOf, IInv, Tables
<1>5. /\ SameContexts /\ pc' \in [DOMAIN pc' -> ContextRecords]
      /\ Placed' /\ AllProcs' = AllProcs \ {p}
  BY <1>2, <1>3, <1>4, ProcedureRemoved DEF IInv
<1>6. SameAddresses /\ SessionsStay /\ SeidsGiven
  BY <1>2, SessionsKept, SeidsAreGiven DEF SameAddresses
<1>7. Pool' /\ Established' = Established
  BY <1>2, <1>6, PoolKept DEF IInv
<1>8. Tables'
  BY <1>2, <1>5, TablesKept DEF IInv
<1>9. Shapes'
  BY <1>2, <1>5 DEF IInv, Shapes, IsMap, IsRoutes
<1>10. Connections'
  BY <1>2 DEF IInv, Connections, Teids
<1>11. Ids'
  BY <1>2, <1>3, <1>5, <1>6, IdsFewer DEF IInv
<1>12. Sessions'
  BY <1>2, <1>7, SessionsFewer
<1>13. Path'
  BY <1>2, <1>3, <1>5, PathNotified
<1>14. Tasks' /\ Routes'
  <2>1. SameSessions /\ StillKept
    BY <1>2 DEF SameSessions, StillKept
  <2> QED  BY <1>2, <1>5, <2>1, TasksKept
<1> QED  BY <1>5, <1>7, <1>8, <1>9, <1>10, <1>11, <1>12, <1>13, <1>14 DEF IInv

------------------------------------------------------------------------------
(* New connections *)

\* The connections of a context with a new one.
LEMMA PdnInserted ==
  ASSUME NEW ctx \in ContextRecords, NEW t \in Nat, NEW r, r = InsertPdn(ctx, t)
  PROVE  /\ r \in ContextRecords /\ r.imsi = ctx.imsi
         /\ r.pending_procedures = ctx.pending_procedures
         /\ PdnsOf(r) = PdnsOf(ctx) \cup {t}
         /\ r.apns = ctx.apns \cup {{t}}
<1>1. /\ r \in ContextRecords /\ r.imsi = ctx.imsi /\ r.apns = ctx.apns \cup {{t}}
      /\ r.pending_procedures = ctx.pending_procedures
  BY DEF InsertPdn, ContextRecords
<1>2. UNION (ctx.apns \cup {{t}}) = (UNION ctx.apns) \cup {t}
  OBVIOUS
<1> QED  BY <1>1, <1>2 DEF PdnsOf

\* The address of a new connection, and the pool then.
LEMMA PaaGiven ==
  ASSUME IInv, StaticsPastPool, NEW static \in Statics \cup {NoAddress},
         NEW paa, paa = Paa(static), NEW taken, taken = AllocPaa(static)
  PROVE  /\ paa \in Addrs /\ Covers(taken)
         /\ paa = NoAddress => taken = alloc
         /\ paa # NoAddress => paa \in DynamicAddresses \cup Statics
         /\ paa \in DynamicAddresses => paa \in FreeBits(alloc)
         /\ paa # NoAddress => FreeBits(taken) = FreeBits(alloc) \ {paa}
<1>1. Covers(alloc) /\ FreeBits(alloc) \subseteq DynamicAddresses
  BY DEF IInv, Pool, Covers, PoolAgrees
<1>2. NoAddress \notin DynamicAddresses
  BY NamesAssumption DEF NoAddress, DynamicAddresses
<1>3. CASE static # NoAddress
  <2>1. paa = static /\ static \in Statics /\ taken = alloc
    BY <1>3 DEF Paa, AllocPaa
  <2>2. static \notin DynamicAddresses
    <3>1. static \in Int /\ Num \in Int
      BY <2>1, NamesAssumption
    <3>2. static >= Num
      BY <2>1, StaticsPastPool DEF StaticsPastPool
    <3> QED  BY <3>1, <3>2 DEF DynamicAddresses
  <2> QED  BY <1>1, <1>3, <2>1, <2>2 DEF Addrs
<1>4. CASE static = NoAddress /\ FreeBits(alloc) = {}
  <2>1. paa = NoAddress /\ taken = alloc
    BY <1>4 DEF Paa, AllocPaa
  <2> QED  BY <1>1, <1>2, <2>1 DEF Addrs
<1>5. CASE static = NoAddress /\ FreeBits(alloc) # {}
  <2>1. paa = FreeBit(alloc) /\ taken = AllocBit(alloc)
    BY <1>5 DEF Paa, AllocPaa
  <2>2. paa \in FreeBits(alloc)
    BY <1>1, <1>5, <2>1, FreeBitIsFree
  <2>3. Covers(taken) /\ FreeBits(taken) = FreeBits(alloc) \ {paa}
    BY <1>1, <1>5, <2>1, AllocBitTakes
  <2> QED  BY <1>1, <1>2, <2>2, <2>3 DEF Addrs
<1> QED  BY <1>3, <1>4, <1>5

\* What a create session request does to the tables, in either case.
Created(imsi, t, c, ctx, new) ==
  /\ t = teid + 1 /\ teid' = t
  /\ IF imsi \in DOMAIN imsi2pgw_context THEN c = imsi2pgw_context[imsi] ELSE c = t
  /\ ctx \in ContextRecords /\ ctx.imsi = imsi
  /\ PdnsOf(ctx) = (IF c = t THEN {} ELSE ConnsOf(c)) \cup {t}
  /\ \A a \in ctx.apns : a # {} /\ a \subseteq 1..t
  /\ new \in PdnRecords
  /\ imsi2pgw_context' = MapAssign(imsi2pgw_context, imsi, c)
  /\ s5s8lteid2pgw_context' = MapAssign(s5s8lteid2pgw_context, t, c)
  /\ pc' = MapAssign(pc, c, ctx)
  /\ pdn' = MapAssign(pdn, t, new)
  /\ seid2pgw_context' \in {seid2pgw_context, MapAssign(seid2pgw_context, t, c)}

\* A TEID that is given is in no table.
LEMMA TeidIsNew ==
  ASSUME IInv, NEW t, t = teid + 1
  PROVE  /\ t \in Nat /\ t # NoSeid /\ t \notin Teids /\ 1..t = Teids \cup {t}
         /\ t \notin DOMAIN pc /\ t \notin DOMAIN pdn /\ t \notin told
         /\ t \notin DOMAIN seid2pgw_context /\ t \notin DOMAIN s5s8lteid2pgw_context
<1>1. teid \in Nat /\ t \in Nat /\ t # NoSeid /\ t \notin Teids /\ 1..t = Teids \cup {t}
  BY DEF IInv, Shapes, Teids, NoSeid
<1>2. /\ DOMAIN pc \subseteq Teids /\ DOMAIN seid2pgw_context \subseteq Teids
      /\ DOMAIN s5s8lteid2pgw_context \subseteq Teids
      /\ DOMAIN pdn = DOMAIN s5s8lteid2pgw_context /\ told \subseteq DOMAIN seid2pgw_context
  BY DEF IInv, Tables, Connections
<1> QED  BY <1>1, <1>2

Grown(t, c, ctx, new) ==
  /\ IsMap(imsi2pgw_context') /\ IsMap(s5s8lteid2pgw_context') /\ IsMap(seid2pgw_context')
  /\ pc' \in [DOMAIN pc' -> ContextRecords] /\ DOMAIN pc' = DOMAIN pc \cup {c}
  /\ pc'[c] = ctx /\ \A d \in DOMAIN pc : d # c => pc'[d] = pc[d]
  /\ pdn' \in [DOMAIN pdn' -> PdnRecords] /\ DOMAIN pdn' = DOMAIN pdn \cup {t}
  /\ pdn'[t] = new /\ \A u \in DOMAIN pdn : pdn'[u] = pdn[u]
  /\ c = t \/ c \in DOMAIN pc

\* The new connection is in its context and in the tables, the others stay.
LEMMA CreatedTables ==
  ASSUME IInv, NEW imsi \in IMSIs, NEW t, NEW c, NEW ctx, NEW new,
         Created(imsi, t, c, ctx, new)
  PROVE  Tables' /\ Grown(t, c, ctx, new)
<1>1. /\ t \in Nat /\ t # NoSeid /\ t \notin Teids /\ 1..t = Teids \cup {t}
      /\ t \notin DOMAIN pc /\ t \notin DOMAIN pdn /\ t \notin told
      /\ t \notin DOMAIN seid2pgw_context /\ t \notin DOMAIN s5s8lteid2pgw_context
      /\ Teids' = 1..t
  BY TeidIsNew DEF Created, Teids
<1>2. /\ imsi \in DOMAIN imsi2pgw_context => c \in DOMAIN pc /\ pc[c].imsi = imsi /\ c # t
      /\ imsi \notin DOMAIN imsi2pgw_context => c = t
  BY <1>1 DEF Created, IInv, Tables
<1>3. /\ DOMAIN pc' = DOMAIN pc \cup {c} /\ pc'[c] = ctx
      /\ \A d \in DOMAIN pc : d # c => pc'[d] = pc[d]
      /\ pc' = [d \in DOMAIN pc \cup {c} |-> pc'[d]]
  BY DEF Created, MapAssign
<1>4. pc' \in [DOMAIN pc' -> ContextRecords] /\ ctx \in ContextRecords /\ ctx.imsi = imsi
  <2>1. \A d \in DOMAIN pc : pc[d] \in ContextRecords
    BY DEF IInv, Shapes
  <2>2. ctx \in ContextRecords /\ ctx.imsi = imsi
    BY DEF Created
  <2> QED  BY <1>3, <2>1, <2>2
<1>5. /\ DOMAIN pdn' = DOMAIN pdn \cup {t} /\ pdn'[t] = new
      /\ \A u \in DOMAIN pdn : pdn'[u] = pdn[u]
      /\ pdn' = [u \in DOMAIN pdn \cup {t} |-> pdn'[u]]
  BY <1>1 DEF Created, MapAssign
<1>6. pdn' \in [DOMAIN pdn' -> PdnRecords]
  <2>1. \A u \in DOMAIN pdn : pdn[u] \in PdnRecords
    BY DEF IInv, Shapes
  <2>2. new \in PdnRecords
    BY DEF Created
  <2> QED  BY <1>5, <2>1, <2>2
<1>7. /\ IsMap(imsi2pgw_context') /\ DOMAIN imsi2pgw_context' = DOMAIN imsi2pgw_context \cup {imsi}
      /\ imsi2pgw_context'[imsi] = c
      /\ \A i \in DOMAIN imsi2pgw_context : i # imsi => imsi2pgw_context'[i] = imsi2pgw_context[i]
  BY DEF Created, MapAssign, IsMap
<1>8. /\ IsMap(s5s8lteid2pgw_context')
      /\ DOMAIN s5s8lteid2pgw_context' = DOMAIN s5s8lteid2pgw_context \cup {t}
      /\ s5s8lteid2pgw_context'[t] = c
      /\ \A u \in DOMAIN s5s8lteid2pgw_context :
           s5s8lteid2pgw_context'[u] = s5s8lteid2pgw_context[u]
  BY <1>1 DEF Created, MapAssign, IsMap
<1>9. /\ IsMap(seid2pgw_context')
      /\ \A u \in DOMAIN seid2pgw_context' :
           \/ u = t /\ seid2pgw_context'[u] = c
           \/ u \in DOMAIN seid2pgw_context /\ seid2pgw_context'[u] = seid2pgw_context[u]
  BY <1>1 DEF Created, MapAssign, IsMap, IInv, Shapes
<1>10. /\ ConnsOf(c)' = (IF c = t THEN {} ELSE ConnsOf(c)) \cup {t}
       /\ \A d \in DOMAIN pc : d # c => ConnsOf(d)' = ConnsOf(d)
  <2>1. PdnsOf(ctx) = (IF c = t THEN {} ELSE ConnsOf(c)) \cup {t}
    BY DEF Created
  <2>2. ConnsOf(c)' = PdnsOf(ctx)
    BY <1>3 DEF ConnsOf, PdnsOf
  <2>3. \A d \in DOMAIN pc : d # c => ConnsOf(d)' = ConnsOf(d)
    BY <1>3 DEF ConnsOf
  <2> QED  BY <2>1, <2>2, <2>3
<1>11. \A i \in DOMAIN imsi2pgw_context' :
         /\ i \in IMSIs /\ imsi2pgw_context'[i] \in DOMAIN pc'
         /\ pc'[imsi2pgw_context'[i]].imsi = i
  <2>1. ASSUME NEW i \in DOMAIN imsi2pgw_context, i # imsi, NEW d, d = imsi2pgw_context[i]
        PROVE  i \in IMSIs /\ d \in DOMAIN pc /\ pc'[d].imsi = i
    <3>1. i \in IMSIs /\ d \in DOMAIN pc /\ pc[d].imsi = i
      BY <2>1 DEF IInv, Tables
    <3>2. d # c
      BY <1>1, <1>2, <2>1, <3>1
    <3> QED  BY <1>3, <3>1, <3>2
  <2> QED  BY <1>3, <1>4, <1>7, <2>1
<1>12. \A u \in DOMAIN s5s8lteid2pgw_context' :
         /\ s5s8lteid2pgw_context'[u] \in DOMAIN pc'
         /\ u \in ConnsOf(s5s8lteid2pgw_context[u])'
  <2>1. ASSUME NEW u \in DOMAIN s5s8lteid2pgw_context', NEW d, d = s5s8lteid2pgw_context'[u]
        PROVE  d \in DOMAIN pc' /\ u \in ConnsOf(d)'
    <3>1. CASE u = t
      BY <1>3, <1>8, <1>10, <2>1, <3>1
    <3>2. CASE u # t
      <4>1. d = s5s8lteid2pgw_context[u] /\ u \in DOMAIN s5s8lteid2pgw_context
        BY <1>8, <2>1, <3>2
      <4>2. d \in DOMAIN pc /\ u \in ConnsOf(d)
        BY <4>1 DEF IInv, Tables
      <4> QED  BY <1>1, <1>3, <1>10, <4>2
    <3> QED  BY <3>1, <3>2
  <2> QED  BY <2>1 DEF ConnsOf
<1>13. \A d \in DOMAIN pc' : \A u \in ConnsOf(d)' :
         u \in DOMAIN s5s8lteid2pgw_context' /\ s5s8lteid2pgw_context'[u] = d
  <2>1. ASSUME NEW d \in DOMAIN pc, NEW u \in ConnsOf(d)
        PROVE  u \in DOMAIN s5s8lteid2pgw_context /\ s5s8lteid2pgw_context'[u] = d
    BY <1>8 DEF IInv, Tables
  <2>2. ASSUME NEW u \in ConnsOf(c)'
        PROVE  u \in DOMAIN s5s8lteid2pgw_context' /\ s5s8lteid2pgw_context'[u] = c
    <3>1. u = t \/ (c \in DOMAIN pc /\ u \in ConnsOf(c))
      BY <1>2, <1>10
    <3> QED  BY <1>8, <2>1, <3>1
  <2> QED  BY <1>3, <1>8, <1>10, <2>1, <2>2
<1>14. \A d \in DOMAIN pc' : ConnsOf(d)' # {} =>
         pc'[d].imsi \in DOMAIN imsi2pgw_context' /\ imsi2pgw_context'[pc'[d].imsi] = d
  <2>1. ASSUME NEW d \in DOMAIN pc, d # c, ConnsOf(d) # {}
        PROVE  /\ pc[d].imsi \in DOMAIN imsi2pgw_context /\ imsi2pgw_context[pc[d].imsi] = d
               /\ pc[d].imsi # imsi
    <3>1. pc[d].imsi \in DOMAIN imsi2pgw_context /\ imsi2pgw_context[pc[d].imsi] = d
      BY <2>1 DEF IInv, Tables
    <3> QED  BY <2>1, <3>1 DEF Created
  <2> QED  BY <1>3, <1>4, <1>7, <1>10, <2>1
<1>15. \A u \in DOMAIN seid2pgw_context' :
         /\ seid2pgw_context'[u] \in DOMAIN pc'
         /\ u \in DOMAIN s5s8lteid2pgw_context' =>
              s5s8lteid2pgw_context'[u] = seid2pgw_context'[u]
  <2>1. \A u \in DOMAIN seid2pgw_context :
          /\ seid2pgw_context[u] \in DOMAIN pc /\ u # t
          /\ u \in DOMAIN s5s8lteid2pgw_context =>
               s5s8lteid2pgw_context[u] = seid2pgw_context[u]
    BY <1>1 DEF IInv, Tables
  <2> QED  BY <1>3, <1>8, <1>9, <2>1
<1>16. \A d \in DOMAIN pc' : \A a \in pc'[d].apns : a # {} /\ a \subseteq Teids'
  <2>1. \A d \in DOMAIN pc : \A a \in pc[d].apns : a # {} /\ a \subseteq Teids
    BY DEF IInv, Tables
  <2>2. \A a \in ctx.apns : a # {} /\ a \subseteq 1..t
    BY DEF Created
  <2> QED  BY <1>1, <1>3, <2>1, <2>2
<1>17. /\ DOMAIN pc' \subseteq Teids' /\ DOMAIN seid2pgw_context' \subseteq Teids'
       /\ DOMAIN s5s8lteid2pgw_context' \subseteq Teids'
       /\ DOMAIN pdn' = DOMAIN s5s8lteid2pgw_context'
  <2>1. /\ DOMAIN pc \subseteq Teids /\ DOMAIN seid2pgw_context \subseteq Teids
        /\ DOMAIN s5s8lteid2pgw_context \subseteq Teids
        /\ DOMAIN pdn = DOMAIN s5s8lteid2pgw_context
    BY DEF IInv, Tables
  <2> QED  BY <1>1, <1>2, <1>3, <1>5, <1>8, <1>9, <2>1
<1>18. Tables'
  BY <1>11, <1>12, <1>13, <1>14, <1>15, <1>16, <1>17 DEF Tables
<1> QED  BY <1>2, <1>3, <1>4, <1>5, <1>6, <1>7, <1>8, <1>9, <1>18 DEF Grown

\* What else it does, when it asks for the session ("ok") and when it is refused.
Opened(t, c, ctx, new, ok, p, m) ==
  /\ p = Proc("establishment", uid + 1, t, NoFteid) /\ m = EstablishmentRequest(uid + 1, t)
  /\ new.up_fseid = NoSeid /\ ~new.dl /\ new.sgw_fteid = NoFteid
  /\ requests < MaxRequests /\ requests' = requests + 1
  /\ UNCHANGED <<sessions, ue_ip, up_seid, modifying, deleting, told, overlapped, paged>>
  /\ ok  => /\ seid2pgw_context' = MapAssign(seid2pgw_context, t, c) /\ new.seid = t
            /\ ctx.pending_procedures = (IF c = t THEN {} ELSE Procs(c)) \cup {p}
            /\ uid' = uid + 1 /\ sx' = sx \cup {m}
  /\ ~ok => /\ UNCHANGED <<seid2pgw_context, sx>> /\ new.seid = NoSeid
            /\ ctx.pending_procedures = IF c = t THEN {} ELSE Procs(c)
            /\ uid' \in {uid, uid + 1}

Opening(t, ok, p, m) ==
  /\ p \in ProcRecords /\ p.type = "establishment" /\ p.id = uid + 1 /\ p.pdn = t
  /\ m \in EstReqs /\ m.to = "spgwu" /\ m.type = "establishment" /\ m.id = uid + 1
  /\ m.cp = t
  /\ ok  => /\ AllProcs' = AllProcs \cup {p}
            /\ DOMAIN seid2pgw_context' = DOMAIN seid2pgw_context \cup {t}
  /\ ~ok => AllProcs' = AllProcs
  /\ Established' = IF ok THEN Established \cup {t} ELSE Established

\* A connection that is opened has one procedure, establishment.
LEMMA OpenedProcedures ==
  ASSUME IInv, NEW imsi \in IMSIs, NEW t, NEW c, NEW ctx, NEW new, NEW ok \in BOOLEAN,
         NEW p, NEW m, Created(imsi, t, c, ctx, new), Opened(t, c, ctx, new, ok, p, m)
  PROVE  Opening(t, ok, p, m) /\ Placed'
<1>1. /\ t \in Nat /\ t # NoSeid /\ t \notin DOMAIN pc /\ t \notin DOMAIN pdn
      /\ t \notin DOMAIN seid2pgw_context /\ uid \in Nat /\ uid + 1 \in Nat
  BY TeidIsNew DEF Created, IInv, Shapes
<1>2. p \in ProcRecords /\ p.type = "establishment" /\ p.id = uid + 1 /\ p.pdn = t
  <2>1. p = Proc("establishment", uid + 1, t, NoFteid)
    BY DEF Opened
  <2> QED  BY <1>1, <2>1 DEF Proc, ProcRecords, Fteids
<1>3. /\ m \in EstReqs /\ m.to = "spgwu" /\ m.type = "establishment" /\ m.id = uid + 1
      /\ m.cp = t
  <2>1. m = EstablishmentRequest(uid + 1, t)
    BY DEF Opened
  <2> QED  BY <1>1, <2>1 DEF EstablishmentRequest, EstReqs
<1>4. /\ DOMAIN pc' = DOMAIN pc \cup {c}
      /\ pc'[c] = ctx /\ \A d \in DOMAIN pc : d # c => pc'[d] = pc[d]
      /\ DOMAIN pdn' = DOMAIN pdn \cup {t}
      /\ pdn'[t] = new /\ \A u \in DOMAIN pdn : pdn'[u] = pdn[u]
      /\ c = t \/ c \in DOMAIN pc
  <2>1. Grown(t, c, ctx, new)
    BY CreatedTables
  <2> QED  BY <2>1 DEF Grown
<1>5. PICK P : P = IF ok THEN {p} ELSE {}
  OBVIOUS
<1>6. ctx.pending_procedures = (IF c = t THEN {} ELSE Procs(c)) \cup P
  BY <1>5 DEF Opened
<1>7. /\ Procs(c)' = (IF c = t THEN {} ELSE Procs(c)) \cup P
      /\ \A d \in DOMAIN pc : d # c => Procs(d)' = Procs(d)
  BY <1>4, <1>6 DEF Procs
<1>8. AllProcs' = AllProcs \cup P
  BY <1>1, <1>4, <1>7 DEF AllProcs
<1>9. /\ \A u \in DOMAIN seid2pgw_context :
           u \in DOMAIN seid2pgw_context' /\ seid2pgw_context'[u] = seid2pgw_context[u]
      /\ ok => /\ DOMAIN seid2pgw_context' = DOMAIN seid2pgw_context \cup {t}
               /\ seid2pgw_context'[t] = c
  BY <1>1 DEF Opened, MapAssign
<1>10. Placed'
  <2>1. \A q \in P : q.pdn \in DOMAIN seid2pgw_context' /\ seid2pgw_context'[q.pdn] = c
    BY <1>2, <1>5, <1>9
  <2>2. \A d \in DOMAIN pc : \A q \in Procs(d) :
          q.pdn \in DOMAIN seid2pgw_context' /\ seid2pgw_context'[q.pdn] = d
    BY <1>9 DEF IInv, Placed
  <2> QED  BY <1>4, <1>7, <2>1, <2>2 DEF Placed
<1>11. Established' = IF ok THEN Established \cup {t} ELSE Established
  <2>1. new.seid = IF ok THEN t ELSE NoSeid
    BY DEF Opened
  <2> QED  BY <1>1, <1>4, <2>1 DEF Established
<1> QED  BY <1>2, <1>3, <1>5, <1>8, <1>9, <1>10, <1>11 DEF Opening

LEMMA OpenedIds ==
  ASSUME IInv, NEW imsi \in IMSIs, NEW t, NEW c, NEW ctx, NEW new, NEW ok \in BOOLEAN,
         NEW p, NEW m, Created(imsi, t, c, ctx, new), Opened(t, c, ctx, new, ok, p, m)
  PROVE  Ids'
<1>1. /\ p.type = "establishment" /\ p.id = uid + 1 /\ p.pdn = t
      /\ m.to = "spgwu" /\ m.type = "establishment" /\ m.id = uid + 1 /\ m.cp = t
      /\ ok  => AllProcs' = AllProcs \cup {p}
      /\ ~ok => AllProcs' = AllProcs
  <2>1. Opening(t, ok, p, m)
    BY OpenedProcedures
  <2> QED  BY <2>1 DEF Opening
<1>2. SessionsStay /\ SeidsGiven /\ UNCHANGED told
  BY SessionsKept, SeidsAreGiven DEF Opened
<1>3. CASE ok
  <2>1. uid' = uid + 1 /\ sx' = sx \cup {m}
    BY <1>3 DEF Opened
  <2>2. ProcedureOf(m, p)'
    BY <1>1 DEF ProcedureOf, NamesConnection, About
  <2> QED  BY <1>1, <1>2, <1>3, <2>1, <2>2, IdsRequest DEF IInv
<1>4. CASE ~ok
  <2>1. uid' \in {uid, uid + 1} /\ sx' = sx /\ uid \in Nat
    BY <1>4 DEF Opened, IInv, Shapes
  <2>2. Uids \subseteq Uids'
    BY <2>1 DEF Uids
  <2>3. \A k \in sx : k.type # "report" => \E q \in AllProcs : q.id = k.id /\ ProcedureOf(k, q)'
    BY <1>2, ProcedureStays DEF IInv, Ids
  <2> QED  BY <1>1, <1>2, <1>4, <2>1, <2>2, <2>3 DEF IInv, Ids
<1> QED  BY <1>3, <1>4

\* No session and no message is about a connection that is new.
LEMMA OpenedSessions ==
  ASSUME IInv, NEW imsi \in IMSIs, NEW t, NEW c, NEW ctx, NEW new, NEW ok \in BOOLEAN,
         NEW p, NEW m, Created(imsi, t, c, ctx, new), Opened(t, c, ctx, new, ok, p, m)
  PROVE  Sessions' /\ Connections'
<1>1. /\ t \in Nat /\ t # NoSeid /\ t \notin Teids /\ 1..t = Teids \cup {t}
      /\ t \notin DOMAIN pdn /\ t \notin told /\ t \notin DOMAIN seid2pgw_context
      /\ Teids' = 1..t
  BY TeidIsNew DEF Created, Teids
<1>2. /\ DOMAIN pdn' = DOMAIN pdn \cup {t}
      /\ pdn'[t] = new /\ \A u \in DOMAIN pdn : pdn'[u] = pdn[u]
  <2>1. Grown(t, c, ctx, new)
    BY CreatedTables
  <2> QED  BY <2>1 DEF Grown
<1>3. /\ m.to = "spgwu" /\ m.type = "establishment" /\ m.cp = t
      /\ ok => DOMAIN seid2pgw_context' = DOMAIN seid2pgw_context \cup {t}
      /\ Established \subseteq Established'
  <2>1. Opening(t, ok, p, m)
    BY OpenedProcedures
  <2> QED  BY <2>1 DEF Opening
<1>4. /\ UNCHANGED <<sessions, up_seid, told, overlapped, paged>>
      /\ ok => sx' = sx \cup {m}
      /\ ~ok => UNCHANGED <<sx, seid2pgw_context>>
      /\ new.seid = (IF ok THEN t ELSE NoSeid) /\ new.up_fseid = NoSeid /\ ~new.dl
  BY DEF Opened
<1>5. Connections'
  <2>1. \A u \in DOMAIN pdn :
          u # t /\ (u \in DOMAIN seid2pgw_context' <=> u \in DOMAIN seid2pgw_context)
    BY <1>1, <1>3, <1>4
  <2>2. /\ told \subseteq DOMAIN seid2pgw_context' /\ paged \subseteq Teids' \X Teids'
        /\ overlapped \subseteq told
    BY <1>1, <1>3, <1>4 DEF IInv, Connections
  <2>3. /\ t \in DOMAIN seid2pgw_context' => new.seid = t
        /\ t \notin DOMAIN seid2pgw_context' => new.seid = NoSeid
    BY <1>1, <1>3, <1>4
  <2>4. \A u \in DOMAIN pdn :
          /\ u \in DOMAIN seid2pgw_context' => pdn[u].seid = u
          /\ u \notin DOMAIN seid2pgw_context' => pdn[u].seid = NoSeid
          /\ u \in told => pdn[u].up_fseid \in 1..up_seid
          /\ u \notin told => pdn[u].up_fseid = NoSeid /\ ~pdn[u].dl
    BY <2>1 DEF IInv, Connections
  <2> QED  BY <1>1, <1>2, <1>4, <2>2, <2>3, <2>4 DEF Connections
<1>6. Sessions'
  <2>1. \A s \in DOMAIN sessions :
          /\ sessions[s].cp \in Established /\ sessions[s].cp \in DOMAIN pdn
          /\ sessions[s].cp # t
          /\ sessions[s].addr \in {NoAddress, pdn'[sessions[s].cp].addr}
    BY <1>1, <1>2 DEF IInv, Sessions, Established
  <2>2. /\ \A u \in told \cap DOMAIN pdn' :
             pdn'[u].up_fseid \in DOMAIN sessions => sessions[pdn'[u].up_fseid].cp = u
        /\ \A s \in DOMAIN sessions :
             sessions[s].cp \in told => pdn'[sessions[s].cp].up_fseid = s
    BY <1>1, <1>2, <2>1 DEF IInv, Sessions
  <2>3. \A k \in sx' : k \in sx \/ (ok /\ k = m)
    BY <1>4
  <2>4. \A k \in sx : k.type = "establishment" /\ k.to = "spgwu" =>
          k.cp \in DOMAIN pdn /\ k.cp # t
    BY <1>1 DEF IInv, Sessions
  <2>5. \A k \in sx : k.type = "establishment" /\ k.to = "pgwc" =>
          k.seid \in DOMAIN pdn /\ k.seid # t
    BY <1>1 DEF IInv, Sessions
  <2>6. \A u \in DOMAIN seid2pgw_context : u \in DOMAIN seid2pgw_context'
    BY <1>3, <1>4
  <2>7. \A k \in sx' : k.type = "establishment" /\ k.to = "spgwu" =>
          /\ k.cp \in DOMAIN pdn' /\ k.cp \in DOMAIN seid2pgw_context' /\ k.cp \notin told
          /\ \A r \in DOMAIN sessions : sessions[r].cp # k.cp
          /\ \A j \in sx' : j.type = "establishment" /\ j.to = "pgwc" => j.seid # k.cp
          /\ \A j \in sx' : j.type = "establishment" /\ j.to = "spgwu" /\ j.cp = k.cp => j = k
    <3>1. ASSUME NEW k \in sx, k.type = "establishment", k.to = "spgwu"
          PROVE  /\ k.cp \in DOMAIN pdn /\ k.cp \in DOMAIN seid2pgw_context /\ k.cp \notin told
                 /\ \A r \in DOMAIN sessions : sessions[r].cp # k.cp
                 /\ \A j \in sx : j.type = "establishment" /\ j.to = "pgwc" => j.seid # k.cp
                 /\ \A j \in sx : j.type = "establishment" /\ j.to = "spgwu" /\ j.cp = k.cp => j = k
      BY <3>1 DEF IInv, Sessions
    <3> QED  BY <1>1, <1>2, <1>3, <2>1, <2>3, <2>4, <2>5, <2>6, <3>1
  <2>8. \A k \in sx' : k.type = "establishment" /\ k.to = "pgwc" =>
          /\ k.seid \in DOMAIN pdn' /\ k.seid \in DOMAIN seid2pgw_context' /\ k.seid \notin told
          /\ k.up \in 1..up_seid
          /\ k.up \in DOMAIN sessions => sessions[k.up].cp = k.seid
          /\ \A s \in DOMAIN sessions : sessions[s].cp = k.seid => s = k.up
          /\ \A j \in sx' : j.type = "establishment" /\ j.to = "pgwc" /\ j.seid = k.seid => j = k
    <3>1. ASSUME NEW k \in sx, k.type = "establishment", k.to = "pgwc"
          PROVE  /\ k.seid \in DOMAIN pdn /\ k.seid \in DOMAIN seid2pgw_context
                 /\ k.seid \notin told
                 /\ k.up \in 1..up_seid
                 /\ k.up \in DOMAIN sessions => sessions[k.up].cp = k.seid
                 /\ \A s \in DOMAIN sessions : sessions[s].cp = k.seid => s = k.up
                 /\ \A j \in sx : j.type = "establishment" /\ j.to = "pgwc" /\ j.seid = k.seid => j = k
      BY <3>1 DEF IInv, Sessions
    <3> QED  BY <1>2, <1>3, <2>3, <2>6, <3>1
  <2>9. /\ \A k \in sx' : k.type \in {"modify", "delete"} /\ k.to = "spgwu" => k.seid \in 1..up_seid
        /\ \A k \in sx' : k.type = "modify" /\ k.to = "spgwu" =>
             /\ k.rules = "update" => k.ul # "none"
             /\ k.rules = "create" /\ k.seid \in DOMAIN sessions =>
                  k.addr = pdn'[sessions[k.seid].cp].addr
    BY <1>2, <1>3, <2>1, <2>3 DEF IInv, Sessions
  <2>10. \A k \in sx' : k.type = "delete" /\ k.to = "pgwc" /\ k.seid # NoSeid =>
           /\ k.seid \in told \cap DOMAIN pdn'
           /\ \A s \in DOMAIN sessions : sessions[s].cp # k.seid
           /\ \A n \in sx' : n.type = "delete" /\ n.to = "pgwc" /\ n.seid = k.seid => n = k
    BY <1>2, <1>3, <2>3 DEF IInv, Sessions
  <2>11. /\ \A k \in sx' : k.type \in {"modify", "report"} /\ k.to = "pgwc" =>
              k.seid \in Teids' \cup {NoSeid}
         /\ \A k \in sx' : k.type = "report" => k.seid # NoSeid
    BY <1>1, <1>3, <2>3 DEF IInv, Sessions
  <2>12. /\ DOMAIN sessions \subseteq 1..up_seid
         /\ \A s \in DOMAIN sessions :
              /\ sessions[s].cp \in Established'
              /\ sessions[s].addr \in {NoAddress, pdn'[sessions[s].cp].addr}
         /\ \A s, r \in DOMAIN sessions : sessions[s].cp = sessions[r].cp => s = r
    BY <1>3, <2>1 DEF IInv, Sessions
  <2> QED  BY <1>4, <2>2, <2>7, <2>8, <2>9, <2>10, <2>11, <2>12 DEF Sessions
<1> QED  BY <1>5, <1>6

LEMMA OpenedPath ==
  ASSUME IInv, NEW imsi \in IMSIs, NEW t, NEW c, NEW ctx, NEW new, NEW ok \in BOOLEAN,
         NEW p, NEW m, Created(imsi, t, c, ctx, new), Opened(t, c, ctx, new, ok, p, m)
  PROVE  Path'
<1>1. /\ t \notin DOMAIN pdn /\ t \notin told /\ t \notin DOMAIN seid2pgw_context
  BY TeidIsNew DEF Created
<1>2. /\ DOMAIN pdn' = DOMAIN pdn \cup {t}
      /\ pdn'[t] = new /\ \A u \in DOMAIN pdn : pdn'[u] = pdn[u]
  <2>1. Grown(t, c, ctx, new)
    BY CreatedTables
  <2> QED  BY <2>1 DEF Grown
<1>3. /\ p.type = "establishment" /\ p.id = uid + 1 /\ p.pdn = t
      /\ m.to = "spgwu" /\ m.type = "establishment" /\ m.id = uid + 1
      /\ AllProcs \subseteq AllProcs' /\ AllProcs' \subseteq AllProcs \cup {p}
  <2>1. Opening(t, ok, p, m)
    BY OpenedProcedures
  <2> QED  BY <2>1 DEF Opening
<1>4. /\ UNCHANGED <<sessions, deleting, told, overlapped>> /\ new.sgw_fteid = NoFteid
      /\ sx \subseteq sx' /\ sx' \subseteq sx \cup {m}
  BY DEF Opened
<1>5. \A q \in AllProcs : q.pdn # t /\ q.id # uid + 1
  BY <1>1 DEF IInv, Placed, AllProcs, Ids, Uids, Shapes
<1>6. ASSUME NEW u \in (told \cap DOMAIN pdn') \ overlapped,
             pdn'[u].up_fseid \in DOMAIN sessions \ {deleting}
      PROVE  /\ \A q \in Pending(u)' : \A k \in sx' :
                  q.type = "modify" /\ Accepted(k, q) =>
                    sessions[pdn'[u].up_fseid].dl = q.fteid
             /\ \/ Stored(u)'
                \/ \E q \in Pending(u)' : \E k \in sx' : q.type = "modify" /\ Accepted(k, q)
  <2>1. u # t /\ u \in DOMAIN pdn /\ pdn'[u] = pdn[u]
    BY <1>1, <1>2
  <2>2. Pending(u)' = Pending(u)
    BY <1>3, <2>1 DEF Pending
  <2>3. /\ \A q \in Pending(u) : \A k \in sx :
             q.type = "modify" /\ Accepted(k, q) => sessions[pdn[u].up_fseid].dl = q.fteid
        /\ \/ Stored(u)
           \/ \E q \in Pending(u) : \E k \in sx : q.type = "modify" /\ Accepted(k, q)
    BY <1>6, <2>1 DEF IInv, Path
  <2>4. \A k, q : Accepted(k, q) => k # m
    BY <1>3 DEF Accepted
  <2>5. Stored(u) => Stored(u)'
    BY <1>4, <2>1 DEF Stored
  <2> QED  BY <1>4, <2>1, <2>2, <2>3, <2>4, <2>5
<1>7. \A q, r \in AllProcs' :
        q.pdn = r.pdn /\ q.pdn \notin overlapped /\ q.type # "ddn" /\ r.type # "ddn" => q = r
  <2>1. \A q, r \in AllProcs :
          q.pdn = r.pdn /\ q.pdn \notin overlapped /\ q.type # "ddn" /\ r.type # "ddn" => q = r
    BY DEF IInv, Path
  <2> QED  BY <1>3, <1>5, <2>1
<1>8. \A q \in AllProcs' : q.pdn \notin overlapped /\ q.pdn \in DOMAIN pdn' =>
        /\ q.type = "release" => pdn'[q.pdn].released
        /\ q.type = "modify"  => q.fteid # NoFteid
  BY <1>2, <1>3, <1>5 DEF IInv, Path
<1>9. \A q \in AllProcs' : \A k \in sx' :
        q.type = "modify" /\ k.id = q.id /\ k.to = "spgwu" => k.dl = q.fteid
  BY <1>3, <1>4, <1>5 DEF IInv, Path
<1>10. /\ \A u \in DOMAIN pdn' : u \notin told => pdn'[u].sgw_fteid = NoFteid
       /\ \A k \in sx' : k.type = "modify" /\ k.to = "pgwc" => (k.created => k.accepted)
  BY <1>2, <1>3, <1>4 DEF IInv, Path
<1> QED  BY <1>4, <1>6, <1>7, <1>8, <1>9, <1>10 DEF Path

\* The context of a new connection, before it gets it.
Old(imsi, t, c, old) ==
  /\ t = teid + 1
  /\ imsi \in DOMAIN imsi2pgw_context => c = imsi2pgw_context[imsi] /\ old = pc[c]
  /\ imsi \notin DOMAIN imsi2pgw_context => c = t /\ old = Context(imsi)

\* The context a connection comes into, whether it is new or not.
LEMMA OldContext ==
  ASSUME IInv, NEW imsi \in IMSIs, NEW t, NEW c, NEW old, Old(imsi, t, c, old)
  PROVE  /\ old \in ContextRecords /\ old.imsi = imsi
         /\ old.pending_procedures = IF c = t THEN {} ELSE Procs(c)
         /\ PdnsOf(old) = IF c = t THEN {} ELSE ConnsOf(c)
         /\ \A a \in old.apns : a # {} /\ a \subseteq 1..t
<1>1. 1..t = Teids \cup {t} /\ t \notin DOMAIN pc
  BY TeidIsNew DEF Old
<1>2. CASE imsi \in DOMAIN imsi2pgw_context
  <2>1. c = imsi2pgw_context[imsi] /\ old = pc[c]
    BY <1>2 DEF Old
  <2>2. c \in DOMAIN pc /\ pc[c].imsi = imsi
    BY <1>2, <2>1 DEF IInv, Tables
  <2>3. pc[c] \in ContextRecords /\ c # t
    BY <1>1, <2>2, ContextTyped DEF IInv
  <2>4. \A a \in pc[c].apns : a # {} /\ a \subseteq Teids
    BY <2>2 DEF IInv, Tables
  <2>5. PdnsOf(old) = ConnsOf(c) /\ old.pending_procedures = Procs(c)
    BY <2>1 DEF PdnsOf, ConnsOf, Procs
  <2> QED  BY <1>1, <2>1, <2>2, <2>3, <2>4, <2>5
<1>3. CASE imsi \notin DOMAIN imsi2pgw_context
  <2>1. c = t /\ old = [imsi |-> imsi, apns |-> {}, pending_procedures |-> {}]
    BY <1>3 DEF Old, Context
  <2>2. old \in ContextRecords /\ old.imsi = imsi /\ old.apns = {} /\ old.pending_procedures = {}
    BY <2>1 DEF ContextRecords
  <2>3. PdnsOf(old) = {}
    BY <2>2 DEF PdnsOf
  <2> QED  BY <2>1, <2>2, <2>3
<1> QED  BY <1>2, <1>3

\* A connection that is opened has the address given to it.
LEMMA PoolOpened ==
  ASSUME IInv, StaticsPastPool, NEW static \in Statics \cup {NoAddress},
         NEW t, t \notin DOMAIN pdn,
         Paa(static) # NoAddress, alloc' = AllocPaa(static),
         DOMAIN pdn' = DOMAIN pdn \cup {t}, \A u \in DOMAIN pdn : pdn'[u] = pdn[u],
         pdn'[t].addr = Paa(static), Established' = Established \cup {t}
  PROVE  Pool'
<1>1. PICK paa, taken : paa = Paa(static) /\ taken = AllocPaa(static)
  OBVIOUS
<1>2. /\ Covers(taken) /\ paa # NoAddress
      /\ paa \in DynamicAddresses => paa \in FreeBits(alloc)
      /\ FreeBits(taken) = FreeBits(alloc) \ {paa}
  BY <1>1, PaaGiven, StaticsPastPool
<1>3. FreeBits(alloc) = DynamicAddresses \ {pdn[u].addr : u \in Established}
  BY DEF IInv, Pool, PoolAgrees
<1>4. \A u \in Established : u # t /\ pdn'[u].addr = pdn[u].addr
  BY DEF Established
<1>5. {pdn'[u].addr : u \in Established'} = {pdn[u].addr : u \in Established} \cup {paa}
  BY <1>1, <1>4
<1>6. FreeBits(alloc') = DynamicAddresses \ {pdn'[u].addr : u \in Established'}
  BY <1>1, <1>2, <1>3, <1>5
<1>7. PoolAgrees'
  BY <1>6 DEF PoolAgrees, DynamicAddresses
<1>8. \A u \in Established' : pdn'[u].addr # NoAddress
  BY <1>1, <1>2, <1>4 DEF IInv, Pool
<1>9. \A u \in Established : pdn[u].addr = paa /\ paa \in DynamicAddresses => FALSE
  BY <1>2, <1>3
<1>10. \A u, v \in Established' :
         pdn'[u].addr = pdn'[v].addr /\ pdn'[u].addr \in DynamicAddresses => u = v
  BY <1>1, <1>4, <1>9 DEF IInv, Pool
<1> QED  BY <1>1, <1>2, <1>7, <1>8, <1>10 DEF Pool, Covers

\* One that is refused leaves the pool as it was.
LEMMA PoolRefused ==
  ASSUME IInv, StaticsPastPool, NEW static \in Statics \cup {NoAddress},
         NEW t, t \notin DOMAIN pdn,
         alloc' = IF Paa(static) = NoAddress THEN alloc
                  ELSE FreeAddress(AllocPaa(static), Num, Paa(static)),
         DOMAIN pdn' = DOMAIN pdn \cup {t}, \A u \in DOMAIN pdn : pdn'[u] = pdn[u],
         Established' = Established
  PROVE  Pool'
<1>1. PICK paa, taken : paa = Paa(static) /\ taken = AllocPaa(static)
  OBVIOUS
<1>2. /\ Covers(taken)
      /\ paa # NoAddress => paa \in DynamicAddresses \cup Statics
      /\ paa \in DynamicAddresses => paa \in FreeBits(alloc)
      /\ paa # NoAddress => FreeBits(taken) = FreeBits(alloc) \ {paa}
  BY <1>1, PaaGiven, StaticsPastPool
<1>3. Covers(alloc) /\ FreeBits(alloc) \subseteq DynamicAddresses
  BY DEF IInv, Pool, Covers, PoolAgrees
<1>4. Covers(alloc') /\ FreeBits(alloc') = FreeBits(alloc)
  <2>1. CASE paa = NoAddress
    BY <1>1, <1>3, <2>1
  <2>2. CASE paa # NoAddress
    <3>1. alloc' = FreeAddress(taken, Num, paa)
      BY <1>1, <2>2
    <3>2. /\ Covers(FreeAddress(taken, Num, paa))
          /\ FreeBits(FreeAddress(taken, Num, paa)) = FreeBits(taken) \cup ({paa} \cap DynamicAddresses)
      BY <1>2, <2>2, FreeAddressFrees, StaticsPastPool
    <3>3. FreeBits(taken) \cup ({paa} \cap DynamicAddresses) = FreeBits(alloc)
      BY <1>2, <1>3, <2>2
    <3> QED  BY <3>1, <3>2, <3>3
  <2> QED  BY <2>1, <2>2
<1>5. {pdn'[u].addr : u \in Established} = {pdn[u].addr : u \in Established}
  BY DEF Established
<1>6. PoolAgrees'
  BY <1>4, <1>5 DEF IInv, Pool, PoolAgrees, DynamicAddresses
<1>7. \A u \in Established : pdn'[u].addr = pdn[u].addr
  BY DEF Established
<1> QED  BY <1>4, <1>6, <1>7 DEF IInv, Pool, Covers

\* Whatever else it does, the request keeps the invariant.
LEMMA OpenedInv ==
  ASSUME IInv, NEW imsi \in IMSIs, NEW t, NEW c, NEW ctx, NEW new, NEW ok \in BOOLEAN,
         NEW p, NEW m, Created(imsi, t, c, ctx, new), Opened(t, c, ctx, new, ok, p, m), Pool'
  PROVE  IInv'
<1>1. Tables' /\ Grown(t, c, ctx, new)
  BY CreatedTables
<1>2. Opening(t, ok, p, m) /\ Placed'
  BY OpenedProcedures
<1>3. Ids' /\ Sessions' /\ Connections' /\ Path'
  BY OpenedIds, OpenedSessions, OpenedPath
<1>4. Tasks' /\ Routes'
  <2>1. /\ UNCHANGED <<sessions, ue_ip, up_seid, modifying, deleting, told>>
        /\ sx \subseteq sx' /\ sx' \subseteq sx \cup {m}
    BY DEF Opened
  <2>2. m.to = "spgwu" /\ p.id = uid + 1 /\ AllProcs' \subseteq AllProcs \cup {p}
    BY <1>2 DEF Opening
  <2>3. \A k \in sx : k.id # uid + 1
    BY DEF IInv, Ids, Uids, Shapes
  <2>4. \A u \in DOMAIN pdn : u \in DOMAIN pdn' /\ pdn'[u] = pdn[u]
    BY <1>1 DEF Grown
  <2>5. SameSessions /\ StillKept
    BY <2>1, <2>2, <2>4 DEF SameSessions, StillKept
  <2> QED  BY <2>1, <2>2, <2>3, <2>5, TasksKept
<1>5. Shapes'
  <2>1. /\ requests < MaxRequests /\ requests' = requests + 1
        /\ teid <= requests /\ teid' = teid + 1
        /\ uid' \in {uid, uid + 1} /\ UNCHANGED up_seid
        /\ teid \in Nat /\ uid \in Nat /\ requests \in Nat /\ up_seid \in Nat
    BY DEF Opened, Created, IInv, Shapes
  <2>2. /\ teid' \in Nat /\ uid' \in Nat /\ up_seid' \in Nat /\ requests' \in Nat
        /\ teid' <= requests' /\ requests' <= MaxRequests
    BY <2>1, NamesAssumption
  <2>3. m \in MsgRecords /\ sx' \subseteq sx \cup {m} /\ sx \subseteq MsgRecords
    BY <1>2 DEF Opening, Opened, MsgRecords, IInv, Shapes
  <2>4. UNCHANGED <<sessions, ue_ip, up_seid, modifying, deleting>>
    BY DEF Opened
  <2>5. /\ IsRoutes(ue_ip') /\ sessions' \in [DOMAIN sessions' -> SessionRecords]
        /\ modifying' \subseteq [req : ModReqs, cp : Nat] /\ deleting' \in 0..up_seid'
    BY <2>4 DEF IInv, Shapes, IsRoutes, IsMap
  <2>6. /\ IsMap(imsi2pgw_context') /\ IsMap(s5s8lteid2pgw_context') /\ IsMap(seid2pgw_context')
        /\ pc' \in [DOMAIN pc' -> ContextRecords] /\ pdn' \in [DOMAIN pdn' -> PdnRecords]
    BY <1>1 DEF Grown
  <2> QED  BY <2>2, <2>3, <2>5, <2>6 DEF Shapes, IsMap, IsRoutes
<1> QED  BY <1>1, <1>2, <1>3, <1>4, <1>5 DEF IInv

\* Both branches of the create handler make such a connection.
LEMMA CreateSessionRequestInv ==
  ASSUME IInv, StaticsPastPool, NEW imsi \in IMSIs,
         NEW static \in Statics \cup {NoAddress}, NEW up_node \in BOOLEAN,
         CreateSessionRequest(imsi, static, up_node)
  PROVE  IInv'
<1>1. PICK t, c : /\ t = teid + 1
                  /\ c = IF imsi \in DOMAIN imsi2pgw_context THEN imsi2pgw_context[imsi] ELSE t
  OBVIOUS
<1>2. PICK old : old = IF imsi \in DOMAIN imsi2pgw_context THEN pc[c] ELSE Context(imsi)
  OBVIOUS
<1>3. PICK ins : ins = InsertPdn(old, t)
  OBVIOUS
<1>4. PICK paa, taken : paa = Paa(static) /\ taken = AllocPaa(static)
  OBVIOUS
<1>5. PICK nw : nw = PdnConnection(paa)
  OBVIOUS
<1>6. PICK p, m : /\ p = Proc("establishment", uid + 1, t, NoFteid)
                  /\ m = EstablishmentRequest(uid + 1, t)
  OBVIOUS
<1>7. /\ requests < MaxRequests /\ requests' = requests + 1
      /\ teid' = t
      /\ imsi2pgw_context' = MapAssign(imsi2pgw_context, imsi, c)
      /\ s5s8lteid2pgw_context' = MapAssign(s5s8lteid2pgw_context, t, c)
      /\ UNCHANGED <<sessions, ue_ip, up_seid, modifying, deleting, told, overlapped, paged>>
  BY <1>1 DEF CreateSessionRequest, Asks, NextTeid, upf
<1>8. \/ /\ paa # NoAddress
         /\ uid' = uid + 1
         /\ pc' = MapAssign(pc, c, [ins EXCEPT !.pending_procedures = @ \cup {p}])
         /\ pdn' = MapAssign(pdn, t, [nw EXCEPT !.seid = t])
         /\ alloc' = taken
         /\ seid2pgw_context' = MapAssign(seid2pgw_context, t, c)
         /\ sx' = sx \cup {m}
      \/ /\ uid' \in {uid, uid + 1}
         /\ pc' = MapAssign(pc, c, ins)
         /\ pdn' = MapAssign(pdn, t, nw)
         /\ alloc' = IF paa = NoAddress THEN alloc ELSE FreeAddress(taken, Num, paa)
         /\ UNCHANGED <<seid2pgw_context, sx>>
  BY <1>1, <1>2, <1>3, <1>4, <1>5, <1>6 DEF CreateSessionRequest, NextTeid, NextId
<1>9. /\ old \in ContextRecords /\ old.imsi = imsi
      /\ old.pending_procedures = IF c = t THEN {} ELSE Procs(c)
      /\ PdnsOf(old) = IF c = t THEN {} ELSE ConnsOf(c)
      /\ \A a \in old.apns : a # {} /\ a \subseteq 1..t
  <2>1. Old(imsi, t, c, old)
    BY <1>1, <1>2 DEF Old
  <2> QED  BY <2>1, OldContext
<1>10. t \in Nat /\ t # NoSeid /\ t \notin DOMAIN pdn /\ t \in 1..t /\ uid + 1 \in Nat
  BY <1>1, TeidIsNew DEF IInv, Shapes
<1>11. /\ ins \in ContextRecords /\ ins.imsi = imsi
       /\ ins.pending_procedures = (IF c = t THEN {} ELSE Procs(c))
       /\ PdnsOf(ins) = (IF c = t THEN {} ELSE ConnsOf(c)) \cup {t}
       /\ ins.apns = old.apns \cup {{t}}
  <2>1. ins \in ContextRecords /\ ins.imsi = old.imsi
        /\ ins.pending_procedures = old.pending_procedures
        /\ PdnsOf(ins) = PdnsOf(old) \cup {t}
        /\ ins.apns = old.apns \cup {{t}}
    <3>1. old \in ContextRecords /\ t \in Nat
      BY <1>9, <1>10
    <3> QED  BY SMTT(60), <1>3, <3>1, PdnInserted
  <2> QED  BY <1>9, <2>1
<1>12. \A a \in ins.apns : a # {} /\ a \subseteq 1..t
  BY <1>9, <1>10, <1>11
<1>13. paa \in Addrs
  BY <1>4, PaaGiven, StaticsPastPool
<1>14. /\ nw \in PdnRecords /\ nw.addr = paa /\ nw.seid = NoSeid /\ nw.up_fseid = NoSeid
       /\ ~nw.dl /\ nw.sgw_fteid = NoFteid
  BY <1>5, <1>13 DEF PdnConnection, PdnRecords, NoSeid, Fteids
<1>15. p \in ProcRecords
  BY <1>6, <1>10 DEF Proc, ProcRecords, Fteids
<1>16. CASE /\ paa # NoAddress
            /\ uid' = uid + 1
            /\ pc' = MapAssign(pc, c, [ins EXCEPT !.pending_procedures = @ \cup {p}])
            /\ pdn' = MapAssign(pdn, t, [nw EXCEPT !.seid = t])
            /\ alloc' = taken
            /\ seid2pgw_context' = MapAssign(seid2pgw_context, t, c)
            /\ sx' = sx \cup {m}
  <2>1. PICK ctx, new : /\ ctx = [ins EXCEPT !.pending_procedures = @ \cup {p}]
                        /\ new = [nw EXCEPT !.seid = t]
    OBVIOUS
  <2>2. /\ ctx \in ContextRecords /\ ctx.imsi = imsi /\ ctx.apns = ins.apns
        /\ ctx.pending_procedures = (IF c = t THEN {} ELSE Procs(c)) \cup {p}
    BY <1>11, <1>15, <2>1 DEF ContextRecords
  <2>3. PdnsOf(ctx) = PdnsOf(ins)
    BY <2>2 DEF PdnsOf
  <2>4. /\ new \in PdnRecords /\ new.addr = paa /\ new.seid = t /\ new.up_fseid = NoSeid
        /\ ~new.dl /\ new.sgw_fteid = NoFteid
    BY <1>10, <1>14, <2>1 DEF PdnRecords
  <2>5. pc' = MapAssign(pc, c, ctx) /\ pdn' = MapAssign(pdn, t, new)
    BY <1>16, <2>1
  <2>6. Created(imsi, t, c, ctx, new)
    BY <1>1, <1>7, <1>11, <1>12, <1>16, <2>2, <2>3, <2>4, <2>5 DEF Created
  <2>7. Opened(t, c, ctx, new, TRUE, p, m)
    BY <1>6, <1>7, <1>16, <2>2, <2>4 DEF Opened
  <2>8. Pool'
    <3>1. Grown(t, c, ctx, new)
      BY <2>6, CreatedTables
    <3>2. Opening(t, TRUE, p, m)
      BY <2>6, <2>7, OpenedProcedures
    <3> QED  BY <1>4, <1>10, <1>16, <2>4, <3>1, <3>2, PoolOpened, StaticsPastPool DEF Grown, Opening
  <2> QED  BY <2>6, <2>7, <2>8, OpenedInv
<1>17. CASE /\ uid' \in {uid, uid + 1}
            /\ pc' = MapAssign(pc, c, ins)
            /\ pdn' = MapAssign(pdn, t, nw)
            /\ alloc' = IF paa = NoAddress THEN alloc ELSE FreeAddress(taken, Num, paa)
            /\ UNCHANGED <<seid2pgw_context, sx>>
  <2>1. Created(imsi, t, c, ins, nw)
    BY <1>1, <1>7, <1>11, <1>12, <1>14, <1>17 DEF Created
  <2>2. Opened(t, c, ins, nw, FALSE, p, m)
    BY <1>6, <1>7, <1>11, <1>14, <1>17 DEF Opened
  <2>3. Pool'
    <3>1. Grown(t, c, ins, nw)
      BY <2>1, CreatedTables
    <3>2. Opening(t, FALSE, p, m)
      BY <2>1, <2>2, OpenedProcedures
    <3> QED  BY <1>4, <1>10, <1>17, <3>1, <3>2, PoolRefused, StaticsPastPool DEF Grown, Opening
  <2> QED  BY <2>1, <2>2, <2>3, OpenedInv
<1> QED  BY <1>8, <1>16, <1>17

------------------------------------------------------------------------------
(* The invariant *)

LEMMA InitInv ==
  ASSUME Init
  PROVE  IInv
<1>1. /\ DOMAIN pc = {} /\ DOMAIN pdn = {} /\ DOMAIN sessions = {} /\ DOMAIN ue_ip = {}
      /\ DOMAIN imsi2pgw_context = {} /\ DOMAIN s5s8lteid2pgw_context = {}
      /\ DOMAIN seid2pgw_context = {}
      /\ IsMap(imsi2pgw_context) /\ IsMap(s5s8lteid2pgw_context) /\ IsMap(seid2pgw_context)
      /\ IsMap(ue_ip)
      /\ pc \in [DOMAIN pc -> ContextRecords] /\ pdn \in [DOMAIN pdn -> PdnRecords]
      /\ sessions \in [DOMAIN sessions -> SessionRecords]
  BY DEF Init, EmptyMap, IsMap
<1>2. /\ sx = {} /\ told = {} /\ overlapped = {} /\ paged = {} /\ teid = 0 /\ uid = 0
      /\ up_seid = 0 /\ modifying = {} /\ deleting = 0 /\ requests = 0 /\ alloc = NewPool(Num)
  BY DEF Init, NoSeid
<1>3. Shapes
  BY <1>1, <1>2, NamesAssumption DEF Shapes, IsRoutes
<1>4. Established = {} /\ AllProcs = {}
  BY <1>1 DEF Established, AllProcs
<1>5. Tables /\ Connections /\ Placed /\ Tasks /\ Routes
  BY <1>1, <1>2 DEF Tables, Connections, Placed, Tasks, Routes
<1>6. Pool
  <2>1. Covers(alloc) /\ FreeBits(alloc) = DynamicAddresses
    BY <1>2, NewPoolFree
  <2> QED  BY <1>4, <2>1 DEF Pool, Covers, PoolAgrees
<1>7. Ids /\ Sessions /\ Path
  BY <1>1, <1>2, <1>4 DEF Ids, Sessions, Path
<1> QED  BY <1>3, <1>5, <1>6, <1>7 DEF IInv

LEMMA StutterInv ==
  ASSUME IInv, UNCHANGED vars
  PROVE  IInv'
<1>1. UNCHANGED <<imsi2pgw_context, s5s8lteid2pgw_context, seid2pgw_context, pc, pdn, alloc,
                  teid, uid, sessions, ue_ip, up_seid, modifying, deleting,
                  sx, requests, told, overlapped, paged>>
  BY DEF vars, pgwc, upf
<1>2. /\ Tables' /\ Connections' /\ Pool' /\ Placed'
      /\ AllProcs' = AllProcs /\ Established' = Established
  BY <1>1, UpKeeps DEF IInv, Shapes
<1>3. Shapes'
  BY <1>1 DEF IInv, Shapes, IsMap, IsRoutes
<1>4. Ids'
  BY <1>1, <1>2, SeidsAreGiven, SessionsKept, IdsFewer DEF IInv
<1>5. Sessions'
  BY <1>1, <1>2, SessionsFewer
<1>6. Path'
  BY <1>1, <1>2, PathNotified
<1>7. Tasks' /\ Routes'
  <2>1. SameSessions /\ StillKept
    BY <1>1 DEF SameSessions, StillKept
  <2> QED  BY <1>1, <1>2, <2>1, TasksKept
<1> QED  BY <1>2, <1>3, <1>4, <1>5, <1>6, <1>7 DEF IInv

\* Every step keeps the invariant.
LEMMA NextInv ==
  ASSUME StaticsPastPool, IInv, [Next]_vars
  PROVE  IInv'
<1>1. CASE \E imsi \in IMSIs, static \in Statics \cup {NoAddress}, up_node \in BOOLEAN :
             CreateSessionRequest(imsi, static, up_node)
  BY <1>1, CreateSessionRequestInv, StaticsPastPool
<1>2. ASSUME NEW t \in told, \E fteid \in EnbFteids : ModifyBearerRequest(t, fteid)
      PROVE  IInv'
  BY <1>2, ModifyBearerRequestInv
<1>3. ASSUME NEW t \in told, ReleaseAccessBearersRequest(t) PROVE IInv'
  BY <1>3, ReleaseAccessBearersRequestInv
<1>4. ASSUME NEW t \in told, DeleteSessionRequest(t) PROVE IInv'
  BY <1>4, DeleteSessionRequestInv
<1>5. ASSUME NEW t \in told, DownlinkDataNotificationAcknowledge(t) PROVE IInv'
  BY <1>5, DownlinkDataNotificationAcknowledgeInv
<1>6. ASSUME NEW m \in sx, HandleEstablishment(m) PROVE IInv'
  BY <1>6, HandleEstablishmentInv
<1>7. ASSUME NEW m \in sx, HandleModification(m) PROVE IInv'
  BY <1>7, HandleModificationInv
<1>8. ASSUME NEW m \in sx, HandleDeletion(m) PROVE IInv'
  BY <1>8, HandleDeletionInv
<1>9. ASSUME NEW m \in sx, HandleEstablishmentResponse(m) PROVE IInv'
  BY <1>9, HandleEstablishmentResponseInv
<1>10. ASSUME NEW m \in sx, HandleModificationResponse(m) PROVE IInv'
  BY <1>10, HandleModificationResponseInv
<1>11. ASSUME NEW m \in sx, HandleDeletionResponse(m) PROVE IInv'
  BY <1>11, HandleDeletionResponseInv, StaticsPastPool
<1>12. ASSUME NEW m \in sx, HandleReportRequest(m) PROVE IInv'
  BY <1>12, HandleReportRequestInv
<1>13. ASSUME NEW h \in modifying, EnterRules(h) PROVE IInv'
  BY <1>13, EnterRulesInv
<1>14. ASSUME NEW s \in DOMAIN sessions, CleanSessionUp(s) PROVE IInv'
  BY <1>14, CleanSessionUpInv
<1>15. CASE EraseSession
  BY <1>15, EraseSessionInv
<1>16. ASSUME NEW a \in DOMAIN ue_ip, PacketInCore(a) PROVE IInv'
  BY <1>16, PacketInCoreInv
<1>17. CASE UNCHANGED vars
  BY <1>17, StutterInv
<1> QED  BY <1>1, <1>2, <1>3, <1>4, <1>5, <1>6, <1>7, <1>8, <1>9, <1>10, <1>11, <1>12,
            <1>13, <1>14, <1>15, <1>16, <1>17 DEF Next

\* The inductive invariant holds, for any number of subscribers, connections and
\* requests, if the static addresses are past the end of the pool.
THEOREM Invariance ==
  ASSUME StaticsPastPool
  PROVE  Spec => []IInv
<1>1. Init => IInv
  BY InitInv
<1>2. IInv /\ [Next]_vars => IInv'
  BY NextInv, StaticsPastPool
<1> QED  BY <1>1, <1>2, PTL DEF Spec

\* The messages under way are of connections and sessions that were named.
LEMMA MessagesTyped ==
  ASSUME IInv
  PROVE  sx \subseteq Messages
<1> USE DEF IInv
<1>1. /\ Teids \subseteq Nat /\ Uids \subseteq Nat
      /\ \A t \in DOMAIN pdn \cup DOMAIN seid2pgw_context : t \in Teids
  BY DEF Tables, Shapes, Teids, Uids
<1>2. SUFFICES ASSUME NEW m \in sx PROVE m \in Messages
  OBVIOUS
<1>3. m \in MsgRecords /\ m.id \in Uids
  BY <1>2 DEF Shapes, Ids
<1>4. CASE m \in EstReqs
  <2>1. m.cp \in Teids
    BY <1>1, <1>2, <1>4 DEF Sessions, EstReqs
  <2> QED  BY <1>3, <1>4, <2>1 DEF EstReqs, Messages
<1>5. CASE m \in ModReqs
  <2>1. m.seid \in 1..up_seid
    BY <1>2, <1>5 DEF Sessions, ModReqs
  <2>2. m.addr \in DynamicAddresses \cup Statics \cup {NoAddress}
    BY <1>5 DEF ModReqs, Addrs
  <2> QED  BY <1>3, <1>5, <2>1, <2>2 DEF ModReqs, Messages
<1>6. CASE m \in DelReqs
  <2>1. m.seid \in 1..up_seid
    BY <1>2, <1>6 DEF Sessions, DelReqs
  <2> QED  BY <1>3, <1>6, <2>1 DEF DelReqs, Messages
<1>7. CASE m \in EstResps
  <2>1. m.seid \in Teids /\ m.up \in 1..up_seid
    BY <1>1, <1>2, <1>7 DEF Sessions, EstResps
  <2> QED  BY <1>3, <1>7, <2>1 DEF EstResps, Messages
<1>8. CASE m \in ModResps
  <2>1. m.seid \in Teids \cup {NoSeid}
    BY <1>2, <1>8 DEF Sessions, ModResps
  <2> QED  BY <1>3, <1>8, <2>1 DEF ModResps, Messages
<1>9. CASE m \in DelResps
  <2>1. m.seid \in Teids \cup {NoSeid}
    BY <1>1, <1>2, <1>9 DEF Sessions, DelResps
  <2> QED  BY <1>3, <1>9, <2>1 DEF DelResps, Messages
<1>10. CASE m \in Reports
  <2>1. m.seid \in Teids
    BY <1>2, <1>10 DEF Sessions, Reports
  <2> QED  BY <1>3, <1>10, <2>1 DEF Reports, Messages
<1> QED  BY <1>3, <1>4, <1>5, <1>6, <1>7, <1>8, <1>9, <1>10 DEF MsgRecords

\* The state has its type: contexts, connections and sessions are named by TEIDs and
\* SEIDs that were given, and every message of PGW-C and SPGW-U names such.
THEOREM TypeCorrect ==
  ASSUME StaticsPastPool
  PROVE  Spec => []TypeOK
<1>1. ASSUME IInv PROVE TypeOK
  <2> USE <1>1 DEF IInv
  <2>1. /\ IsInjective(imsi2pgw_context) /\ DOMAIN imsi2pgw_context \subseteq IMSIs
        /\ \A k \in DOMAIN s5s8lteid2pgw_context : s5s8lteid2pgw_context[k] \in DOMAIN pc
        /\ \A k \in DOMAIN seid2pgw_context : seid2pgw_context[k] \in DOMAIN pc
    BY DEF Tables, IsInjective
  <2>2. ASSUME NEW c \in DOMAIN pc
        PROVE  /\ pc[c].imsi \in IMSIs
               /\ pc[c].apns \subseteq (SUBSET Teids) \ {{}}
               /\ pc[c].pending_procedures \subseteq
                    [type : {"establishment", "modify", "release", "delete", "ddn"},
                     id : Uids, pdn : Teids, fteid : EnbFteids \cup {NoFteid}]
    <3>1. pc[c] \in ContextRecords
      BY DEF Shapes
    <3>2. pc[c].imsi \in IMSIs /\ Procs(c) \subseteq ProcRecords
      BY <3>1 DEF ContextRecords, Procs
    <3>3. pc[c].apns \subseteq (SUBSET Teids) \ {{}}
      BY DEF Tables
    <3>4. ASSUME NEW p \in Procs(c)
          PROVE  p \in [type : {"establishment", "modify", "release", "delete", "ddn"},
                        id : Uids, pdn : Teids, fteid : EnbFteids \cup {NoFteid}]
      <4>1. p \in ProcRecords /\ p \in AllProcs
        BY <3>2, <3>4 DEF AllProcs
      <4>2. p.id \in Uids /\ p.pdn \in Teids
        BY <3>4, <4>1 DEF Ids, Placed, Tables
      <4> QED  BY <4>1, <4>2 DEF ProcRecords, Fteids
    <3> QED  BY <3>2, <3>3, <3>4 DEF Procs
  <2>3. pdn \in [DOMAIN pdn ->
          [addr : DynamicAddresses \cup Statics \cup {NoAddress}, seid : Teids \cup {NoSeid},
           up_fseid : 0..up_seid, dl : BOOLEAN,
           sgw_fteid : EnbFteids \cup {NoFteid}, released : BOOLEAN]]
    <3>1. ASSUME NEW t \in DOMAIN pdn
          PROVE  pdn[t] \in
            [addr : DynamicAddresses \cup Statics \cup {NoAddress}, seid : Teids \cup {NoSeid},
             up_fseid : 0..up_seid, dl : BOOLEAN,
             sgw_fteid : EnbFteids \cup {NoFteid}, released : BOOLEAN]
      <4>1. pdn[t] \in PdnRecords
        BY DEF Shapes
      <4>2. t \in Teids /\ up_seid \in Nat
        BY DEF Shapes, Tables
      <4>3. pdn[t].seid \in Teids \cup {NoSeid} /\ pdn[t].up_fseid \in 0..up_seid
        BY <4>2 DEF Connections, NoSeid
      <4> QED  BY <4>1, <4>3 DEF PdnRecords, Addrs, Fteids
    <3> QED  BY <3>1 DEF Shapes
  <2>4. \A w \in DOMAIN alloc : w \in Int /\ alloc[w] \subseteq FullWord
    BY Words DEF Pool
  <2>5. sessions \in [DOMAIN sessions ->
          [cp : Teids, ul : {"forw", "drop", "none"}, dl : EnbFteids \cup {Nocp, NoRule},
           addr : DynamicAddresses \cup Statics \cup {NoAddress}, notified : BOOLEAN]]
    <3>1. ASSUME NEW s \in DOMAIN sessions
          PROVE  sessions[s] \in
            [cp : Teids, ul : {"forw", "drop", "none"}, dl : EnbFteids \cup {Nocp, NoRule},
             addr : DynamicAddresses \cup Statics \cup {NoAddress}, notified : BOOLEAN]
      <4>1. sessions[s] \in SessionRecords /\ sessions[s].cp \in Teids
        BY DEF Shapes, Sessions, Established, Tables
      <4> QED  BY <4>1 DEF SessionRecords, Addrs
    <3> QED  BY <3>1 DEF Shapes
  <2>6. told \subseteq Teids /\ overlapped \subseteq told /\ paged \subseteq Teids \X Teids
    BY DEF Connections, Tables
  <2>7. modifying \subseteq [req : sx, cp : Teids] /\ deleting \in 0..up_seid
    <3>1. ASSUME NEW h \in modifying PROVE h \in [req : sx, cp : Teids]
      <4>1. h \in [req : ModReqs, cp : Nat]
        BY DEF Shapes
      <4>2. h.req \in sx /\ h.cp \in Teids
        BY DEF Tasks, Found, Kept, Tables
      <4> QED  BY <4>1, <4>2
    <3> QED  BY <3>1 DEF Shapes
  <2> QED  BY <2>1, <2>2, <2>3, <2>4, <2>5, <2>6, <2>7, MessagesTyped DEF TypeOK
<1> QED  BY Invariance, StaticsPastPool, <1>1, PTL

\* The tables of PGW-C and its contexts keep together, and the bitmap of the pool with
\* the addresses connections have: none leaks and none is given twice.
THEOREM TablesStayTogether ==
  ASSUME StaticsPastPool
  PROVE  Spec => []TablesAgree
<1>1. ASSUME IInv PROVE TablesAgree
  <2>1. DOMAIN s5s8lteid2pgw_context = UNION {ConnsOf(c) : c \in DOMAIN pc}
    <3>1. ASSUME NEW t \in DOMAIN s5s8lteid2pgw_context
          PROVE  t \in UNION {ConnsOf(c) : c \in DOMAIN pc}
      <4>1. s5s8lteid2pgw_context[t] \in DOMAIN pc /\ t \in ConnsOf(s5s8lteid2pgw_context[t])
        BY <1>1, <3>1 DEF IInv, Tables
      <4> QED  BY <4>1
    <3>2. ASSUME NEW c \in DOMAIN pc, NEW t \in ConnsOf(c)
          PROVE  t \in DOMAIN s5s8lteid2pgw_context
      BY <1>1, <3>2 DEF IInv, Tables
    <3> QED  BY <3>1, <3>2
  <2> QED  BY <1>1, <2>1 DEF IInv, Tables, Pool, TablesAgree, ContextOf
<1> QED  BY Invariance, StaticsPastPool, <1>1, PTL

\* The connections that have an address.
Holders(a)  == {t \in Established : pdn[t].addr = a}
HolderIn(S) == IF S = {} THEN 0 ELSE CHOOSE t \in S : TRUE

\* HolderOf by the set of connections that have the address.
LEMMA HolderFound ==
  ASSUME NEW a
  PROVE  HolderOf(a) = HolderIn(Holders(a)) /\ HolderOf(a)' = HolderIn(Holders(a)')
  BY DEF HolderOf, HolderIn, Holders

LEMMA OneHolder == HolderIn({}) = 0 /\ \A t : HolderIn({t}) = t
  BY DEF HolderIn

\* An address has one holder, the connection that has it.
LEMMA HolderIs ==
  ASSUME IInv, NEW t \in Established, pdn[t].addr \in DynamicAddresses
  PROVE  HolderOf(pdn[t].addr) = t
<1>1. PICK a : a = pdn[t].addr
  OBVIOUS
<1>2. Holders(a) = {t}
  BY <1>1 DEF Holders, IInv, Pool
<1> QED  BY <1>1, <1>2, HolderFound, OneHolder

\* Packets for an address of the pool find the session that has downlink rules for it,
\* and an entry that has outlived its session is one of a connection that still holds
\* the address, whatever the two tasks of SPGW-U do in the meantime.
THEOREM RoutesAlwaysLead ==
  ASSUME StaticsPastPool
  PROVE  Spec => []RoutesLead
<1>1. ASSUME IInv PROVE RoutesLead
  <2>1. ASSUME NEW a \in DOMAIN ue_ip, ~Live(a)
        PROVE  /\ ue_ip[a] \notin DOMAIN sessions
               /\ a \in DynamicAddresses =>
                    HolderOf(a) # 0 /\ pdn[HolderOf(a)].up_fseid = ue_ip[a]
    <3>1. Stale(a)
      BY <1>1, <2>1 DEF IInv, Routes
    <3>2. ASSUME a \in DynamicAddresses
          PROVE  HolderOf(a) # 0 /\ pdn[HolderOf(a)].up_fseid = ue_ip[a]
      <4>1. PICK t \in told : HeldBy(t, a, ue_ip[a])
        BY <3>1, <3>2 DEF Stale
      <4>2. t \in DOMAIN pdn /\ pdn[t].addr = a /\ pdn[t].up_fseid = ue_ip[a]
        BY <4>1 DEF HeldBy, Kept
      <4>3. t \in Established /\ t # 0
        BY <1>1, <4>2 DEF IInv, Connections, Tables, Teids, Established, NoSeid
      <4>4. HolderOf(a) = t
        BY <1>1, <3>2, <4>2, <4>3, HolderIs
      <4> QED  BY <4>2, <4>3, <4>4
    <3> QED  BY <3>1, <3>2 DEF Stale
  <2>2. \A s \in DOMAIN sessions : Led(s)
    BY <1>1 DEF IInv, Routes
  <2> QED  BY <2>1, <2>2 DEF RoutesLead, Live, Led
<1> QED  BY Invariance, StaticsPastPool, <1>1, PTL

\* A modify request that PGW-C answers from what it has stored asks for the path
\* SPGW-U has, if no two procedures of the connection ever overlapped.
THEOREM PathsAgree ==
  ASSUME StaticsPastPool
  PROVE  Spec => []PathAgrees
<1>1. ASSUME IInv PROVE PathAgrees
  <2> USE <1>1 DEF IInv
  <2>1. SUFFICES ASSUME NEW t \in DOMAIN pdn \cap told, NEW f \in EnbFteids,
                        Settled(t), UnchangedFteid(pdn[t], f)
                 PROVE  sessions[pdn[t].up_fseid].dl = f
    BY DEF PathAgrees
  <2>2. t \in DOMAIN seid2pgw_context /\ t \in DOMAIN s5s8lteid2pgw_context
    BY <2>1 DEF Connections, Tables
  <2>3. ContextOf(t) = seid2pgw_context[t]
    BY <2>2 DEF Tables, ContextOf
  <2>4. ASSUME NEW p \in AllProcs, p.pdn = t, p.type # "ddn" PROVE FALSE
    <3>1. p \in Procs(ContextOf(t))
      BY <2>3, <2>4 DEF AllProcs, Placed
    <3> QED  BY <2>1, <2>4, <3>1 DEF Settled
  <2>5. Pending(t) = {}
    BY <2>4 DEF Pending
  <2>6. t \notin overlapped /\ pdn[t].up_fseid \in DOMAIN sessions \ {deleting}
    BY <2>1 DEF Settled
  <2>7. Stored(t)
    BY <2>1, <2>5, <2>6 DEF Path
  <2>8. ~pdn[t].released /\ pdn[t].sgw_fteid = f /\ f # NoFteid
    BY <2>1, NamesAssumption DEF UnchangedFteid
  <2> QED  BY <2>7, <2>8 DEF Stored
<1> QED  BY Invariance, StaticsPastPool, <1>1, PTL

------------------------------------------------------------------------------
(* The leases of addresses *)

holderBar == [a \in DynamicAddresses |-> HolderOf(a)]
routeBar  == [a \in DynamicAddresses |-> RouteOf(a)]

\* Leases and routes that do not change.
LEMMA SameHolders ==
  ASSUME SameAddresses
  PROVE  \A a \in DynamicAddresses : HolderOf(a)' = HolderOf(a)
<1>1. SUFFICES ASSUME NEW a \in DynamicAddresses PROVE HolderOf(a)' = HolderOf(a)
  OBVIOUS
<1>2. Holders(a)' = Holders(a)
  BY DEF Holders, Established, SameAddresses
<1> QED  BY <1>2, HolderFound

\* The connection packets for an address go to, if any.
LEMMA RouteIs ==
  ASSUME IInv, NEW a \in DynamicAddresses
  PROVE  /\ a \in DOMAIN ue_ip /\ ue_ip[a] \in DOMAIN sessions =>
              /\ RouteOf(a) = sessions[ue_ip[a]].cp
              /\ RouteOf(a) \in Established /\ pdn[RouteOf(a)].addr = a
         /\ a \notin DOMAIN ue_ip \/ ue_ip[a] \notin DOMAIN sessions => RouteOf(a) = 0
<1>1. NoAddress \notin DynamicAddresses
  BY NamesAssumption DEF NoAddress, DynamicAddresses
<1>2. ASSUME a \in DOMAIN ue_ip, ue_ip[a] \in DOMAIN sessions
      PROVE  /\ RouteOf(a) = sessions[ue_ip[a]].cp
             /\ RouteOf(a) \in Established /\ pdn[RouteOf(a)].addr = a
  <2>1. sessions[ue_ip[a]].addr = a
    BY <1>2 DEF IInv, Routes, Live, Stale
  <2>2. RouteOf(a) = sessions[ue_ip[a]].cp
    BY <1>2 DEF RouteOf
  <2>3. RouteOf(a) \in Established /\ sessions[ue_ip[a]].addr \in {NoAddress, pdn[RouteOf(a)].addr}
    BY <1>2, <2>2 DEF IInv, Sessions
  <2>4. a # NoAddress
    BY <1>1
  <2> QED  BY <2>1, <2>2, <2>3, <2>4
<1> QED  BY <1>2 DEF RouteOf

SameCps ==
  /\ DOMAIN sessions' = DOMAIN sessions
  /\ \A s \in DOMAIN sessions : sessions'[s].cp = sessions[s].cp

LEMMA SameRoutes ==
  ASSUME SameCps, UNCHANGED ue_ip
  PROVE  \A a \in DynamicAddresses : RouteOf(a)' = RouteOf(a)
<1>1. ASSUME NEW a \in DynamicAddresses PROVE RouteOf(a)' = RouteOf(a)
  <2>1. CASE a \in DOMAIN ue_ip /\ ue_ip[a] \in DOMAIN sessions
    BY <2>1 DEF RouteOf, SameCps
  <2>2. CASE ~(a \in DOMAIN ue_ip /\ ue_ip[a] \in DOMAIN sessions)
    BY <2>2 DEF RouteOf, SameCps
  <2> QED  BY <2>1, <2>2
<1> QED  BY <1>1

\* Nothing is leased or returned, no route made or dropped.
LEMMA LeasesSame ==
  ASSUME \A a \in DynamicAddresses : HolderOf(a)' = HolderOf(a),
         \A a \in DynamicAddresses : RouteOf(a)' = RouteOf(a)
  PROVE  UNCHANGED <<holderBar, routeBar>>
  BY DEF holderBar, routeBar, DynamicAddresses

\* A step of the gateway is one of AddressLeases, or none.
LeasesStep == Leases!Next \/ UNCHANGED <<holderBar, routeBar>>

\* The four kinds of steps of AddressLeases, as the addresses see them.
LEMMA SeenLease ==
  ASSUME NEW a \in DynamicAddresses, NEW t \in 1..MaxRequests,
         HolderOf(a) = 0, HolderOf(a)' = t,
         \A b \in DynamicAddresses : b # a => HolderOf(b)' = HolderOf(b),
         \A b \in DynamicAddresses : RouteOf(b)' = RouteOf(b)
  PROVE  Leases!Lease(a, t)
  BY DEF Leases!Lease, DynamicAddresses

LEMMA SeenReturn ==
  ASSUME NEW a \in DynamicAddresses,
         HolderOf(a) # 0, HolderOf(a)' = 0, RouteOf(a) = 0,
         \A b \in DynamicAddresses : b # a => HolderOf(b)' = HolderOf(b),
         \A b \in DynamicAddresses : RouteOf(b)' = RouteOf(b)
  PROVE  Leases!Return(a)
  BY DEF Leases!Return, DynamicAddresses

LEMMA SeenRoute ==
  ASSUME NEW a \in DynamicAddresses,
         HolderOf(a) # 0, RouteOf(a) = 0, RouteOf(a)' = HolderOf(a),
         \A b \in DynamicAddresses : HolderOf(b)' = HolderOf(b),
         \A b \in DynamicAddresses : b # a => RouteOf(b)' = RouteOf(b)
  PROVE  Leases!Route(a)
  BY DEF Leases!Route, DynamicAddresses

LEMMA SeenUnroute ==
  ASSUME NEW A \in SUBSET DynamicAddresses,
         \A b \in DynamicAddresses : HolderOf(b)' = HolderOf(b),
         \A b \in A : RouteOf(b)' = 0,
         \A b \in DynamicAddresses \ A : RouteOf(b)' = RouteOf(b)
  PROVE  Leases!Unroute(A)
  BY DEF Leases!Unroute, DynamicAddresses

\* Handlers that leave the addresses of connections and the routes alone.
LEMMA NoLeaseStep ==
  ASSUME SameAddresses, SameCps, UNCHANGED ue_ip
  PROVE  LeasesStep
<1>1. \A a \in DynamicAddresses : HolderOf(a)' = HolderOf(a)
  BY SameHolders
<1>2. \A a \in DynamicAddresses : RouteOf(a)' = RouteOf(a)
  BY SameRoutes
<1> QED  BY <1>1, <1>2, LeasesSame DEF LeasesStep

\* SPGW-U drops entries of the table, or their sessions, and makes no route.
LEMMA DropStep ==
  ASSUME UNCHANGED pdn,
         DOMAIN sessions' \subseteq DOMAIN sessions,
         \A s \in DOMAIN sessions' : sessions'[s].cp = sessions[s].cp,
         \A a \in DynamicAddresses : a \in DOMAIN ue_ip' =>
           \/ a \in DOMAIN ue_ip /\ ue_ip'[a] = ue_ip[a]
           \/ ue_ip'[a] \notin DOMAIN sessions'
  PROVE  LeasesStep
<1>1. \A a \in DynamicAddresses : HolderOf(a)' = HolderOf(a)
  BY SameHolders DEF SameAddresses
<1>2. ASSUME NEW a \in DynamicAddresses PROVE RouteOf(a)' \in {0, RouteOf(a)}
  <2>1. CASE a \in DOMAIN ue_ip' /\ ue_ip'[a] \in DOMAIN sessions'
    <3>1. /\ a \in DOMAIN ue_ip /\ ue_ip'[a] = ue_ip[a] /\ ue_ip[a] \in DOMAIN sessions
          /\ sessions'[ue_ip[a]].cp = sessions[ue_ip[a]].cp
      BY <2>1
    <3> QED  BY <2>1, <3>1 DEF RouteOf
  <2>2. CASE ~(a \in DOMAIN ue_ip' /\ ue_ip'[a] \in DOMAIN sessions')
    BY <2>2 DEF RouteOf
  <2> QED  BY <2>1, <2>2
<1>3. PICK D : D = {a \in DynamicAddresses : RouteOf(a)' = 0}
  OBVIOUS
<1>4. D \in SUBSET DynamicAddresses /\ \A a \in D : RouteOf(a)' = 0
  BY <1>3
<1>5. \A a \in DynamicAddresses \ D : RouteOf(a)' = RouteOf(a)
  BY <1>2, <1>3
<1>6. Leases!Unroute(D)
  BY <1>1, <1>4, <1>5, SeenUnroute
<1> QED  BY <1>4, <1>6 DEF LeasesStep, Leases!Next

\* The rules of a connection are created: its address is routed, unless the table has
\* an entry of it or the session is gone.
LEMMA CreateRulesStep ==
  ASSUME IInv, NEW h \in modifying, EnterRules(h), CreateRules(h)
  PROVE  LeasesStep
<1>1. PICK s, a, t : s = h.req.seid /\ a = h.req.addr /\ t = h.cp
  OBVIOUS
<1>2. h.req.rules = "create" /\ ue_ip' = MapInsert(ue_ip, a, s) /\ UNCHANGED pdn
  BY Zenon, <1>1 DEF EnterRules, CreateRules, pgwc
<1>3. /\ a = pdn[t].addr /\ t \in Established /\ t # 0
      /\ s \in DOMAIN sessions => sessions[s].cp = t
  BY <1>1, <1>2, FoundIs DEF Found, NoSeid
<1>4. SameCps
  BY Zenon DEF IInv, Shapes, SessionRecords, CreateRules, SameCps
<1>5. \A b \in DynamicAddresses : HolderOf(b)' = HolderOf(b)
  BY <1>2, SameHolders DEF SameAddresses
<1>6. /\ DOMAIN ue_ip' = DOMAIN ue_ip \cup {a}
      /\ \A b \in DOMAIN ue_ip : ue_ip'[b] = ue_ip[b]
      /\ a \notin DOMAIN ue_ip => ue_ip'[a] = s
  BY <1>2 DEF MapInsert
<1>7. CASE a \in DynamicAddresses /\ a \notin DOMAIN ue_ip /\ s \in DOMAIN sessions
  <2>1. ASSUME NEW b \in DynamicAddresses, b # a PROVE RouteOf(b)' = RouteOf(b)
    <3>1. CASE b \in DOMAIN ue_ip /\ ue_ip[b] \in DOMAIN sessions
      BY <1>4, <1>6, <3>1 DEF RouteOf, SameCps
    <3>2. CASE ~(b \in DOMAIN ue_ip /\ ue_ip[b] \in DOMAIN sessions)
      BY <1>4, <1>6, <2>1, <3>2 DEF RouteOf, SameCps
    <3> QED  BY <3>1, <3>2
  <2>2. RouteOf(a) = 0 /\ HolderOf(a) = t
    BY <1>3, <1>7, RouteIs, HolderIs
  <2>3. RouteOf(a)' = t
    BY <1>3, <1>4, <1>6, <1>7 DEF RouteOf, SameCps
  <2>4. Leases!Route(a)
    BY <1>3, <1>5, <1>7, <2>1, <2>2, <2>3, SeenRoute
  <2> QED  BY <1>7, <2>4 DEF LeasesStep, Leases!Next
<1>8. CASE ~(a \in DynamicAddresses /\ a \notin DOMAIN ue_ip /\ s \in DOMAIN sessions)
  BY <1>2, <1>4, <1>6, <1>8, DropStep DEF SameCps
<1> QED  BY <1>7, <1>8

\* The connection of an awaited deletion response returns its address. SPGW-U has no
\* session of it any more, so no packet is routed by the address.
LEMMA ReturnStep ==
  ASSUME IInv, StaticsPastPool, NEW m, HandleDeletionResponse(m)
  PROVE  LeasesStep
<1>0. Awaited(m, "delete")
  BY DEF HandleDeletionResponse
<1>1. PICK p, t, c : p = ProcOf(m) /\ t = p.pdn /\ c = ContextOfSeid(m)
  OBVIOUS
<1>2. /\ m \in sx /\ m.to = "pgwc" /\ m.type = "delete" /\ m.seid = t /\ m.seid # NoSeid
  BY <1>0, <1>1, ProcedureAwaited
<1>3. /\ t \in DOMAIN pdn /\ t \in told /\ Established' = Established \ {t}
      /\ pdn' = MapErase(pdn, t)
  BY <1>1, ConnectionDeleted, StaticsPastPool
<1>4. UNCHANGED <<sessions, ue_ip>>
  BY DEF HandleDeletionResponse, upf
<1>5. t \in Established /\ t # 0
  BY <1>2, <1>3 DEF IInv, Connections, Established, NoSeid
<1>6. \A b \in DynamicAddresses : RouteOf(b)' = RouteOf(b)
  BY <1>4, SameRoutes DEF SameCps
<1>7. PICK a : a = pdn[t].addr
  OBVIOUS
<1>8. \A u \in Established : u # t => u \in DOMAIN pdn /\ pdn'[u] = pdn[u]
  BY <1>3 DEF MapErase, Established
<1>9. ASSUME NEW b \in DynamicAddresses, b # a PROVE HolderOf(b)' = HolderOf(b)
  <2>1. Holders(b)' = Holders(b)
    BY <1>3, <1>7, <1>8, <1>9 DEF Holders
  <2> QED  BY <2>1, HolderFound
<1>10. CASE a \in DynamicAddresses
  <2>1. HolderOf(a) = t
    BY <1>5, <1>7, <1>10, HolderIs
  <2>2. Holders(a)' = {}
    <3>1. \A u \in Established : u # t => pdn[u].addr # a
      BY <1>5, <1>7, <1>10 DEF IInv, Pool
    <3> QED  BY <1>3, <1>8, <3>1 DEF Holders
  <2>3. HolderOf(a)' = 0
    BY <2>2, HolderFound, OneHolder
  <2>4. RouteOf(a) = 0
    <3>1. ASSUME a \in DOMAIN ue_ip, ue_ip[a] \in DOMAIN sessions PROVE FALSE
      <4>1. /\ RouteOf(a) = sessions[ue_ip[a]].cp
            /\ RouteOf(a) \in Established /\ pdn[RouteOf(a)].addr = a
        BY <1>10, <3>1, RouteIs
      <4>2. RouteOf(a) = t
        BY <1>5, <1>7, <1>10, <4>1 DEF IInv, Pool
      <4>3. sessions[ue_ip[a]].cp # t
        BY <1>2, <3>1 DEF IInv, Sessions
      <4> QED  BY <4>1, <4>2, <4>3
    <3> QED  BY <1>10, <3>1, RouteIs
  <2>5. Leases!Return(a)
    BY <1>5, <1>6, <1>9, <1>10, <2>1, <2>3, <2>4, SeenReturn
  <2> QED  BY <1>10, <2>5 DEF LeasesStep, Leases!Next
<1>11. CASE a \notin DynamicAddresses
  BY <1>6, <1>9, <1>11, LeasesSame DEF LeasesStep
<1> QED  BY <1>10, <1>11

\* A new connection leases the address it is given, which nobody has.
LEMMA CreateStep ==
  ASSUME IInv, StaticsPastPool, NEW imsi \in IMSIs,
         NEW static \in Statics \cup {NoAddress}, NEW up_node \in BOOLEAN,
         CreateSessionRequest(imsi, static, up_node)
  PROVE  LeasesStep
<1>1. PICK t, a, new : t = teid + 1 /\ a = Paa(static) /\ new = PdnConnection(a)
  OBVIOUS
<1>2. t \in Nat /\ t # NoSeid /\ t \notin DOMAIN pdn
  BY <1>1, TeidIsNew
<1>3. UNCHANGED <<sessions, ue_ip>> /\ requests < MaxRequests
  BY DEF CreateSessionRequest, Asks, upf
<1>4. \/ a # NoAddress /\ pdn' = MapAssign(pdn, t, [new EXCEPT !.seid = t])
      \/ pdn' = MapAssign(pdn, t, new)
  BY <1>1 DEF CreateSessionRequest, NextTeid
<1>5. \A b \in DynamicAddresses : RouteOf(b)' = RouteOf(b)
  BY <1>3, SameRoutes DEF SameCps
<1>6. new.addr = a /\ new.seid = NoSeid
  BY <1>1 DEF PdnConnection
<1>7. DOMAIN pdn' = DOMAIN pdn \cup {t} /\ \A u \in DOMAIN pdn : pdn'[u] = pdn[u]
  BY <1>2, <1>4 DEF MapAssign
<1>8. CASE a # NoAddress /\ pdn' = MapAssign(pdn, t, [new EXCEPT !.seid = t])
  <2>1. pdn'[t].addr = a /\ pdn'[t].seid = t
    BY <1>1, <1>8 DEF MapAssign, PdnConnection
  <2>2. Established' = Established \cup {t}
    BY <1>2, <1>7, <2>1 DEF Established
  <2>3. \A u \in Established : u # t /\ pdn'[u].addr = pdn[u].addr
    BY <1>2, <1>7 DEF Established
  <2>4. ASSUME NEW b \in DynamicAddresses, b # a PROVE HolderOf(b)' = HolderOf(b)
    <3>1. Holders(b)' = Holders(b)
      BY <2>1, <2>2, <2>3, <2>4 DEF Holders
    <3> QED  BY <3>1, HolderFound
  <2>5. CASE a \in DynamicAddresses
    <3>1. \A u \in Established : pdn[u].addr # a
      <4>1. a \in FreeBits(alloc)
        BY <1>1, <2>5, PaaGiven, StaticsPastPool
      <4> QED  BY <4>1 DEF IInv, Pool, PoolAgrees
    <3>2. Holders(a) = {} /\ Holders(a)' = {t}
      BY <2>1, <2>2, <2>3, <3>1 DEF Holders
    <3>3. HolderOf(a) = 0 /\ HolderOf(a)' = t
      BY <3>2, HolderFound, OneHolder
    <3>4. t \in 1..MaxRequests
      BY <1>1, <1>3, NamesAssumption DEF IInv, Shapes
    <3>5. Leases!Lease(a, t)
      BY <1>5, <2>4, <2>5, <3>3, <3>4, SeenLease
    <3> QED  BY <2>5, <3>4, <3>5 DEF LeasesStep, Leases!Next
  <2>6. CASE a \notin DynamicAddresses
    BY <1>5, <2>4, <2>6, LeasesSame DEF LeasesStep
  <2> QED  BY <2>5, <2>6
<1>9. CASE pdn' = MapAssign(pdn, t, new)
  <2>1. Established' = Established
    BY <1>2, <1>6, <1>7, <1>9 DEF MapAssign, Established
  <2>2. ASSUME NEW b \in DynamicAddresses PROVE HolderOf(b)' = HolderOf(b)
    <3>1. Holders(b)' = Holders(b)
      BY <1>7, <2>1 DEF Holders, Established
    <3> QED  BY <3>1, HolderFound
  <2> QED  BY <1>5, <2>2, LeasesSame DEF LeasesStep
<1> QED  BY <1>4, <1>8, <1>9

\* The handlers of PGW-C that keep every connection and its address.
LEMMA PgwcKeepsLeases ==
  ASSUME IInv,
         \/ \E t \in told :
              \/ \E fteid \in EnbFteids : ModifyBearerRequest(t, fteid)
              \/ ReleaseAccessBearersRequest(t)
              \/ DeleteSessionRequest(t)
              \/ DownlinkDataNotificationAcknowledge(t)
         \/ \E m \in sx :
              \/ HandleEstablishmentResponse(m)
              \/ HandleModificationResponse(m)
              \/ HandleReportRequest(m)
  PROVE  LeasesStep
<1>1. SameCps /\ UNCHANGED ue_ip
  BY DEF SameCps, upf, ModifyBearerRequest, ReleaseAccessBearersRequest, DeleteSessionRequest,
         DownlinkDataNotificationAcknowledge, HandleEstablishmentResponse,
         HandleModificationResponse, HandleReportRequest, Start
<1>2. pdn \in [DOMAIN pdn -> PdnRecords]
  BY DEF IInv, Shapes
<1>3. ASSUME NEW t, \E fteid \in EnbFteids : ModifyBearerRequest(t, fteid)
      PROVE  SameAddresses
  <2>1. pdn' = [pdn EXCEPT ![t].dl = TRUE]
    BY <1>3 DEF ModifyBearerRequest
  <2> QED  BY <1>2, <2>1 DEF SameAddresses, PdnRecords
<1>4. ASSUME NEW t, ReleaseAccessBearersRequest(t) PROVE SameAddresses
  <2>1. pdn' = [pdn EXCEPT ![t] = [pdn[t] EXCEPT !.released = TRUE]]
    BY <1>4 DEF ReleaseAccessBearersRequest, ReleasedBearer
  <2> QED  BY <1>2, <2>1 DEF SameAddresses, PdnRecords
<1>5. ASSUME NEW m, HandleEstablishmentResponse(m) PROVE SameAddresses
  <2>1. PICK t : t = ProcOf(m).pdn
    OBVIOUS
  <2>2. pdn' = [pdn EXCEPT ![t].up_fseid = m.up]
    BY <1>5, <2>1 DEF HandleEstablishmentResponse
  <2> QED  BY <1>2, <2>2 DEF SameAddresses, PdnRecords
<1>6. ASSUME NEW m, HandleModificationResponse(m) PROVE SameAddresses
  <2>1. PICK p, t : p = ProcOf(m) /\ t = p.pdn
    OBVIOUS
  <2>2. \/ pdn' = pdn
        \/ pdn' = [pdn EXCEPT ![t].sgw_fteid = p.fteid, ![t].released = FALSE]
        \/ pdn' = [pdn EXCEPT ![t].sgw_fteid = p.fteid]
    BY <1>6, <2>1 DEF HandleModificationResponse
  <2> QED  BY <1>2, <2>2 DEF SameAddresses, PdnRecords
<1>7. ASSUME UNCHANGED pdn PROVE SameAddresses
  BY <1>7 DEF SameAddresses
<1>8. SameAddresses
  BY <1>3, <1>4, <1>5, <1>6, <1>7
     DEF DeleteSessionRequest, DownlinkDataNotificationAcknowledge, HandleReportRequest
<1> QED  BY SMTT(60), <1>1, <1>8, NoLeaseStep

\* A session of SPGW-U that is new has no route yet.
LEMMA EstablishStep ==
  ASSUME IInv, NEW m, HandleEstablishment(m)
  PROVE  LeasesStep
<1>1. PICK s : s = up_seid + 1
  OBVIOUS
<1>2. sessions' = MapAssign(sessions, s, Session(m.cp)) /\ UNCHANGED <<pdn, ue_ip>>
  BY <1>1 DEF HandleEstablishment, pgwc
<1>3. s \notin DOMAIN sessions
  BY <1>1 DEF IInv, Sessions, Shapes
<1>4. DOMAIN sessions' = DOMAIN sessions \cup {s} /\ \A r \in DOMAIN sessions : sessions'[r] = sessions[r]
  BY <1>2, <1>3 DEF MapAssign
<1>5. \A b \in DynamicAddresses : HolderOf(b)' = HolderOf(b)
  BY <1>2, SameHolders DEF SameAddresses
<1>6. ASSUME NEW b \in DynamicAddresses PROVE RouteOf(b)' = RouteOf(b)
  <2>1. CASE b \in DOMAIN ue_ip
    <3>1. ue_ip[b] # s
      BY <1>1, <1>3, <2>1 DEF IInv, Routes, Live, Stale, Shapes
    <3> QED  BY <1>2, <1>4, <2>1, <3>1 DEF RouteOf
  <2>2. CASE b \notin DOMAIN ue_ip
    BY <1>2, <2>2 DEF RouteOf
  <2> QED  BY <2>1, <2>2
<1> QED  BY <1>5, <1>6, LeasesSame DEF LeasesStep

\* The other steps of SPGW-U make no route.
LEMMA UpfStep ==
  ASSUME IInv,
         \/ \E m \in sx : HandleModification(m) \/ HandleDeletion(m)
         \/ \E h \in modifying : EnterRules(h) /\ UpdateRules(h)
         \/ \E s \in DOMAIN sessions : CleanSessionUp(s)
         \/ EraseSession
         \/ \E a \in DOMAIN ue_ip : PacketInCore(a)
  PROVE  LeasesStep
<1>1. sessions \in [DOMAIN sessions -> SessionRecords]
  BY DEF IInv, Shapes
<1>2. ASSUME NEW m \in sx, HandleModification(m) PROVE LeasesStep
  BY <1>2, NoLeaseStep DEF HandleModification, pgwc, SameAddresses, SameCps
<1>3. ASSUME NEW m \in sx, HandleDeletion(m) PROVE LeasesStep
  <2>1. /\ UNCHANGED pdn
        /\ \/ /\ ue_ip' = MapErase(ue_ip, sessions[m.seid].addr)
              /\ sessions' = MapErase(sessions, m.seid)
           \/ UNCHANGED <<sessions, ue_ip>>
    BY <1>3 DEF HandleDeletion, CleanRoutes, pgwc
  <2>2. /\ DOMAIN sessions' \subseteq DOMAIN sessions
        /\ \A s \in DOMAIN sessions' : sessions'[s] = sessions[s]
        /\ \A a \in DOMAIN ue_ip' : a \in DOMAIN ue_ip /\ ue_ip'[a] = ue_ip[a]
    BY <2>1 DEF MapErase
  <2> QED  BY <2>1, <2>2, DropStep
<1>4. ASSUME NEW h \in modifying, EnterRules(h), UpdateRules(h) PROVE LeasesStep
  <2>1. UNCHANGED pgwc /\ UNCHANGED ue_ip
    BY Zenon, <1>4 DEF EnterRules, UpdateRules
  <2>2. UNCHANGED pdn
    BY <2>1 DEF pgwc
  <2>3. SameCps
    BY Zenon, <1>1, <1>4 DEF UpdateRules, SameCps, SessionRecords
  <2> QED  BY <2>1, <2>2, <2>3, NoLeaseStep DEF SameAddresses
<1>5. ASSUME NEW s \in DOMAIN sessions, CleanSessionUp(s) PROVE LeasesStep
  <2>1. /\ UNCHANGED pdn /\ ue_ip' = MapErase(ue_ip, sessions[s].addr)
        /\ sessions' = [sessions EXCEPT ![s] = CleanSession(@.cp)]
    BY <1>5 DEF CleanSessionUp, CleanRoutes, pgwc
  <2>2. DOMAIN sessions' = DOMAIN sessions /\ \A r \in DOMAIN sessions : sessions'[r].cp = sessions[r].cp
    BY <1>1, <2>1 DEF CleanSession, Session
  <2>3. \A a \in DOMAIN ue_ip' : a \in DOMAIN ue_ip /\ ue_ip'[a] = ue_ip[a]
    BY <2>1 DEF MapErase
  <2> QED  BY <2>1, <2>2, <2>3, DropStep
<1>6. CASE EraseSession
  <2>1. UNCHANGED <<pdn, ue_ip>> /\ sessions' = MapErase(sessions, deleting)
    BY <1>6 DEF EraseSession, pgwc
  <2>2. DOMAIN sessions' \subseteq DOMAIN sessions /\ \A s \in DOMAIN sessions' : sessions'[s] = sessions[s]
    BY <2>1 DEF MapErase
  <2> QED  BY <2>1, <2>2, DropStep
<1>7. ASSUME NEW a \in DOMAIN ue_ip, PacketInCore(a) PROVE LeasesStep
  <2>1. PICK s : s = ue_ip[a]
    OBVIOUS
  <2>2. sessions' = [sessions EXCEPT ![s].notified = TRUE] /\ UNCHANGED <<pdn, ue_ip>>
    BY <1>7, <2>1 DEF PacketInCore
  <2>3. SameCps /\ SameAddresses
    BY <1>1, <2>2 DEF SameCps, SameAddresses, SessionRecords
  <2> QED  BY <2>2, <2>3, NoLeaseStep
<1> QED  BY <1>2, <1>3, <1>4, <1>5, <1>6, <1>7

\* Every step is one of AddressLeases, or none.
LEMMA StepKeepsLeases ==
  ASSUME IInv, StaticsPastPool, [Next]_vars
  PROVE  LeasesStep
<1>1. CASE \E imsi \in IMSIs, static \in Statics \cup {NoAddress}, up_node \in BOOLEAN :
             CreateSessionRequest(imsi, static, up_node)
  BY <1>1, CreateStep, StaticsPastPool
<1>2. CASE \/ \E t \in told :
                \/ \E fteid \in EnbFteids : ModifyBearerRequest(t, fteid)
                \/ ReleaseAccessBearersRequest(t)
                \/ DeleteSessionRequest(t)
                \/ DownlinkDataNotificationAcknowledge(t)
           \/ \E m \in sx :
                \/ HandleEstablishmentResponse(m)
                \/ HandleModificationResponse(m)
                \/ HandleReportRequest(m)
  BY <1>2, PgwcKeepsLeases
<1>3. CASE \E m \in sx : HandleEstablishment(m)
  BY <1>3, EstablishStep
<1>4. ASSUME NEW h \in modifying, EnterRules(h), CreateRules(h) PROVE LeasesStep
  BY <1>4, CreateRulesStep
<1>5. CASE \E m \in sx : HandleDeletionResponse(m)
  BY <1>5, ReturnStep, StaticsPastPool
<1>6. CASE \/ \E m \in sx : HandleModification(m) \/ HandleDeletion(m)
           \/ \E h \in modifying : EnterRules(h) /\ UpdateRules(h)
           \/ \E s \in DOMAIN sessions : CleanSessionUp(s)
           \/ EraseSession
           \/ \E a \in DOMAIN ue_ip : PacketInCore(a)
  BY <1>6, UpfStep
<1>7. CASE UNCHANGED vars
  BY <1>7, NoLeaseStep DEF vars, pgwc, upf, SameAddresses, SameCps
<1>8. ASSUME NEW h \in modifying, EnterRules(h) PROVE LeasesStep
  BY <1>4, <1>6, <1>8 DEF EnterRules
<1> QED  BY <1>1, <1>2, <1>3, <1>5, <1>6, <1>7, <1>8 DEF Next

\* PGW-C and SPGW-U together keep the leases: an address of the pool has one holder,
\* packets for it go to its holder only, and it goes back to the pool only when no
\* packet is routed by it, whatever is lost, late or out of order between the two.
THEOREM Implements ==
  ASSUME StaticsPastPool
  PROVE  Spec => LeasesKept
<1>1. Init => Leases!Init
  <2>1. SUFFICES ASSUME Init PROVE Leases!Init
    OBVIOUS
  <2>2. Established = {} /\ DOMAIN ue_ip = {}
    BY <2>1 DEF Init, EmptyMap, Established
  <2>3. ASSUME NEW a \in DynamicAddresses PROVE HolderOf(a) = 0 /\ RouteOf(a) = 0
    <3>1. Holders(a) = {}
      BY <2>2 DEF Holders
    <3> QED  BY <2>2, <3>1, HolderFound, OneHolder DEF RouteOf
  <2> QED  BY <2>3 DEF Leases!Init, DynamicAddresses
<1>2. IInv /\ [Next]_vars => [Leases!Next]_<<holderBar, routeBar>>
  BY StepKeepsLeases, StaticsPastPool DEF LeasesStep
<1>3. /\ holderBar = [a \in DynamicAddresses |-> HolderOf(a)]
      /\ routeBar = [a \in DynamicAddresses |-> RouteOf(a)]
  BY DEF holderBar, routeBar
<1> QED  BY <1>1, <1>2, <1>3, Invariance, StaticsPastPool, PTL
         DEF Spec, LeasesKept, Leases!Spec, holderBar, routeBar
==============================================================================
