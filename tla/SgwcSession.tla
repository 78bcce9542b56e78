----------------------------- MODULE SgwcSession ------------------------------
(***************************************************************************)
(* The SGW-C application (oai_spgwc/sgwc_app.cpp, sgwc_eps_bearer_context,  *)
(* sgwc_procedure): the bearer context of a UE, its PDN connections, the    *)
(* tables that lead to them, and the procedures that wait for PGW-C.        *)
(*                                                                         *)
(* One task runs all handlers, so a handler is a step. What varies is the   *)
(* order of the requests of the MME (S11) and of the ends of the requests   *)
(* this node made of PGW-C (S5/S8). The stack of S5/S8 promises that each   *)
(* of these ends once: with a response, or as "remote peer not responding"  *)
(* (RequestReply).                                                         *)
(*                                                                         *)
(* A context and a PDN connection are named by the TEID they are given when *)
(* they are made. A PDN connection has one bearer, its default bearer: each *)
(* create request of the MME carries one, and PGW-C never removes one. The  *)
(* first bearer context, the F-TEIDs and the IMSI of a request are valid,   *)
(* and so are the responses of PGW-C: an accepted create response has a     *)
(* valid F-TEID of PGW-C (sgwc_app.cpp:608-623 ignores any other and leaves *)
(* the connection half open), a modify response has a cause                 *)
(* (sgwc_procedure.cpp:735). The PGW-C of this repository sends no others.  *)
(* A request that a handler only logs is no step.                           *)
(***************************************************************************)
EXTENDS Naturals, SequencesExt, StdMap

CONSTANTS
  IMSIs,
  APNs,          \* numbers for the pairs (APN, PDN type), in the order of the map
  EBIs,          \* EPS bearer identities
  LinkedEbis,    \* what a delete request may carry: an EBI, or NoEbi
  EnbFteids,     \* F-TEIDs of eNBs on S1-U
  MaxRequests    \* bound: requests of the MME and notifications of PGW-C

NoEbi   == 0
NoFteid == 0
NoTeid  == 0

ASSUME NamesAssumption ==
  /\ APNs \subseteq Nat
  /\ EBIs \subseteq Nat \ {NoEbi}
  /\ LinkedEbis \subseteq EBIs \cup {NoEbi}
  /\ EnbFteids \subseteq Nat \ {NoFteid}

ASSUME BoundsAssumption == MaxRequests \in Nat

VARIABLES
  imsi2sgw_eps_bearer_context,      \* map: IMSI -> context
  s11lteid2sgw_eps_bearer_context,  \* map: S11 TEID -> context
  s5s8lteid2sgw_contexts,           \* map: S5/S8 TEID -> context of that connection
  ebc,           \* the sgw_eps_bearer_context objects
  pdn,           \* the sgw_pdn_connection objects
  teid_s11_cp, teid_s5s8_cp,        \* the last TEIDs given
  uid,           \* the last transaction id given
  s5s8,          \* the requests made of PGW-C that have not ended
  requests,      \* history: requests of the MME and notifications so far
  unnamed,       \* history: delete requests that named no bearer
  told,          \* history: S11 TEIDs the MME has received
  answers,       \* history: transaction of the MME -> responses sent
  made,          \* history: PDN connection -> transaction that made it
  path           \* history: PDN connection -> F-TEID PGW-C accepted last

tables == <<imsi2sgw_eps_bearer_context, s11lteid2sgw_eps_bearer_context>>
teids  == <<teid_s11_cp, teid_s5s8_cp>>
vars   == <<tables, s5s8lteid2sgw_contexts, ebc, pdn, teids, uid, s5s8,
            requests, unnamed, told, answers, made, path>>

Context(imsi, conns, procs) ==
  [imsi |-> imsi, pdn_connections |-> conns, pending_procedures |-> procs]

PdnConnection(apn, ebi) ==
  [apn |-> apn, default_bearer |-> ebi, enb_fteid_s1u |-> NoFteid, pgw |-> NoTeid]

\* The procedures. tx is gtpc_tx_id; bearers of a release are only counted, the
\* handler takes the first whatever connection answers.
CreateProc(tx)       == [type |-> "create", tx |-> tx]
DeleteProc(tx, t)    == [type |-> "delete", tx |-> tx, pdn |-> t]
ModifyProc(tx, b)    == [type |-> "modify", tx |-> tx, pdn_bearers |-> b]
ReleaseProc(tx, n)   == [type |-> "release", tx |-> tx, bearers |-> n]
NotificationProc(tx) == [type |-> "ddn", tx |-> tx]

\* A request to PGW-C about PDN connection t. pgw names the session of PGW-C it
\* is addressed to, enb the F-TEID it asks for.
ToPgw(type, tx, t, pgw, enb) ==
  [type |-> type, tx |-> tx, teid |-> t, pgw |-> pgw, enb |-> enb]

Conns(c) == ebc[c].pdn_connections
Procs(c) == ebc[c].pending_procedures

\* find_procedure: the index of the first with this transaction, or 0.
HasTrxnId(p, tx) ==
  \/ p.tx = tx
  \/ p.type = "modify" /\ \E b \in p.pdn_bearers : b.tx = tx
FindProcedure(c, tx) == SelectInSeq(Procs(c), LAMBDA p : HasTrxnId(p, tx))

\* find_pdn_connection(ebi): the first with this bearer, or none.
FindPdnConnection(c, ebi) ==
  LET hits == {a \in DOMAIN Conns(c) : pdn[Conns(c)[a]].default_bearer = ebi}
  IN IF hits = {} THEN {} ELSE {Conns(c)[CHOOSE a \in hits : \A b \in hits : a <= b]}

\* The next transaction of the MME.
Tx == uid + 1

\* Mutants: the generator increments after, or gives the lowest TEID that is free.
NextS5s8TeidPost == teid_s5s8_cp
NextS5s8TeidLowest ==
  CHOOSE t \in 1..teid_s5s8_cp + 1 :
    /\ t \notin DOMAIN s5s8lteid2sgw_contexts
    /\ \A u \in 1..t - 1 : u \in DOMAIN s5s8lteid2sgw_contexts

\* The TEIDs given next; 32 bits do not wrap within the bounds.
NextS11Teid  == teid_s11_cp + 1
NextS5s8Teid == teid_s5s8_cp + 1

\* The MME makes a request, or PGW-C.
Asks ==
  /\ requests < MaxRequests
  /\ requests' = requests + 1
  /\ UNCHANGED told
Request == Asks /\ UNCHANGED unnamed

\* A response on S11 to transaction tx.
Answer(tx) ==
  answers' = MapAssign(answers, tx, IF tx \in DOMAIN answers THEN answers[tx] + 1 ELSE 1)

Init ==
  /\ imsi2sgw_eps_bearer_context = EmptyMap
  /\ s11lteid2sgw_eps_bearer_context = EmptyMap
  /\ s5s8lteid2sgw_contexts = EmptyMap
  /\ ebc = EmptyMap /\ pdn = EmptyMap
  /\ teid_s11_cp = 0 /\ teid_s5s8_cp = 0 /\ uid = 0
  /\ s5s8 = {}
  /\ requests = 0 /\ unnamed = {} /\ told = {}
  /\ answers = EmptyMap /\ made = EmptyMap /\ path = EmptyMap

------------------------------------------------------------------------------
(* Create session request *)

\* The header names an S11 TEID of no context.
RefuseCreate(teid) ==
  /\ teid \notin DOMAIN s11lteid2sgw_eps_bearer_context
  /\ Request
  /\ uid' = Tx
  /\ Answer(Tx)
  /\ UNCHANGED <<tables, s5s8lteid2sgw_contexts, ebc, pdn, teids, s5s8, made, path>>

\* Mutant: the TEID of a connection that was deleted stays in the table.
InsertPdnConnectionKeepsTeid(c, t, a, ebi, gone) ==
  /\ teid_s5s8_cp' = t
  /\ pdn' = MapAssign([u \in DOMAIN pdn \ gone |-> pdn[u]], t, PdnConnection(a, ebi))
  /\ s5s8lteid2sgw_contexts' = MapAssign(s5s8lteid2sgw_contexts, t, c)
  /\ made' = MapAssign(made, t, Tx)
  /\ path' = MapAssign(path, t, NoFteid)

\* create_session_request_procedure::run makes connection t of context c for
\* APN a, in objects and tables from which connections "gone" were deleted.
InsertPdnConnection(c, t, a, ebi, gone) ==
  /\ teid_s5s8_cp' = t
  /\ pdn' = MapAssign([u \in DOMAIN pdn \ gone |-> pdn[u]], t, PdnConnection(a, ebi))
  /\ s5s8lteid2sgw_contexts' =
       MapAssign([u \in DOMAIN s5s8lteid2sgw_contexts \ gone |->
                    s5s8lteid2sgw_contexts[u]], t, c)
  /\ made' = MapAssign(made, t, Tx)
  /\ path' = MapAssign(path, t, NoFteid)

\* The first create request of a subscriber.
CreateFirst(imsi, a, ebi) ==
  LET c == NextS11Teid  t == NextS5s8Teid IN
  /\ imsi \notin DOMAIN imsi2sgw_eps_bearer_context
  /\ Request
  /\ uid' = Tx
  /\ teid_s11_cp' = c
  /\ imsi2sgw_eps_bearer_context' = MapAssign(imsi2sgw_eps_bearer_context, imsi, c)
  /\ s11lteid2sgw_eps_bearer_context' = MapAssign(s11lteid2sgw_eps_bearer_context, c, c)
  /\ ebc' = MapAssign(ebc, c, Context(imsi, MapAssign(EmptyMap, a, t), <<CreateProc(Tx)>>))
  /\ InsertPdnConnection(c, t, a, ebi, {})
  /\ s5s8' = s5s8 \cup {ToPgw("create", Tx, t, NoTeid, NoFteid)}
  /\ UNCHANGED <<answers>>

\* A create request for context c, which collides with the connections in
\* "hit" (one or none). The application passes the context a delete request
\* with the default transaction 0, deletes the connection, and goes on. The
\* procedure fails, without a response, if the APN has a connection left.
CreateInContext(c, a, ebi, hit) ==
  LET t        == NextS5s8Teid
      conns    == [b \in {x \in DOMAIN Conns(c) : Conns(c)[x] \notin hit} |-> Conns(c)[b]]
      emulated == IF FindProcedure(c, 0) = 0 THEN hit ELSE {}
      procs    == Procs(c) \o SetToSeq({DeleteProc(0, u) : u \in emulated})
      deletes  == {ToPgw("delete", 0, u, pdn[u].pgw, NoFteid) : u \in emulated}
      free     == a \notin DOMAIN conns
  IN /\ hit # {} \/ free
     /\ Request
     /\ uid' = Tx
     /\ \/ /\ free
           /\ ebc' = [ebc EXCEPT
                 ![c].pdn_connections = MapAssign(conns, a, t),
                 ![c].pending_procedures = Append(procs, CreateProc(Tx))]
           /\ InsertPdnConnection(c, t, a, ebi, hit)
           /\ s5s8' = s5s8 \cup deletes \cup {ToPgw("create", Tx, t, NoTeid, NoFteid)}
        \/ /\ ~free
           /\ ebc' = [ebc EXCEPT ![c].pdn_connections = conns,
                                 ![c].pending_procedures = procs]
           /\ pdn' = [u \in DOMAIN pdn \ hit |-> pdn[u]]
           /\ s5s8lteid2sgw_contexts' =
                [u \in DOMAIN s5s8lteid2sgw_contexts \ hit |-> s5s8lteid2sgw_contexts[u]]
           /\ s5s8' = s5s8 \cup deletes
           /\ UNCHANGED <<teid_s5s8_cp, made, path>>
     /\ UNCHANGED <<tables, teid_s11_cp, answers>>

\* With the IMSI of a known subscriber; the TEID of the header is not used.
CreateForKnown(imsi, a, ebi) ==
  /\ imsi \in DOMAIN imsi2sgw_eps_bearer_context
  /\ LET c == imsi2sgw_eps_bearer_context[imsi]
     IN CreateInContext(c, a, ebi, FindPdnConnection(c, ebi))

\* Without an IMSI, by the TEID of the header; nothing looks for a collision.
CreateWithoutImsi(teid, a, ebi) ==
  /\ teid \in DOMAIN s11lteid2sgw_eps_bearer_context
  /\ CreateInContext(s11lteid2sgw_eps_bearer_context[teid], a, ebi, {})

------------------------------------------------------------------------------
(* The other requests of the MME, for the context of an S11 TEID *)

\* Delete session request with the operation indication: one procedure for the
\* connection of the bearer it names, or for every connection when it names
\* none. All carry the transaction of the request.
DeleteSessionRequest(teid, ebi) ==
  /\ teid \in DOMAIN s11lteid2sgw_eps_bearer_context
  /\ LET c         == s11lteid2sgw_eps_bearer_context[teid]
         to_delete == IF ebi = NoEbi THEN {Conns(c)[a] : a \in DOMAIN Conns(c)}
                                     ELSE FindPdnConnection(c, ebi)
         \* the k-th connection in the order of the map
         Nth(k)    == CHOOSE t \in to_delete :
                        k = Cardinality({u \in to_delete : pdn[u].apn <= pdn[t].apn})
         procs     == [k \in 1..Cardinality(to_delete) |-> DeleteProc(Tx, Nth(k))]
     IN /\ to_delete # {}
        /\ ebc' = [ebc EXCEPT ![c].pending_procedures = @ \o procs]
        /\ s5s8' = s5s8 \cup {ToPgw("delete", Tx, t, pdn[t].pgw, NoFteid) : t \in to_delete}
  /\ Asks
  /\ unnamed' = IF ebi = NoEbi THEN unnamed \cup {Tx} ELSE unnamed
  /\ uid' = Tx
  /\ UNCHANGED <<tables, s5s8lteid2sgw_contexts, pdn, teids, answers, made, path>>

\* Modify bearer request; "to" maps the bearers to be modified to F-TEIDs of
\* the eNB. A bearer whose F-TEID is the one stored is not passed on. Each
\* connection that has bearers left gets a request with its own transaction.
ModifyBearerRequest(teid, to) ==
  /\ teid \in DOMAIN s11lteid2sgw_eps_bearer_context
  /\ Request
  /\ LET c       == s11lteid2sgw_eps_bearer_context[teid]
         known   == UNION {FindPdnConnection(c, e) : e \in DOMAIN to}
         New(t)  == to[pdn[t].default_bearer]
         xied    == {t \in known : New(t) # pdn[t].enb_fteid_s1u}
         TxOf(t) == Tx + Cardinality({u \in xied : u <= t})
     IN IF xied = {}
        THEN /\ Answer(Tx)
             /\ uid' = Tx
             /\ UNCHANGED <<ebc, pdn, s5s8>>
        ELSE /\ ebc' = [ebc EXCEPT ![c].pending_procedures =
                  Append(@, ModifyProc(Tx, {[tx |-> TxOf(t), pdn |-> t] : t \in xied}))]
             /\ pdn' = [t \in DOMAIN pdn |-> IF t \in xied
                  THEN [pdn[t] EXCEPT !.enb_fteid_s1u = New(t)] ELSE pdn[t]]
             /\ s5s8' = s5s8 \cup
                  {ToPgw("modify", TxOf(t), t, pdn[t].pgw, New(t)) : t \in xied}
             /\ uid' = Tx + Cardinality(xied)
             /\ UNCHANGED answers
  /\ UNCHANGED <<tables, s5s8lteid2sgw_contexts, teids, made, path>>

\* Release access bearers request: one request for each connection, all with
\* the transaction of the request of the MME.
ReleaseAccessBearersRequest(teid) ==
  /\ teid \in DOMAIN s11lteid2sgw_eps_bearer_context
  /\ Request
  /\ uid' = Tx
  /\ LET c     == s11lteid2sgw_eps_bearer_context[teid]
         conns == {Conns(c)[a] : a \in DOMAIN Conns(c)}
     IN IF conns = {}
        THEN Answer(Tx) /\ UNCHANGED <<ebc, s5s8>>
        ELSE /\ ebc' = [ebc EXCEPT ![c].pending_procedures =
                          Append(@, ReleaseProc(Tx, Cardinality(conns)))]
             /\ s5s8' = s5s8 \cup {ToPgw("release", Tx, t, pdn[t].pgw, NoFteid) : t \in conns}
             /\ UNCHANGED answers
  /\ UNCHANGED <<tables, s5s8lteid2sgw_contexts, pdn, teids, made, path>>

------------------------------------------------------------------------------
(* The ends of the requests made of PGW-C                                   *)
(* A message about a connection that is gone, or whose transaction no       *)
(* procedure of its context has, is ignored.                               *)

Awaited(x) ==
  /\ x.teid \in DOMAIN s5s8lteid2sgw_contexts
  /\ FindProcedure(s5s8lteid2sgw_contexts[x.teid], x.tx) # 0

End(x) == s5s8' = s5s8 \ {x}

\* What every end leaves alone; none of them takes a TEID or a transaction.
Kept == UNCHANGED <<teids, uid, requests, unnamed, made>>

IgnoreEnd(x) ==
  /\ End(x)
  /\ UNCHANGED <<tables, s5s8lteid2sgw_contexts, ebc, pdn, told, answers>>
  /\ Kept

\* Mutant: all procedures of its transaction are removed.
WithoutProcedureAll(x) ==
  SelectSeq(Procs(s5s8lteid2sgw_contexts[x.teid]), LAMBDA p : ~HasTrxnId(p, x.tx))

\* find_procedure and remove_procedure of the procedure that awaits x.
WithoutProcedure(x) ==
  LET c == s5s8lteid2sgw_contexts[x.teid]
  IN RemoveAt(Procs(c), FindProcedure(c, x.tx))

\* 0 == get_num_pdn_connections()
Unused(conns) == conns = EmptyMap

\* Connection t is deleted, the pending procedures become procs, and a context
\* without connections is released.
EndPdn(t, procs) ==
  LET c     == s5s8lteid2sgw_contexts[t]
      conns == MapErase(Conns(c), pdn[t].apn)
  IN /\ pdn' = MapErase(pdn, t)
     /\ s5s8lteid2sgw_contexts' = MapErase(s5s8lteid2sgw_contexts, t)
     /\ \/ /\ ~Unused(conns)
           /\ ebc' = [ebc EXCEPT ![c] = Context(ebc[c].imsi, conns, procs)]
           /\ UNCHANGED tables
        \/ /\ Unused(conns)
           /\ ebc' = MapErase(ebc, c)
           /\ imsi2sgw_eps_bearer_context' =
                MapErase(imsi2sgw_eps_bearer_context, ebc[c].imsi)
           /\ s11lteid2sgw_eps_bearer_context' =
                MapErase(s11lteid2sgw_eps_bearer_context, c)

\* Only the pending procedures change.
EndProcedure(x, procs) ==
  /\ ebc' = [ebc EXCEPT ![s5s8lteid2sgw_contexts[x.teid]].pending_procedures = procs]
  /\ UNCHANGED <<tables, s5s8lteid2sgw_contexts>>

\* Every response to a create carries the S11 TEID of the context.
AnswerCreate(x) ==
  /\ Answer(x.tx)
  /\ told' = told \cup {s5s8lteid2sgw_contexts[x.teid]}

\* An accepted create makes a session of PGW-C, which pgw names by the
\* transaction that made it; any other cause ends the connection.
CreateResponse(x, accepted) ==
  /\ x.type = "create"
  /\ UNCHANGED path
  /\ \/ ~Awaited(x) /\ IgnoreEnd(x)
     \/ /\ Awaited(x)
        /\ End(x) /\ Kept
        /\ AnswerCreate(x)
        /\ IF accepted
           THEN /\ pdn' = [pdn EXCEPT ![x.teid].pgw = x.tx]
                /\ EndProcedure(x, WithoutProcedure(x))
           ELSE EndPdn(x.teid, WithoutProcedure(x))

\* The connection is deleted whatever the cause of the response.
DeleteResponse(x) ==
  /\ x.type = "delete"
  /\ UNCHANGED path
  /\ \/ ~Awaited(x) /\ IgnoreEnd(x)
     \/ /\ Awaited(x)
        /\ End(x) /\ Kept
        /\ UNCHANGED told
        /\ LET c == s5s8lteid2sgw_contexts[x.teid]
           IN Answer(Procs(c)[FindProcedure(c, x.tx)].tx)
        /\ EndPdn(x.teid, WithoutProcedure(x))

\* Mutant: a response for each connection.
AnswerModifyEach(tx, left) == Answer(tx)

\* The MME is answered after the last connection.
AnswerModify(tx, left) == IF left = {} THEN Answer(tx) ELSE UNCHANGED answers

\* Of a session PGW-C has.
ModifyResponse(x, accepted) ==
  /\ x.type = "modify" /\ x.pgw # NoTeid
  /\ path' = IF accepted THEN MapAssign(path, x.teid, x.enb) ELSE path
  /\ \/ ~Awaited(x) /\ IgnoreEnd(x)
     \/ /\ Awaited(x)
        /\ End(x) /\ Kept
        /\ UNCHANGED <<pdn, told>>
        /\ LET c    == s5s8lteid2sgw_contexts[x.teid]
               k    == FindProcedure(c, x.tx)
               left == {b \in Procs(c)[k].pdn_bearers : b.tx # x.tx}
           IN /\ AnswerModify(Procs(c)[k].tx, left)
              /\ EndProcedure(x, IF left = {} THEN RemoveAt(Procs(c), k)
                                 ELSE [Procs(c) EXCEPT ![k].pdn_bearers = left])

\* Of a session PGW-C has. The procedure stays among the pending ones when the
\* MME has been answered.
ReleaseResponse(x) ==
  /\ x.type = "release" /\ x.pgw # NoTeid
  /\ path' = MapAssign(path, x.teid, NoFteid)
  /\ \/ ~Awaited(x) /\ IgnoreEnd(x)
     \/ /\ Awaited(x)
        /\ End(x) /\ Kept
        /\ UNCHANGED <<pdn, told>>
        /\ LET c == s5s8lteid2sgw_contexts[x.teid]
               k == FindProcedure(c, x.tx)
           IN /\ EndProcedure(x, [Procs(c) EXCEPT ![k].bearers = @ - 1])
              /\ IF Procs(c)[k].bearers = 1 THEN Answer(x.tx) ELSE UNCHANGED answers

\* Mutant: a create does not carry it either.
CarriesLocalTeidNoCreate(x) == x.type \notin {"release", "create"}

\* The request told the stack its l_teid, which remote_peer_not_responding needs.
CarriesLocalTeid(x) == x.type # "release"

\* The stack of S5/S8 gave up. A create is answered and its connection deleted;
\* of the other procedures nothing is left.
NotResponding(x) ==
  /\ UNCHANGED path
  /\ \/ ~(CarriesLocalTeid(x) /\ Awaited(x)) /\ IgnoreEnd(x)
     \/ /\ CarriesLocalTeid(x) /\ Awaited(x)
        /\ End(x) /\ Kept
        /\ IF x.type = "create"
           THEN AnswerCreate(x) /\ EndPdn(x.teid, WithoutProcedure(x))
           ELSE EndProcedure(x, WithoutProcedure(x)) /\ UNCHANGED <<pdn, told, answers>>

------------------------------------------------------------------------------
(* Downlink data notification, from PGW-C; it passes the notification on to  *)
(* the MME. Nothing removes the procedure.                                  *)

DownlinkDataNotification(t) ==
  /\ t \in DOMAIN s5s8lteid2sgw_contexts
  /\ Request
  /\ uid' = Tx
  /\ LET c == s5s8lteid2sgw_contexts[t]
     IN ebc' = [ebc EXCEPT ![c].pending_procedures = Append(@, NotificationProc(Tx))]
  /\ UNCHANGED <<tables, s5s8lteid2sgw_contexts, pdn, teids, s5s8, answers, made, path>>

------------------------------------------------------------------------------
EndOfRequest(x) ==
  \/ \E accepted \in BOOLEAN : CreateResponse(x, accepted) \/ ModifyResponse(x, accepted)
  \/ DeleteResponse(x)
  \/ ReleaseResponse(x)
  \/ NotResponding(x)

CreateSessionRequest ==
  \E a \in APNs, ebi \in EBIs :
    \/ \E imsi \in IMSIs : CreateFirst(imsi, a, ebi) \/ CreateForKnown(imsi, a, ebi)
    \/ \E teid \in told : CreateWithoutImsi(teid, a, ebi)

\* Requests of the MME carry a TEID it was given, in use still or not.
Next ==
  \/ CreateSessionRequest
  \/ \E teid \in told :
       \/ RefuseCreate(teid)
       \/ \E ebi \in LinkedEbis : DeleteSessionRequest(teid, ebi)
       \/ \E named \in SUBSET EBIs \ {{}} :
            \E to \in [named -> EnbFteids] : ModifyBearerRequest(teid, to)
       \/ ReleaseAccessBearersRequest(teid)
  \/ \E x \in s5s8 : EndOfRequest(x)
  \/ \E t \in DOMAIN s5s8lteid2sgw_contexts : DownlinkDataNotification(t)

\* The stack of S5/S8 ends every request (Fairness of RequestReply).
Fairness == WF_vars(\E x \in s5s8 : EndOfRequest(x))

Spec == Init /\ [][Next]_vars /\ Fairness

------------------------------------------------------------------------------
(* Properties *)

Live(t) == t \in DOMAIN s5s8lteid2sgw_contexts

TypeOK ==
  /\ DOMAIN imsi2sgw_eps_bearer_context \subseteq IMSIs
  /\ told \subseteq 1..teid_s11_cp
  /\ DOMAIN ebc \subseteq 1..teid_s11_cp /\ DOMAIN pdn \subseteq 1..teid_s5s8_cp
  /\ \A t \in DOMAIN pdn :
       pdn[t] \in [apn : APNs, default_bearer : EBIs,
                  enb_fteid_s1u : EnbFteids \cup {NoFteid}, pgw : 0..uid]
  /\ \A c \in DOMAIN ebc : \A k \in DOMAIN Procs(c) :
       /\ Procs(c)[k].type \in {"create", "delete", "modify", "release", "ddn"}
       /\ Procs(c)[k].tx \in 0..uid
  /\ \A x \in s5s8 :
       x \in [type : {"create", "delete", "modify", "release"}, tx : 0..uid,
             teid : 1..teid_s5s8_cp, pgw : 0..uid, enb : EnbFteids \cup {NoFteid}]

\* The three tables lead to the objects there are and agree with them: a context
\* is found by its IMSI and by its TEID, a connection by its TEID and in its
\* context under its APN. No context stays without a connection, whatever deleted
\* the last one: "A TEID-C on the S11/S4 interface shall be released after all its
\* associated EPS bearers are deleted" (sgwc_app.hpp).
TablesAgree ==
  /\ s11lteid2sgw_eps_bearer_context = [c \in DOMAIN ebc |-> c]
  /\ imsi2sgw_eps_bearer_context =
       [i \in {ebc[c].imsi : c \in DOMAIN ebc} |-> CHOOSE c \in DOMAIN ebc : ebc[c].imsi = i]
  /\ DOMAIN s5s8lteid2sgw_contexts = DOMAIN pdn
  /\ \A t \in DOMAIN pdn :
       LET c == s5s8lteid2sgw_contexts[t]
       IN /\ c \in DOMAIN ebc
          /\ pdn[t].apn \in DOMAIN Conns(c) /\ Conns(c)[pdn[t].apn] = t
  /\ \A c \in DOMAIN ebc : \A a \in DOMAIN Conns(c) :
       Live(Conns(c)[a]) /\ s5s8lteid2sgw_contexts[Conns(c)[a]] = c
  /\ \A c \in DOMAIN ebc : Conns(c) # EmptyMap

\* The end of a request about a live connection finds a procedure, of the type
\* the handler casts it to without looking (dynamic_pointer_cast). Only the
\* procedure of a modify request for several connections goes before its last
\* request ends, when PGW-C does not respond to another.
EndFindsProcedure ==
  \A x \in s5s8 : Live(x.teid) =>
    LET c == s5s8lteid2sgw_contexts[x.teid]
        k == FindProcedure(c, x.tx)
    IN IF k = 0 THEN x.type = "modify" ELSE Procs(c)[k].type = x.type

\* A delete or modify procedure of a live connection is waiting for something:
\* its request to PGW-C is in flight. The procedures of a delete request without
\* a bearer share a transaction; for these it is not so.
ProceduresWait ==
  \A c \in DOMAIN ebc : \A k \in DOMAIN Procs(c) :
    LET p           == Procs(c)[k]
        InFlight(tx, t) == \E x \in s5s8 : x.type = p.type /\ x.tx = tx /\ x.teid = t
    IN /\ p.type = "delete" /\ Live(p.pdn) /\ p.tx \notin unnamed => InFlight(p.tx, p.pdn)
       /\ p.type = "modify" =>
            \A b \in p.pdn_bearers : Live(b.pdn) => InFlight(b.tx, b.pdn)

\* The requests to PGW-C and the procedures they belong to agree both ways, however
\* deletions, collisions, splits and late responses are mixed.
ProceduresAgree == EndFindsProcedure /\ ProceduresWait

\* The MME gets no second response to a request, whichever way its procedure
\* ends. A delete request without a bearer is answered once per connection.
AnsweredOnce == \A tx \in DOMAIN answers : tx \in unnamed \/ answers[tx] = 1

\* A connection is joined to the session of PGW-C that was created for it, not to
\* that of an earlier connection whose response comes late.
OwnSession == \A t \in DOMAIN pdn : pdn[t].pgw \in {NoTeid, made[t]}

\* A connection that waits for PGW-C does not wait for ever: it is deleted, or it
\* has a session and the MME has been answered.
HalfOpenEnds ==
  \A t \in 1..MaxRequests :
    (t \in DOMAIN pdn /\ pdn[t].pgw = NoTeid)
      ~> (t \notin DOMAIN pdn \/ (pdn[t].pgw # NoTeid /\ made[t] \in DOMAIN answers))

\* "Quick fix: emulate reception DSR by SGW on S11": the connection a create
\* request collides with is not deleted without telling PGW-C, if it has a
\* session there.
CollisionTellsPgw ==
  [][requests' # requests =>
       \A t \in DOMAIN pdn \ DOMAIN pdn' : pdn[t].pgw # NoTeid =>
         \E x \in s5s8' : x.type = "delete" /\ x.teid = t]_vars

\* "we have to always fw this req to PGW": a modify request for a connection
\* with a session is passed on, at least if the F-TEID is not the one the
\* session has.
ModifyReachesPgw ==
  [][\A c \in DOMAIN ebc, e \in EBIs, f \in EnbFteids :
       \A t \in FindPdnConnection(c, e) :
         ModifyBearerRequest(c, [b \in {e} |-> f]) /\ path[t] # f =>
           \E x \in s5s8' : x.type = "modify" /\ x.teid = t /\ x.enb = f]_vars

==============================================================================
