----------------------------- MODULE PgwcSession ------------------------------
(***************************************************************************)
(* The sessions of the PDN gateway: the PGW-C application (pgw_app,         *)
(* pgw_context, pgwc_procedure) on S5/S8 and Sxab, the address pool it      *)
(* gives to UEs from, and the sessions, rules and table of UE addresses of  *)
(* SPGW-U (pfcp_switch, pfcp_session).                                      *)
(*                                                                         *)
(* PGW-C handles its messages in one task, so a handler is a step. At       *)
(* SPGW-U two tasks work on the sessions, and nothing locks them:           *)
(* TASK_SPGWU_APP takes the requests one after the other, TASK_SPGWU_SX     *)
(* deletes the sessions of a failed association one by one. A modification  *)
(* is two steps, the session is found and the rules are entered; so is a    *)
(* deletion by TASK_SPGWU_SX, the clean-up and the erasure. The deletion by *)
(* TASK_SPGWU_APP is one, since the other task only removes. A session is   *)
(* used through a pointer that outlives its entry, and folly's maps leave   *)
(* the value of an erased entry alone, so that ~pfcp_session, which cleans  *)
(* up too, does not run. That two tasks change one std::vector or           *)
(* std::unordered_map at the same instant, which C++ leaves undefined, is   *)
(* left out.                                                                *)
(*                                                                         *)
(* Between the nodes are PFCP messages that come in any order or never: the *)
(* stack sends each once (PfcpStack) and no time-out reaches the            *)
(* application. A message that is never taken is a lost one.                *)
(*                                                                         *)
(* A connection is named by the S5/S8 TEID it is made with, which is its    *)
(* SEID too and is never given again within the bounds; so is, here, the    *)
(* TEID of SGW-C, by which some handlers look for it. A context is named by *)
(* its first connection. A connection has one bearer; requests are well     *)
(* formed, for IPv4, and name the bearer; the pool is that of the one APN   *)
(* they are for. SGW-C asks about connections it was told of. A request     *)
(* whose handler changes nothing is no step, nor is one that fails because  *)
(* there is no user plane node, unless it makes a connection.               *)
(***************************************************************************)
EXTENDS PaaPool

CONSTANTS
  IMSIs,
  EnbFteids,      \* F-TEIDs of eNBs, to which SPGW-U sends downlink packets
  Num,            \* addresses of the pool
  Statics,        \* addresses a create request may bring along
  MaxRequests     \* bound: requests of SGW-C

NoAddress == -100
NoFteid   == 0
NoSeid    == 0

ASSUME NamesAssumption ==
  /\ EnbFteids \subseteq Nat \ {NoFteid}
  /\ Num \in Nat
  /\ Statics \subseteq Int \ {NoAddress}
  /\ MaxRequests \in Nat

VARIABLES
  imsi2pgw_context,       \* map: IMSI -> context
  s5s8lteid2pgw_context,  \* map: S5/S8 TEID -> context
  seid2pgw_context,       \* map: SEID -> context; no entry is ever erased
  pc,             \* the pgw_context objects
  pdn,            \* the pgw_pdn_connection objects
  alloc,          \* the bitmap of the pool
  teid, uid,      \* the last TEID and the last transaction id given
  sessions,       \* SPGW-U: SEID -> session
  ue_ip,          \* SPGW-U: map: UE address -> session whose PDR it leads to
  up_seid,        \* SPGW-U: the last SEID given
  modifying,      \* TASK_SPGWU_APP: the modification that has found its session
  deleting,       \* TASK_SPGWU_SX: the session it has cleaned up, but not erased
  sx,             \* the PFCP messages under way, or lost
  requests,       \* history: requests of SGW-C so far
  told,           \* history: connections SGW-C was told of
  overlapped,     \* history: connections of which a procedure met another
  paged           \* history: (context of a packet's address, context notified)

pgwc == <<imsi2pgw_context, s5s8lteid2pgw_context, seid2pgw_context, pc, pdn,
          alloc, teid, uid>>
upf  == <<sessions, ue_ip, up_seid, modifying, deleting>>
vars == <<pgwc, upf, sx, requests, told, overlapped, paged>>

\* apns are the apn_context objects, an object being the set of its connections.
\* The vector of the code has them in the order in which they were made, that of
\* their TEIDs.
Context(imsi) == [imsi |-> imsi, apns |-> {}, pending_procedures |-> {}]

\* addr is ipv4_address; seid is 0 until establishment is asked for, up_fseid
\* until it is answered; dl says that far_id_dl and pdr_id_dl are set;
\* sgw_fteid is the F-TEID stored for downlink.
PdnConnection(addr) ==
  [addr |-> addr, seid |-> NoSeid, up_fseid |-> NoSeid, dl |-> FALSE,
   sgw_fteid |-> NoFteid, released |-> FALSE]

\* A procedure; fteid is the one a modify request asks for.
Proc(type, id, t, fteid) == [type |-> type, id |-> id, pdn |-> t, fteid |-> fteid]

\* A session of SPGW-U: the SEID of PGW-C, the action of the uplink FAR, "none"
\* without it, the address of the downlink PDR and the action of its FAR, an
\* F-TEID to forward to, Nocp to report packets or NoRule while there is none, and
\* notified_cp of that PDR.
NoRule == 0
Nocp   == -1
Session(cp) ==
  [cp |-> cp, ul |-> "forw", addr |-> NoAddress, dl |-> NoRule, notified |-> FALSE]

\* The messages, to SPGW-U and from it; dl and ul are what becomes of packets,
\* seid that of the receiver.
EstablishmentRequest(id, t) ==
  [to |-> "spgwu", type |-> "establishment", id |-> id, seid |-> NoSeid, cp |-> t]
ModificationRequest(id, seid, rules, dl, ul, addr) ==
  [to |-> "spgwu", type |-> "modify", id |-> id, seid |-> seid,
   rules |-> rules, dl |-> dl, ul |-> ul, addr |-> addr]
DeletionRequest(id, seid) ==
  [to |-> "spgwu", type |-> "delete", id |-> id, seid |-> seid]
EstablishmentResponse(m, s) ==
  [to |-> "pgwc", type |-> "establishment", id |-> m.id, seid |-> m.cp, up |-> s]
ModificationResponse(m, seid, accepted, created) ==
  [to |-> "pgwc", type |-> "modify", id |-> m.id, seid |-> seid,
   accepted |-> accepted, created |-> created]
DeletionResponse(m, seid) ==
  [to |-> "pgwc", type |-> "delete", id |-> m.id, seid |-> seid]
Report(id, seid) ==
  [to |-> "pgwc", type |-> "report", id |-> id, seid |-> seid]

Procs(c)    == pc[c].pending_procedures
ConnsOf(c)  == UNION pc[c].apns
ContextOf(t) == s5s8lteid2pgw_context[t]
NextTeid    == teid + 1
NextId      == uid + 1

Asks == requests < MaxRequests /\ requests' = requests + 1

Init ==
  /\ imsi2pgw_context = EmptyMap /\ s5s8lteid2pgw_context = EmptyMap
  /\ seid2pgw_context = EmptyMap
  /\ pc = EmptyMap /\ pdn = EmptyMap
  /\ alloc = NewPool(Num)
  /\ teid = 0 /\ uid = 0
  /\ sessions = EmptyMap /\ ue_ip = EmptyMap /\ up_seid = 0
  /\ modifying = {} /\ deleting = NoSeid
  /\ sx = {}
  /\ requests = 0 /\ told = {} /\ overlapped = {} /\ paged = {}

------------------------------------------------------------------------------
(* PGW-C: requests of SGW-C *)

\* A new connection t in a context. The request addresses TEID 0, which is that of
\* no connection, so find_pdn_connection returns no apn_context either, and every
\* request makes one.
InsertPdn(ctx, t) == [ctx EXCEPT !.apns = @ \cup {{t}}]

\* The address of a new connection, which the request brings along or the pool
\* has, if any; and the bitmap then.
Paa(static) ==
  IF static # NoAddress THEN static
  ELSE IF FreeBits(alloc) # {} THEN FreeBit(alloc) ELSE NoAddress
AllocPaa(static) ==
  IF static # NoAddress \/ FreeBits(alloc) = {} THEN alloc ELSE AllocBit(alloc)

\* Create session request: always a new connection, in the context of the IMSI
\* or in a new one. It asks SPGW-U to establish the session with the uplink
\* rules. Without a free address, or without a user plane node (then the
\* address goes back), the request is refused, but the connection stays.
CreateSessionRequest(imsi, static, up_node) ==
  LET t     == NextTeid
      c     == IF imsi \in DOMAIN imsi2pgw_context THEN imsi2pgw_context[imsi] ELSE t
      old   == IF imsi \in DOMAIN imsi2pgw_context THEN pc[c] ELSE Context(imsi)
      ctx   == InsertPdn(old, t)
      paa   == Paa(static)
      taken == AllocPaa(static)
      new   == PdnConnection(paa)
  IN /\ Asks
     /\ teid' = t
     /\ imsi2pgw_context' = MapAssign(imsi2pgw_context, imsi, c)
     /\ s5s8lteid2pgw_context' = MapAssign(s5s8lteid2pgw_context, t, c)
     /\ \/ /\ paa # NoAddress /\ up_node
           /\ uid' = NextId
           /\ pc' = MapAssign(pc, c, [ctx EXCEPT !.pending_procedures =
                                        @ \cup {Proc("establishment", NextId, t, NoFteid)}])
           /\ pdn' = MapAssign(pdn, t, [new EXCEPT !.seid = t])
           /\ alloc' = taken
           /\ seid2pgw_context' = MapAssign(seid2pgw_context, t, c)
           /\ sx' = sx \cup {EstablishmentRequest(NextId, t)}
        \/ /\ paa = NoAddress \/ ~up_node
           /\ uid' = IF paa = NoAddress THEN uid ELSE NextId
           /\ pc' = MapAssign(pc, c, ctx)
           /\ pdn' = MapAssign(pdn, t, new)
           /\ alloc' = IF paa = NoAddress THEN alloc ELSE FreeAddress(taken, Num, paa)
           /\ UNCHANGED <<seid2pgw_context, sx>>
     /\ UNCHANGED <<upf, told, overlapped, paged>>

\* A procedure of connection t is inserted and sends m to SPGW-U.
Start(t, proc, m) ==
  /\ Asks
  /\ uid' = proc.id
  /\ pc' = [pc EXCEPT ![ContextOf(t)].pending_procedures = @ \cup {proc}]
  /\ sx' = sx \cup {m}
  /\ overlapped' = IF \E p \in Procs(ContextOf(t)) : p.pdn = t /\ p.type # "ddn"
                   THEN overlapped \cup {t} ELSE overlapped
  /\ UNCHANGED <<imsi2pgw_context, s5s8lteid2pgw_context, seid2pgw_context, teid,
                 upf, told, paged>>

\* A connection SGW-C knows that is still in the table.
Addressed(t) == t \in told \cap DOMAIN s5s8lteid2pgw_context

\* The request asks for what the bearer has, and is answered at once.
UnchangedFteid(p, fteid) == p.sgw_fteid = fteid /\ ~p.released

\* modify_bearer_procedure::run: the first request creates the downlink rules,
\* the others update both FARs.
NewPath(t, fteid) ==
  IF pdn[t].dl
  THEN ModificationRequest(NextId, pdn[t].up_fseid, "update", fteid, "forw", pdn[t].addr)
  ELSE ModificationRequest(NextId, pdn[t].up_fseid, "create", fteid, "none", pdn[t].addr)

\* Modify bearer request. The ids of the rules are kept when it is sent on.
ModifyBearerRequest(t, fteid) ==
  /\ Addressed(t)
  /\ ~UnchangedFteid(pdn[t], fteid)
  /\ Start(t, Proc("modify", NextId, t, fteid), NewPath(t, fteid))
  /\ pdn' = [pdn EXCEPT ![t].dl = TRUE]
  /\ UNCHANGED alloc

\* Mutant: the bearer is not marked.
ReleasedBearerNot(p) == p

\* pgw_eps_bearer::release_access_bearer
ReleasedBearer(p) == [p EXCEPT !.released = TRUE]

\* release_access_bearers_procedure::run: downlink packets are to be reported,
\* uplink packets dropped.
NoPath(t) ==
  ModificationRequest(NextId, pdn[t].up_fseid, "update",
                      IF pdn[t].dl THEN Nocp ELSE NoRule, "drop", NoAddress)

\* Release access bearers request.
ReleaseAccessBearersRequest(t) ==
  /\ Addressed(t)
  /\ Start(t, Proc("release", NextId, t, NoFteid), NoPath(t))
  /\ pdn' = [pdn EXCEPT ![t] = ReleasedBearer(pdn[t])]
  /\ UNCHANGED alloc

\* Mutant: the address goes back to the pool at once.
DeleteSessionRequestEager(t) ==
  /\ Addressed(t)
  /\ Start(t, Proc("delete", NextId, t, NoFteid), DeletionRequest(NextId, pdn[t].up_fseid))
  /\ alloc' = FreeAddress(alloc, Num, pdn[t].addr)
  /\ pdn' = [pdn EXCEPT ![t].addr = NoAddress]

\* Delete session request: the connection stays until SPGW-U answers.
DeleteSessionRequest(t) ==
  /\ Addressed(t)
  /\ Start(t, Proc("delete", NextId, t, NoFteid), DeletionRequest(NextId, pdn[t].up_fseid))
  /\ UNCHANGED <<pdn, alloc>>

------------------------------------------------------------------------------
(* SPGW-U *)

\* SPGW-U takes m and answers with the SEID of PGW-C.
Reply(m, answer) == sx' = (sx \ {m}) \cup {answer}

\* TASK_SPGWU_APP takes message m.
Taken(m, type) == m \in sx /\ m.to = "spgwu" /\ m.type = type /\ modifying = {}

\* Session establishment request: a session with the uplink PDR and its FAR.
HandleEstablishment(m) ==
  LET s == up_seid + 1 IN
  /\ Taken(m, "establishment")
  /\ up_seid' = s
  /\ sessions' = MapAssign(sessions, s, Session(m.cp))
  /\ Reply(m, EstablishmentResponse(m, s))
  /\ UNCHANGED <<pgwc, ue_ip, modifying, deleting, requests, told, overlapped, paged>>

\* Session modification request: the session is found, and is used from here on
\* whatever becomes of it. The message stays until it is answered.
HandleModification(m) ==
  /\ Taken(m, "modify")
  /\ \/ /\ m.seid \notin DOMAIN sessions
        /\ Reply(m, ModificationResponse(m, NoSeid, FALSE, FALSE))
        /\ UNCHANGED modifying
     \/ /\ m.seid \in DOMAIN sessions
        /\ modifying' = {[req |-> m, cp |-> sessions[m.seid].cp]}
        /\ UNCHANGED sx
  /\ UNCHANGED <<pgwc, sessions, ue_ip, up_seid, deleting, requests, told, overlapped, paged>>

\* A session without its rules.
CleanSession(cp) == [Session(cp) EXCEPT !.ul = "none"]

\* The session of the modification h, which has no rules any more if it is not in
\* the table.
Held(h) == IF h.req.seid \in DOMAIN sessions THEN sessions[h.req.seid] ELSE CleanSession(h.cp)

\* The downlink rules are created: the address is entered, and an entry that is in
\* the table stays (add_pfcp_dl_pdr_by_ue_ip puts no PDR of the same precedence
\* beside it).
CreateRules(h) ==
  LET m == h.req IN
  /\ m.rules = "create"
  /\ sessions' = [s \in DOMAIN sessions |->
       IF s = m.seid THEN [sessions[s] EXCEPT !.dl = m.dl, !.addr = m.addr] ELSE sessions[s]]
  /\ ue_ip' = MapInsert(ue_ip, m.addr, m.seid)
  /\ Reply(m, ModificationResponse(m, h.cp, TRUE, TRUE))

\* The FARs are updated one by one; one that is not there refuses the request.
UpdateRules(h) ==
  LET m == h.req IN
  /\ m.rules = "update"
  /\ sessions' = [s \in DOMAIN sessions |->
       IF s = m.seid
       THEN [sessions[s] EXCEPT !.dl = IF m.dl = NoRule \/ @ = NoRule THEN @ ELSE m.dl,
                                !.ul = IF @ = "none" THEN @ ELSE m.ul]
       ELSE sessions[s]]
  /\ Reply(m, ModificationResponse(m, h.cp,
              (m.dl = NoRule \/ Held(h).dl # NoRule) /\ Held(h).ul # "none", FALSE))
  /\ UNCHANGED ue_ip

\* The rest of the handler.
EnterRules(h) ==
  /\ h \in modifying
  /\ modifying' = {}
  /\ CreateRules(h) \/ UpdateRules(h)
  /\ UNCHANGED <<pgwc, up_seid, deleting, requests, told, overlapped, paged>>

\* Mutant: cleanup leaves the table of UE addresses alone.
CleanRoutesNot(s) == UNCHANGED ue_ip

\* pfcp_session::cleanup takes the address of the PDR out of the table, whosever
\* PDR it leads to.
CleanRoutes(s) == ue_ip' = MapErase(ue_ip, sessions[s].addr)

\* Session deletion request: remove_pfcp_session.
HandleDeletion(m) ==
  /\ Taken(m, "delete")
  /\ IF m.seid \in DOMAIN sessions
     THEN /\ CleanRoutes(m.seid)
          /\ sessions' = MapErase(sessions, m.seid)
          /\ Reply(m, DeletionResponse(m, sessions[m.seid].cp))
     ELSE Reply(m, DeletionResponse(m, NoSeid)) /\ UNCHANGED <<sessions, ue_ip>>
  /\ UNCHANGED <<pgwc, up_seid, modifying, deleting, requests, told, overlapped, paged>>

\* The association with PGW-C has failed, and del_sessions comes to session s:
\* cleanup, ...  How far it comes before other messages are taken is open, and a
\* session that is made meanwhile may not be registered with the association, so
\* any session is deleted or stays.
CleanSessionUp(s) ==
  /\ deleting = NoSeid
  /\ s \in DOMAIN sessions
  /\ deleting' = s
  /\ CleanRoutes(s)
  /\ sessions' = [sessions EXCEPT ![s] = CleanSession(@.cp)]
  /\ UNCHANGED <<pgwc, up_seid, modifying, sx, requests, told, overlapped, paged>>

\* ... and the entries of the session are erased.
EraseSession ==
  /\ deleting # NoSeid
  /\ sessions' = MapErase(sessions, deleting)
  /\ deleting' = NoSeid
  /\ UNCHANGED <<pgwc, ue_ip, up_seid, modifying, sx, requests, told, overlapped, paged>>

\* A downlink packet for a UE whose access bearers are released: the first one
\* is reported to PGW-C, by the id of the PDR; notified_cp is never reset.
PacketInCore(a) ==
  LET s == ue_ip[a] IN
  /\ a \in DOMAIN ue_ip
  /\ s \in DOMAIN sessions
  /\ sessions[s].dl = Nocp /\ ~sessions[s].notified
  /\ sessions' = [sessions EXCEPT ![s].notified = TRUE]
  /\ sx' = sx \cup {Report(NextId, sessions[s].cp)}
  /\ uid' = NextId
  /\ UNCHANGED <<imsi2pgw_context, s5s8lteid2pgw_context, seid2pgw_context, pc, pdn,
                 alloc, teid, ue_ip, up_seid, modifying, deleting, requests, told,
                 overlapped, paged>>

------------------------------------------------------------------------------
(* PGW-C: messages of SPGW-U *)

\* The context of the SEID of m has the procedure of its transaction. Any other
\* response is discarded.
Awaited(m, type) ==
  /\ m \in sx /\ m.to = "pgwc" /\ m.type = type
  /\ m.seid \in DOMAIN seid2pgw_context
  /\ \E p \in Procs(seid2pgw_context[m.seid]) : p.id = m.id
ContextOfSeid(m) == seid2pgw_context[m.seid]
ProcOf(m) == CHOOSE p \in Procs(ContextOfSeid(m)) : p.id = m.id

\* The procedure has had its answer.
EndProc(m) ==
  /\ sx' = sx \ {m}
  /\ pc' = [pc EXCEPT ![ContextOfSeid(m)].pending_procedures = @ \ {ProcOf(m)}]

\* Session establishment response: SGW-C is told of the connection.
HandleEstablishmentResponse(m) ==
  /\ Awaited(m, "establishment")
  /\ EndProc(m)
  /\ pdn' = [pdn EXCEPT ![ProcOf(m).pdn].up_fseid = m.up]
  /\ told' = told \cup {ProcOf(m).pdn}
  /\ UNCHANGED <<imsi2pgw_context, s5s8lteid2pgw_context, seid2pgw_context, alloc,
                 teid, uid, upf, requests, overlapped, paged>>

\* Session modification response: rules that were created end the release of
\* the bearer; an update only stores the F-TEID.
HandleModificationResponse(m) ==
  LET p == ProcOf(m) IN
  /\ Awaited(m, "modify")
  /\ EndProc(m)
  /\ pdn' = IF p.type = "release" \/ p.pdn \notin DOMAIN pdn THEN pdn
            ELSE IF m.created
            THEN [pdn EXCEPT ![p.pdn].sgw_fteid = p.fteid, ![p.pdn].released = FALSE]
            ELSE IF m.accepted THEN [pdn EXCEPT ![p.pdn].sgw_fteid = p.fteid] ELSE pdn
  /\ UNCHANGED <<imsi2pgw_context, s5s8lteid2pgw_context, seid2pgw_context, alloc,
                 teid, uid, upf, requests, told, overlapped, paged>>

\* Mutant: the apn_context stays.
RemovePdnOnly(ctx, t) == [ctx EXCEPT !.apns = {a \ {t} : a \in @}]

\* pgw_context::delete_pdn_connection: an apn_context without connections goes too.
RemovePdn(ctx, t) == [ctx EXCEPT !.apns = {a \ {t} : a \in @} \ {{}}]

\* Session deletion response: the connection is deleted and its address is
\* free. A context without an apn_context is taken out of the table of IMSIs, whichever
\* context is in there.
HandleDeletionResponse(m) ==
  LET c   == ContextOfSeid(m)
      t   == ProcOf(m).pdn
      ctx == [(IF t \in DOMAIN pdn THEN RemovePdn(pc[c], t) ELSE pc[c])
                EXCEPT !.pending_procedures = @ \ {ProcOf(m)}]
  IN /\ Awaited(m, "delete")
     /\ sx' = sx \ {m}
     /\ pc' = [pc EXCEPT ![c] = ctx]
     /\ imsi2pgw_context' = IF ctx.apns = {}
                            THEN MapErase(imsi2pgw_context, ctx.imsi)
                            ELSE imsi2pgw_context
     /\ IF t \in DOMAIN pdn
        THEN /\ alloc' = FreeAddress(alloc, Num, pdn[t].addr)
             /\ s5s8lteid2pgw_context' = MapErase(s5s8lteid2pgw_context, t)
             /\ pdn' = MapErase(pdn, t)
        ELSE UNCHANGED <<alloc, s5s8lteid2pgw_context, pdn>>
     /\ UNCHANGED <<seid2pgw_context, teid, uid, upf, requests, told, overlapped, paged>>

\* find_pdn_connection(pdr_id): the ids start anew in each connection, so it
\* finds the first connection of the context that has downlink rules, if any.
FindByPdr(c) ==
  {t \in ConnsOf(c) : pdn[t].dl /\ \A u \in ConnsOf(c) : pdn[u].dl => t <= u}

\* Session report request: a downlink data notification is sent to SGW-C.
HandleReportRequest(m) ==
  LET c     == seid2pgw_context[m.seid]
      found == FindByPdr(c)
  IN /\ m \in sx /\ m.to = "pgwc" /\ m.type = "report"
     /\ m.seid \in DOMAIN seid2pgw_context
     /\ sx' = sx \ {m}
     /\ \/ /\ found = {}
           /\ UNCHANGED <<pc, paged>>
        \/ \E t \in found :
             /\ pc' = [pc EXCEPT ![c].pending_procedures =
                          @ \cup {Proc("ddn", m.id, t, NoFteid)}]
             /\ paged' = paged \cup {<<m.seid, t>>}
     /\ UNCHANGED <<imsi2pgw_context, s5s8lteid2pgw_context, seid2pgw_context, pdn,
                    alloc, teid, uid, upf, requests, told, overlapped>>

\* The acknowledge of SGW-C, addressed to the connection that was notified.
DownlinkDataNotificationAcknowledge(t) ==
  /\ t \in DOMAIN s5s8lteid2pgw_context
  /\ \E p \in Procs(ContextOf(t)) :
       /\ p.type = "ddn" /\ p.pdn = t
       /\ pc' = [pc EXCEPT ![ContextOf(t)].pending_procedures = @ \ {p}]
  /\ UNCHANGED <<imsi2pgw_context, s5s8lteid2pgw_context, seid2pgw_context, pdn, alloc,
                 teid, uid, upf, sx, requests, told, overlapped, paged>>

------------------------------------------------------------------------------
Next ==
  \/ \E imsi \in IMSIs, static \in Statics \cup {NoAddress}, up_node \in BOOLEAN :
        CreateSessionRequest(imsi, static, up_node)
  \/ \E t \in told :
       \/ \E fteid \in EnbFteids : ModifyBearerRequest(t, fteid)
       \/ ReleaseAccessBearersRequest(t)
       \/ DeleteSessionRequest(t)
       \/ DownlinkDataNotificationAcknowledge(t)
  \/ \E m \in sx :
       \/ HandleEstablishment(m)
       \/ HandleModification(m)
       \/ HandleDeletion(m)
       \/ HandleEstablishmentResponse(m)
       \/ HandleModificationResponse(m)
       \/ HandleDeletionResponse(m)
       \/ HandleReportRequest(m)
  \/ \E h \in modifying : EnterRules(h)
  \/ \E s \in DOMAIN sessions : CleanSessionUp(s)
  \/ EraseSession
  \/ \E a \in DOMAIN ue_ip : PacketInCore(a)

Spec == Init /\ [][Next]_vars

------------------------------------------------------------------------------
(* Properties *)

Teids == 1..teid
Uids  == 1..uid
DynamicAddresses == 0..Num - 1
Messages ==
  [to : {"spgwu"}, type : {"establishment"}, id : Uids, seid : {NoSeid}, cp : Teids]
  \cup [to : {"spgwu"}, type : {"delete"}, id : Uids, seid : 1..up_seid]
  \cup [to : {"spgwu"}, type : {"modify"}, id : Uids, seid : 1..up_seid,
        rules : {"create", "update"}, dl : EnbFteids \cup {Nocp, NoRule},
        ul : {"forw", "drop", "none"}, addr : DynamicAddresses \cup Statics \cup {NoAddress}]
  \cup [to : {"pgwc"}, type : {"establishment"}, id : Uids, seid : Teids, up : 1..up_seid]
  \cup [to : {"pgwc"}, type : {"delete"}, id : Uids, seid : Teids \cup {NoSeid}]
  \cup [to : {"pgwc"}, type : {"modify"}, id : Uids, seid : Teids \cup {NoSeid},
        accepted : BOOLEAN, created : BOOLEAN]
  \cup [to : {"pgwc"}, type : {"report"}, id : Uids, seid : Teids]

\* The shape of the state; an apn_context has a connection.
TypeOK ==
  /\ IsInjective(imsi2pgw_context) /\ DOMAIN imsi2pgw_context \subseteq IMSIs
  /\ \A k \in DOMAIN s5s8lteid2pgw_context : s5s8lteid2pgw_context[k] \in DOMAIN pc
  /\ \A k \in DOMAIN seid2pgw_context : seid2pgw_context[k] \in DOMAIN pc
  /\ \A c \in DOMAIN pc :
       /\ pc[c].imsi \in IMSIs
       /\ pc[c].apns \subseteq (SUBSET Teids) \ {{}}
       /\ pc[c].pending_procedures \subseteq
            [type : {"establishment", "modify", "release", "delete", "ddn"},
             id : Uids, pdn : Teids, fteid : EnbFteids \cup {NoFteid}]
  /\ pdn \in [DOMAIN pdn ->
       [addr : DynamicAddresses \cup Statics \cup {NoAddress}, seid : Teids \cup {NoSeid},
        up_fseid : 0..up_seid, dl : BOOLEAN,
        sgw_fteid : EnbFteids \cup {NoFteid}, released : BOOLEAN]]
  /\ \A w \in DOMAIN alloc : w \in Int /\ alloc[w] \subseteq FullWord
  /\ sessions \in [DOMAIN sessions ->
       [cp : Teids, ul : {"forw", "drop", "none"}, dl : EnbFteids \cup {Nocp, NoRule},
        addr : DynamicAddresses \cup Statics \cup {NoAddress}, notified : BOOLEAN]]
  /\ sx \subseteq Messages
  /\ modifying \subseteq [req : sx, cp : Teids] /\ deleting \in 0..up_seid
  /\ told \subseteq Teids /\ overlapped \subseteq told /\ paged \subseteq Teids \X Teids

\* The connections whose establishment was asked for; others were refused and
\* hold nothing, whatever address is written in them.
Established == {t \in DOMAIN pdn : pdn[t].seid # NoSeid}

\* An address is free in the bitmap exactly when no connection has it: none is
\* lost, given twice, or given although it is not of the pool. Statics of the
\* run are past the end of the pool; one inside it or before it breaks this.
PoolAgrees ==
  FreeBits(alloc) = DynamicAddresses \ {pdn[t].addr : t \in Established}

\* The table of TEIDs has the connections of all contexts, each with its
\* context, and a context that has a connection is the one a new request of its
\* subscriber finds. The release handler relies on the first (it uses the
\* connection it did not find), and a deletion response breaks the second if it
\* comes for a context that was dropped and replaced: delete_pgw_context erases
\* by IMSI only. That SPGW-U answers the second of two deletion requests with
\* SEID 0, which PGW-C discards, is what prevents it. The pool agrees as well.
TablesAgree ==
  /\ \A c \in DOMAIN pc : ConnsOf(c) # {} =>
       pc[c].imsi \in DOMAIN imsi2pgw_context /\ imsi2pgw_context[pc[c].imsi] = c
  /\ DOMAIN s5s8lteid2pgw_context = UNION {ConnsOf(c) : c \in DOMAIN pc}
  /\ \A t \in DOMAIN s5s8lteid2pgw_context : t \in ConnsOf(ContextOf(t))
  /\ DOMAIN pdn = DOMAIN s5s8lteid2pgw_context
  /\ PoolAgrees

\* The leases of the pool's addresses, as this state has them.
HolderOf(a) ==
  LET who == {t \in Established : pdn[t].addr = a}
  IN IF who = {} THEN 0 ELSE CHOOSE t \in who : TRUE
RouteOf(a) ==
  IF a \in DOMAIN ue_ip /\ ue_ip[a] \in DOMAIN sessions
  THEN sessions[ue_ip[a]].cp ELSE 0

\* Both nodes together implement AddressLeases: the pool of PGW-C gets an
\* address back only when SPGW-U no longer routes packets by it, whatever is
\* lost, late or out of order between the two.
Leases == INSTANCE AddressLeases WITH
  Addresses <- DynamicAddresses, Connections <- 1..MaxRequests, Nobody <- 0,
  holder <- [a \in DynamicAddresses |-> HolderOf(a)],
  route  <- [a \in DynamicAddresses |-> RouteOf(a)]
LeasesKept == Leases!Spec

\* An entry of the table of UE addresses leads to a session with that address, or
\* nowhere: a modification may enter the address of a session that is erased
\* meanwhile. Then the connection that has no session any more still holds the
\* address, so that the stale entry, which the rules of another session would not
\* replace, never meets them: packets for an address of the pool find the session
\* with downlink rules for it. A deletion request for an erased session is answered
\* with SEID 0, which PGW-C discards, so the address does not go back to the pool.
RoutesLead ==
  /\ \A a \in DOMAIN ue_ip :
       \/ ue_ip[a] \in DOMAIN sessions /\ sessions[ue_ip[a]].addr = a
       \/ ue_ip[a] \notin DOMAIN sessions
            /\ a \in DynamicAddresses =>
                 HolderOf(a) # 0 /\ pdn[HolderOf(a)].up_fseid = ue_ip[a]
  /\ \A s \in DOMAIN sessions :
       sessions[s].dl # NoRule /\ sessions[s].addr \in DynamicAddresses =>
         sessions[s].addr \in DOMAIN ue_ip /\ ue_ip[sessions[s].addr] = s

\* Every entry leads to a session. A modification that found its session before the
\* association failed breaks it: the code has no lock that would prevent it.
EntriesLead == \A a \in DOMAIN ue_ip : ue_ip[a] \in DOMAIN sessions

\* Connection t waits for nothing, its requests came one after the other, and
\* SPGW-U still has its session and is not about to delete it.
Settled(t) ==
  /\ t \notin overlapped
  /\ \A p \in Procs(ContextOf(t)) : p.pdn # t \/ p.type = "ddn"
  /\ pdn[t].up_fseid \in DOMAIN sessions \ {deleting}

\* A request to modify that would be answered at once, without SPGW-U, asks for
\* what SPGW-U does: downlink packets go to the F-TEID PGW-C has stored. That
\* overlapping requests are excepted is not for want of trying: an update whose
\* answer is lost, or one that passes another, leaves the two apart for good.
PathAgrees ==
  \A t \in DOMAIN pdn \cap told : \A f \in EnbFteids :
    Settled(t) /\ UnchangedFteid(pdn[t], f) => sessions[pdn[t].up_fseid].dl = f

\* And uplink packets are forwarded. The comment "after a release bearers"
\* (pgwc_procedure.cpp:544) announces that a modify request puts the uplink
\* rules back, but the update of the uplink FAR is made only if there were
\* downlink rules before.
UplinkAgrees ==
  \A t \in DOMAIN pdn \cap told : \A f \in EnbFteids :
    Settled(t) /\ UnchangedFteid(pdn[t], f) => sessions[pdn[t].up_fseid].ul = "forw"

\* The notification is about the connection the packet was for. The comment
\* "shall uniquely identify the PDR among all the PDRs configured for that PFCP
\* session" (pgwc_procedure.cpp:197) is kept, but the report is looked up in all
\* sessions of the context.
ReportNamesConnection == \A p \in paged : p[1] = p[2]

==============================================================================
