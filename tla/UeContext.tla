------------------------------ MODULE UeContext ------------------------------
(***************************************************************************)
(* The S1 connection of one registered UE in the MME: how TASK_MME_APP (the *)
(* UE context) and TASK_S1AP (the UE references) agree on it while the UE   *)
(* connects, is released, is lost with its eNB, or detaches.                *)
(*                                                                         *)
(* Every task handles its queue in order, a handler is a step.  A           *)
(* connection stands for the pair of the eNB and its eNB UE S1AP ID, never  *)
(* used twice.  What an eNB sends is handled by S1AP in the step in which   *)
(* it is sent; what S1AP sends reaches the eNB at once and is answered any  *)
(* time later, so that messages still cross.                                *)
(*                                                                         *)
(* ecm_state and enb_s1ap_id_key are assigned together in every handler:    *)
(* the UE is ECM-CONNECTED iff ctx.key is a connection.                     *)
(*                                                                         *)
(* External: the UE, the eNBs, SGW (which always answers, or S11 answers    *)
(* for it) and HSS.  Left out: attach (EmmAttach), handover, E-RAB          *)
(* procedures, and what a UE does in this MME after it was detached; an eNB *)
(* that comes back under its id after it was lost; the several messages     *)
(* S1AP needs for a lost eNB of more than 400 UEs; and                      *)
(* NAS_SIGNALLING_CONNECTION_REL_IND, sent to NAS for each UE of a lost     *)
(* eNB, as nothing there handles the primitive it becomes.                  *)
(***************************************************************************)
EXTENDS Integers, Sequences, FiniteSets, SequencesExt

CONSTANTS
    Enbs,
    MaxConnections,     \* bound: connections of the UE
    MaxLosses           \* bound: eNBs that go down

ASSUME BoundsAssumption == MaxConnections \in Nat \ {0} /\ MaxLosses \in Nat

Conns == 1 .. MaxConnections
None == 0                       \* no connection: an invalid key, or no eNB ids
Kinds == {"reach", "detach", "ics"}

\* None is no eNB either: no eNB has the id 0, which is what a message says whose
\* sender did not set it.
ASSUME EnbsAssumption == None \notin Enbs

VARIABLES
    ctx,        \* MME_APP: the UE context
    emm,        \* NAS: the EMM context of the UE exists
    refs,       \* S1AP: the UE reference of each connection
    lost,       \* eNBs whose SCTP association is down
    enb,        \* the connections as the eNBs see them
    app, s1ap, nas,     \* the queues of TASK_MME_APP, TASK_S1AP, TASK_NAS_EMM
    rab,        \* release access bearers requests SGW has to answer
    esm,        \* detach indications in the queue of TASK_NAS_ESM
    left        \* the UE was told to leave, or left: a detach is under way or done

vars == <<ctx, emm, refs, lost, enb, app, s1ap, nas, rab, esm, left>>

\* enb_ue: enb_ue_s1ap_id and the enb_id of e_utran_cgi, kept when key is not;
\* cause: s1_ue_context_release_cause, "told" where the eNB gets a command;
\* timers: those that have an id, also when they have expired unnoticed.
IdleContext(cause) ==
    [exists |-> TRUE, registered |-> TRUE, key |-> None, enb_ue |-> None,
     cause |-> cause, timers |-> {"reach"}]
ConnectedContext ==
    [IdleContext("invalid") EXCEPT !.key = 1, !.enb_ue = 1, !.timers = {}]

\* asked: the eNB asked for the release; unnamed: S1AP told of its loss before it
\* had the MME UE S1AP ID.
NoConnection ==
    [at |-> None, phase |-> "none", asked |-> FALSE, ics |-> FALSE, unnamed |-> FALSE]

Init ==
    /\ \/ /\ ctx \in {IdleContext("told"), IdleContext("sctp")}
          /\ refs = [c \in Conns |-> "none"]
          /\ enb = [c \in Conns |-> NoConnection]
       \/ /\ ctx = ConnectedContext
          /\ refs = [c \in Conns |-> IF c = 1 THEN "ue" ELSE "none"]
          /\ \E e \in Enbs : enb = [c \in Conns |-> IF c = 1 THEN
                [NoConnection EXCEPT !.at = e, !.phase = "known"] ELSE NoConnection]
    /\ emm = TRUE
    /\ lost = {}
    /\ app = <<>> /\ s1ap = <<>> /\ nas = <<>>
    /\ rab = 0
    /\ esm = 0
    /\ left = FALSE

-----------------------------------------------------------------------------
Msg(type, c) == [type |-> type, conn |-> c]
Command(c, e, cause) == [type |-> "command", conn |-> c, at |-> e, cause |-> cause]

Received(queue, type) == queue # <<>> /\ Head(queue).type = type

ToApp(m) == app' = Append(app, m)
ToNas(m) == nas' = Append(nas, m)

\* The UE references of S1AP.  One that waits for the UE context release complete is
\* "crr" while its release timer can end it, and "untimed" when the timer has the key
\* of another eNB.
HasId(c) == refs[c] \in {"ue", "crr", "untimed"}
Live(c) == refs[c] = "new" \/ HasId(c)
WithId == {c \in Conns : HasId(c)}

\* The eNB the UE context names, None before the first connection.
EnbOf(c) == IF c = None THEN None ELSE enb[c].at

\* Mutant: a lost eNB is removed from the list at once.
ListedWhileUp(e) == e \in Enbs \ lost

\* s1ap_is_enb_id_in_list: a lost eNB goes with its last reference.
Listed(e) == e \in Enbs /\ (e \in lost => \E c \in Conns : Live(c) /\ enb[c].at = e)

\* By the ids of the eNB, else by the MME UE S1AP ID: any reference that has it.
FindRef(c, e) == IF c # None /\ Live(c) /\ enb[c].at = e THEN {c} ELSE WithId

\* mme_ue_context_update_ue_sig_connection_state; the handler of an initial UE
\* message has already copied the key, and goes on to forget every timer.
ToIdle(x) == [x EXCEPT !.key = None, !.timers = @ \cup {"reach"}]

\* Mutant: the ids of the eNB are not copied with the key.
ToConnectedKeyOnly(x, c) == [x EXCEPT !.key = c, !.timers = {}]

ToConnected(x, c) == [x EXCEPT !.key = c, !.enb_ue = c, !.timers = {}]

StopIcs(x) == [x EXCEPT !.timers = @ \ {"ics"}]
NoContext(x) == [x EXCEPT !.exists = FALSE, !.registered = FALSE, !.key = None,
                          !.timers = {}]

-----------------------------------------------------------------------------
(* TASK_MME_APP *)

AppMessage(type) == Received(app, type) /\ app' = Tail(app)

\* Mutant: the reference of the connection the UE gave up stays.
OldReferenceKept == refs

\* A UE that was still connected loses its old reference here, from this task.
OldReferenceRemoved ==
    IF ctx.key # None /\ Live(ctx.enb_ue) THEN [refs EXCEPT ![ctx.enb_ue] = "none"] ELSE refs

AppInitialUeMessage ==
    /\ AppMessage("initial")
    /\ LET c == Head(app).conn IN
        /\ ctx' = ToConnected(ctx, c)
        /\ s1ap' = Append(s1ap, Msg("notify", c))
        /\ ToNas(Msg("initial", c))
    /\ refs' = OldReferenceRemoved
    /\ UNCHANGED <<emm, lost, enb, rab, esm, left>>

\* As many UEs are attached as the MME may have, this one or others.
AppInitialUeMessageFull ==
    /\ AppMessage("initial")
    /\ s1ap' = Append(s1ap, Msg("reject", Head(app).conn))
    /\ UNCHANGED <<ctx, emm, refs, lost, enb, nas, rab, esm, left>>

\* _mme_app_handle_s1ap_ue_context_release for the ids (known: the message has
\* the MME UE S1AP ID of the UE; its lookup comes first and compares nothing); e is
\* the eNB the message names.
Release(known, c, e, cause) ==
    LET stops == "ics" \in ctx.timers
        why == IF stops THEN "told" ELSE cause
        stopped == [StopIcs(ctx) EXCEPT !.cause = why]
    IN  IF ~ctx.exists \/ ~(known \/ (ctx.key = c /\ enb[c].at = e))
        THEN UNCHANGED <<ctx, s1ap, rab>>
        ELSE IF ctx.key = None
        THEN /\ ctx' = [(IF cause = "sctp" THEN ToIdle(ctx) ELSE ctx) EXCEPT !.cause = cause]
             /\ s1ap' = IF cause = "sctp"
                        THEN Append(s1ap, Command(ctx.enb_ue, e, cause)) ELSE s1ap
             /\ UNCHANGED rab
        ELSE /\ ctx' = stopped
             /\ rab' = IF ctx.registered THEN rab + 1 ELSE rab
             /\ s1ap' = IF ctx.registered THEN s1ap
                        ELSE Append(s1ap, Command(c, e, why))

AppReleaseRequest ==
    /\ AppMessage("release")
    /\ LET c == Head(app).conn IN Release(TRUE, c, enb[c].at, "told")
    /\ UNCHANGED <<emm, refs, lost, enb, nas, esm, left>>

\* One pass of the loop over the UEs of a lost eNB.  S1AP_ENB_DEREGISTERED_IND has
\* an enb_id that nobody sets.
AppEnbDeregistered ==
    /\ \/ AppMessage("dereg") /\ Release(TRUE, Head(app).conn, None, "sctp")
       \/ AppMessage("deregNew") /\ Release(FALSE, Head(app).conn, None, "sctp")
    /\ UNCHANGED <<emm, refs, lost, enb, nas, esm, left>>

AppReleaseComplete ==
    /\ AppMessage("complete")
    /\ LET c == Head(app).conn
           released == IF c # None /\ c = ctx.enb_ue THEN ToIdle(ctx) ELSE ctx
       IN  ctx' = IF ~ctx.exists THEN ctx
                  ELSE IF ctx.registered THEN released ELSE NoContext(released)
    /\ UNCHANGED <<emm, refs, lost, enb, s1ap, nas, rab, esm, left>>

AppReleaseBearersResponse ==
    /\ AppMessage("rabResponse")
    /\ IF ~ctx.exists THEN UNCHANGED <<ctx, s1ap>>
       ELSE LET why == IF ctx.cause = "invalid" THEN "told" ELSE ctx.cause
                x == [ctx EXCEPT !.cause = why]
            IN  /\ s1ap' = Append(s1ap, Command(ctx.enb_ue, EnbOf(ctx.enb_ue), why))
                /\ ctx' = IF why = "sctp" THEN ToIdle(x) ELSE x
    /\ UNCHANGED <<emm, refs, lost, enb, nas, rab, esm, left>>

AppConnectionEstablishmentCnf ==
    /\ AppMessage("cnf")
    /\ IF ~ctx.exists THEN UNCHANGED <<ctx, s1ap>>
       ELSE /\ s1ap' = Append(s1ap, Msg("ics", None))
            /\ ctx' = [ctx EXCEPT !.timers = @ \cup {"ics"}]
    /\ UNCHANGED <<emm, refs, lost, enb, nas, rab, esm, left>>

AppSetupResponse ==
    /\ AppMessage("icsResponse")
    /\ ctx' = IF ctx.exists THEN StopIcs(ctx) ELSE ctx
    /\ UNCHANGED <<emm, refs, lost, enb, s1ap, nas, rab, esm, left>>

\* A registered UE is released by way of SGW, another is detached.
SetupFailed(x) ==
    /\ ctx' = [StopIcs(x) EXCEPT !.cause = "told"]
    /\ IF x.registered THEN rab' = rab + 1 /\ UNCHANGED nas
                       ELSE ToNas(Msg("implicit", None)) /\ UNCHANGED rab

AppSetupFailure ==
    /\ AppMessage("icsFailure")
    /\ IF ctx.exists THEN SetupFailed(ctx) ELSE UNCHANGED <<ctx, rab, nas>>
    /\ UNCHANGED <<emm, refs, lost, enb, s1ap, esm, left>>

\* A NAS message for the UE; "dlEnd" with a transaction status that ends the
\* connection.  Which branch a registered UE takes depends on its first bearer, if
\* it has one ("lacking"), which is not modelled.
AppNasDownlink ==
    /\ \/ AppMessage("dl") \/ AppMessage("dlEnd")
    /\ LET end == Head(app).type = "dlEnd"
           dl == Append(s1ap, Msg("dl", ctx.enb_ue))
           command == Command(ctx.enb_ue, EnbOf(ctx.enb_ue), "told")
       IN  IF ~ctx.exists THEN UNCHANGED <<ctx, s1ap, rab>>
           ELSE IF ~end THEN s1ap' = dl /\ UNCHANGED <<ctx, rab>>
           ELSE /\ ctx' = [ctx EXCEPT !.cause = "told"]
                /\ \/ s1ap' = Append(dl, command) /\ UNCHANGED rab
                   \/ \E bearer \in {"active", "lacking"} :
                        /\ ctx.registered
                        /\ s1ap' = dl
                        /\ rab' = IF bearer = "active" THEN rab + 1 ELSE rab
    /\ UNCHANGED <<emm, refs, lost, enb, nas, esm, left>>

AppCancelLocation ==
    /\ AppMessage("cancel")
    /\ IF ~ctx.exists THEN UNCHANGED <<ctx, nas>>
       ELSE ctx' = [ctx EXCEPT !.timers = @ \ {"detach"}] /\ ToNas(Msg("implicit", None))
    /\ UNCHANGED <<emm, refs, lost, enb, s1ap, rab, esm, left>>

AppDetachRequest ==
    /\ AppMessage("detach")
    /\ IF ~ctx.exists THEN UNCHANGED <<ctx, s1ap>>
       ELSE LET idle == ctx.key = None
                why == IF idle THEN "implicit"
                       ELSE IF ctx.cause = "invalid" THEN "told" ELSE ctx.cause
            IN  /\ s1ap' = Append(s1ap, Command(ctx.enb_ue, EnbOf(ctx.enb_ue), why))
                /\ ctx' = IF idle \/ why = "sctp" THEN NoContext(ctx)
                          ELSE [ctx EXCEPT !.cause = why]
    /\ UNCHANGED <<emm, refs, lost, enb, nas, rab, esm, left>>

\* What the timers of a UE context are set up with, and what the handler takes
\* it for: the address of mme_ue_s1ap_id is looked up as if it were the id.
TimerArg == "address"
FindContext(arg) == ctx.exists /\ arg = "id"

TimerHandler(k) ==
    CASE k = "reach" ->
            /\ ctx' = [ctx EXCEPT !.timers = (@ \ {"reach"}) \cup {"detach"}]
            /\ UNCHANGED <<nas, rab>>
      [] k = "detach" ->
            /\ ctx' = [ctx EXCEPT !.timers = @ \ {"detach"}]
            /\ ToNas(Msg("implicit", None))
            /\ UNCHANGED rab
      [] k = "ics" -> SetupFailed(ctx)

\* TIMER_HAS_EXPIRED of a timer whose id the context still has.
AppTimerHasExpired(k) ==
    /\ k \in ctx.timers
    /\ IF FindContext(TimerArg) THEN TimerHandler(k) ELSE UNCHANGED <<ctx, nas, rab>>
    /\ UNCHANGED <<emm, refs, lost, enb, app, s1ap, esm, left>>

-----------------------------------------------------------------------------
(* TASK_S1AP: messages of MME_APP *)

S1apMessage(type) == Received(s1ap, type) /\ s1ap' = Tail(s1ap)

S1apNewUeAssociation ==
    /\ S1apMessage("notify")
    /\ LET c == Head(s1ap).conn IN
        refs' = IF Live(c) THEN [refs EXCEPT ![c] = "ue"] ELSE refs
    /\ UNCHANGED <<ctx, emm, lost, enb, app, nas, rab, esm, left>>

\* The eNB learns the MME UE S1AP ID.
Known(c, ics) ==
    IF c # None /\ enb[c].phase = "up" THEN [enb EXCEPT ![c].phase = "known", ![c].ics = ics]
    ELSE IF c # None /\ enb[c].phase = "known" THEN [enb EXCEPT ![c].ics = @ \/ ics]
    ELSE enb

S1apConnectionEstablishmentCnf ==
    /\ S1apMessage("ics")
    /\ IF WithId = {} THEN UNCHANGED enb ELSE \E r \in WithId : enb' = Known(r, TRUE)
    /\ UNCHANGED <<ctx, emm, refs, lost, app, nas, rab, esm, left>>

\* By the ids of the eNB at the eNB of the MME UE S1AP ID, else by that ID; without
\* it by the ids of the eNB.
FindRefDownlink(c) ==
    IF WithId = {} THEN {b \in Conns : b = c /\ Live(b)}
    ELSE {IF c # None /\ Live(c) /\ enb[c].at = enb[r].at THEN c ELSE r : r \in WithId}

S1apDownlinkNas ==
    /\ S1apMessage("dl")
    /\ LET found == FindRefDownlink(Head(s1ap).conn)
       IN  IF found = {} THEN UNCHANGED enb ELSE \E r \in found : enb' = Known(r, FALSE)
    /\ UNCHANGED <<ctx, emm, refs, lost, app, nas, rab, esm, left>>

Commanded(x) == IF x.phase \in {"up", "known"} THEN [x EXCEPT !.phase = "commanded"] ELSE x

\* Without a reference the command names the UE by its MME UE S1AP ID only.  The key
\* of the release timer has the eNB of the command.
S1apReleaseCommand ==
    /\ S1apMessage("command")
    /\ LET m == Head(s1ap)
           silent == m.cause \in {"implicit", "sctp"}
           found == FindRef(m.conn, m.at)
       IN  IF ~Listed(m.at) THEN UNCHANGED <<refs, enb, app>>
           ELSE IF found = {}
           THEN /\ ToApp(Msg("complete", None))
                /\ enb' = [c \in Conns |->
                    IF ~silent /\ enb[c].at = m.at /\ enb[c].phase = "known"
                    THEN Commanded(enb[c]) ELSE enb[c]]
                /\ UNCHANGED refs
           ELSE \E r \in found :
                IF silent
                THEN /\ refs' = [refs EXCEPT ![r] = "none"]
                     /\ ToApp(Msg("complete", None))
                     /\ UNCHANGED enb
                ELSE /\ refs' = [refs EXCEPT ![r] =
                                    IF enb[r].at = m.at THEN "crr" ELSE "untimed"]
                     /\ enb' = IF enb[r].at = m.at
                               THEN [enb EXCEPT ![r] = Commanded(@)] ELSE enb
                     /\ UNCHANGED app
    /\ UNCHANGED <<ctx, emm, lost, nas, rab, esm, left>>

\* A rejected initial message: its reference goes at once, found by the ids of the
\* eNB only, and what the eNB answers finds none.
S1apReject ==
    /\ S1apMessage("reject")
    /\ LET c == Head(s1ap).conn IN
        IF Live(c)
        THEN refs' = [refs EXCEPT ![c] = "none"] /\ enb' = [enb EXCEPT ![c].phase = "gone"]
        ELSE UNCHANGED <<refs, enb>>
    /\ UNCHANGED <<ctx, emm, lost, app, nas, rab, esm, left>>

\* The release timer: its argument is the key itself.  The reference goes, and
\* MME_APP gets a message without the eNB's ids.
S1apReleaseTimerExpiry(c) ==
    /\ refs[c] = "crr"
    /\ refs' = [refs EXCEPT ![c] = "lapsed"]
    /\ ToApp(Msg("complete", None))
    /\ UNCHANGED <<ctx, emm, lost, enb, s1ap, nas, rab, esm, left>>

-----------------------------------------------------------------------------
(* TASK_S1AP: messages of the eNBs *)

Connect(c, e) ==
    /\ ~left
    /\ e \notin lost
    /\ enb[c].phase = "none"
    /\ \A b \in Conns : b < c => enb[b].phase # "none"
    /\ enb' = [enb EXCEPT ![c] = [NoConnection EXCEPT !.at = e, !.phase = "up"]]
    /\ refs' = [refs EXCEPT ![c] = "new"]
    /\ ToApp(Msg("initial", c))
    /\ UNCHANGED <<ctx, emm, lost, s1ap, nas, rab, esm, left>>

\* The reference is found by the MME UE S1AP ID and has to be that of the eNB.
ReleaseRequest(c) ==
    /\ enb[c].phase \in {"known", "commanded"}
    /\ ~enb[c].asked
    /\ enb' = [enb EXCEPT ![c].asked = TRUE]
    /\ IF WithId = {} THEN UNCHANGED app
       ELSE \E r \in WithId :
            IF r = c THEN ToApp(Msg("release", c)) ELSE UNCHANGED app
    /\ UNCHANGED <<ctx, emm, refs, lost, s1ap, nas, rab, esm, left>>

\* A response is dropped when the release is under way, a failure is not.
SetupAnswer(c, type) ==
    /\ enb[c].phase \in {"known", "commanded"}
    /\ enb[c].ics
    /\ enb' = [enb EXCEPT ![c].ics = FALSE]
    /\ IF WithId = {} THEN UNCHANGED app
       ELSE \E r \in WithId :
            IF r = c /\ (type = "icsResponse" => refs[c] = "ue")
            THEN ToApp(Msg(type, None)) ELSE UNCHANGED app
    /\ UNCHANGED <<ctx, emm, refs, lost, s1ap, nas, rab, esm, left>>

ReleaseComplete(c) ==
    /\ enb[c].phase = "commanded"
    /\ enb' = [enb EXCEPT ![c].phase = "gone"]
    /\ IF Live(c) THEN refs' = [refs EXCEPT ![c] = "none"] /\ ToApp(Msg("complete", c))
                  ELSE UNCHANGED <<refs, app>>
    /\ UNCHANGED <<ctx, emm, lost, s1ap, nas, rab, esm, left>>

\* S1AP_ENB_DEREGISTERED_IND has the UEs in the order of a hash table.
Deregistered(c) == Msg(IF refs[c] = "new" THEN "deregNew" ELSE "dereg", c)

EnbLost(e) ==
    /\ e \notin lost
    /\ Cardinality(lost) < MaxLosses
    /\ lost' = lost \cup {e}
    /\ enb' = [c \in Conns |->
                IF enb[c].at = e
                THEN [enb[c] EXCEPT !.phase = "gone", !.unnamed = refs[c] = "new"] ELSE enb[c]]
    /\ \E order \in SetToSeqs({c \in Conns : Live(c) /\ enb[c].at = e}) :
          app' = app \o [i \in DOMAIN order |-> Deregistered(order[i])]
    /\ UNCHANGED <<ctx, emm, refs, s1ap, nas, rab, esm, left>>

-----------------------------------------------------------------------------
(* NAS, SGW, HSS and the UE *)

\* A service request or a tracking area update with the active flag sets up the
\* bearers; one without it ends the connection; a refusal does neither.
NasInitial ==
    /\ Received(nas, "initial")
    /\ nas' = Tail(nas)
    /\ \E type \in {"cnf", "dl", "dlEnd"} : ToApp(Msg(type, None))
    /\ UNCHANGED <<ctx, emm, refs, lost, enb, s1ap, rab, esm, left>>

\* The EMM task writes to the context of MME_APP.
NasImplicitDetach ==
    /\ Received(nas, "implicit")
    /\ nas' = Tail(nas)
    /\ ctx' = IF emm THEN [ctx EXCEPT !.registered = FALSE, !.cause = "implicit"] ELSE ctx
    /\ emm' = FALSE
    /\ esm' = esm + 1
    /\ UNCHANGED <<refs, lost, enb, app, s1ap, rab, left>>

NasDetachRequest ==
    /\ Received(nas, "detach")
    /\ nas' = Tail(nas)
    /\ ctx' = IF emm THEN [ctx EXCEPT !.registered = FALSE] ELSE ctx
    /\ emm' = FALSE
    /\ esm' = esm + 1
    /\ UNCHANGED <<refs, lost, enb, app, s1ap, rab, left>>

EsmDetach ==
    /\ esm > 0
    /\ esm' = esm - 1
    /\ ToApp(Msg("detach", None))
    /\ UNCHANGED <<ctx, emm, refs, lost, enb, s1ap, nas, rab, left>>

SgwAnswers ==
    /\ rab > 0
    /\ rab' = rab - 1
    /\ ToApp(Msg("rabResponse", None))
    /\ UNCHANGED <<ctx, emm, refs, lost, enb, s1ap, nas, esm, left>>

\* The last connection of the UE; S1AP hands its message to NAS.
UeDetaches(c) ==
    /\ ~left
    /\ enb[c].phase \in {"known", "commanded"}
    /\ Live(c)
    /\ \A b \in Conns : b > c => enb[b].phase = "none"
    /\ left' = TRUE
    /\ ToNas(Msg("detach", None))
    /\ UNCHANGED <<ctx, emm, refs, lost, enb, app, s1ap, rab, esm>>

\* The UE is in another MME: it is not connecting here.
HssCancelsLocation ==
    /\ ~left
    /\ \A c \in Conns : enb[c].phase # "up"
    /\ left' = TRUE
    /\ ToApp(Msg("cancel", None))
    /\ UNCHANGED <<ctx, emm, refs, lost, enb, s1ap, nas, rab, esm>>

-----------------------------------------------------------------------------
AppNext ==
    \/ AppInitialUeMessage \/ AppInitialUeMessageFull
    \/ AppReleaseRequest \/ AppEnbDeregistered
    \/ AppReleaseComplete \/ AppReleaseBearersResponse
    \/ AppConnectionEstablishmentCnf \/ AppSetupResponse \/ AppSetupFailure
    \/ AppNasDownlink \/ AppCancelLocation \/ AppDetachRequest

S1apNext ==
    \/ S1apNewUeAssociation \/ S1apConnectionEstablishmentCnf
    \/ S1apDownlinkNas \/ S1apReleaseCommand \/ S1apReject

NasNext == NasInitial \/ NasImplicitDetach \/ NasDetachRequest

Next ==
    \/ AppNext \/ S1apNext \/ NasNext \/ EsmDetach \/ SgwAnswers
    \/ \E k \in Kinds : AppTimerHasExpired(k)
    \/ \E c \in Conns :
        \/ S1apReleaseTimerExpiry(c) \/ ReleaseRequest(c) \/ ReleaseComplete(c)
        \/ UeDetaches(c)
        \/ \E e \in Enbs : Connect(c, e)
        \/ \E type \in {"icsResponse", "icsFailure"} : SetupAnswer(c, type)
    \/ \E e \in Enbs : EnbLost(e)
    \/ HssCancelsLocation

\* The tasks serve their queues, SGW answers, timers expire.  The UE, the eNBs
\* and HSS need not do anything.
Fairness ==
    /\ WF_vars(AppNext) /\ WF_vars(S1apNext) /\ WF_vars(NasNext)
    /\ WF_vars(EsmDetach) /\ WF_vars(SgwAnswers)
    /\ \A k \in Kinds : WF_vars(AppTimerHasExpired(k))
    /\ \A c \in Conns : WF_vars(S1apReleaseTimerExpiry(c))

Spec == Init /\ [][Next]_vars /\ Fairness

-----------------------------------------------------------------------------
(* Properties *)

Messages(queue) == {queue[i] : i \in DOMAIN queue}

\* The shape of the state.  enb_s1ap_id_key is only set together with the ids of
\* the eNB, and the context that an initial UE message is about is there when
\* MME_APP and NAS get to the message.
TypeOK ==
    /\ ctx \in [exists : BOOLEAN, registered : BOOLEAN, key : Conns \cup {None},
                enb_ue : Conns \cup {None}, cause : {"invalid", "told", "sctp", "implicit"},
                timers : SUBSET Kinds]
    /\ ctx.key # None => ctx.key = ctx.enb_ue
    /\ refs \in [Conns -> {"none", "new", "ue", "crr", "untimed", "lapsed"}]
    /\ enb \in [Conns -> [at : Enbs \cup {None}, asked : BOOLEAN, ics : BOOLEAN,
                 unnamed : BOOLEAN,
                 phase : {"none", "up", "known", "commanded", "gone"}]]
    /\ lost \subseteq Enbs /\ {rab, esm} \subseteq Nat /\ {emm, left} \subseteq BOOLEAN
    /\ \A m \in Messages(app) : m.type = "initial" => ctx.exists /\ emm

\* Nothing is under way between the tasks of the MME; release timers may run.
Quiet == app = <<>> /\ s1ap = <<>> /\ nas = <<>> /\ rab = 0 /\ esm = 0

\* The release timer ended the reference of the present connection.
Lapsed == ctx.enb_ue # None /\ refs[ctx.enb_ue] = "lapsed"

\* No release timer will end the reference.
Untimed(c) == c # None /\ refs[c] = "untimed"

\* S1AP keeps at most one reference with the MME UE S1AP ID of the UE, as
\* s1ap_is_ue_mme_id_in_list takes the first it finds.  Whenever nothing is under
\* way, the reference S1AP keeps is that of the connection the UE context has, and
\* a registered UE without one is ECM-IDLE, so that downlink data pages it
\* (mme_app_handle_downlink_data_notification answers "UE already connected"
\* otherwise).  Excepted are references the release timer removed, whose message
\* does not tell MME_APP which connection it is about.
ConnectionAgrees ==
    /\ Cardinality(WithId) <= 1
    /\ Quiet /\ ctx.exists =>
        /\ \A c \in Conns : refs[c] \in {"new", "ue"} => ctx.key = c
        /\ ctx.registered /\ (\A c \in Conns : ~Live(c)) /\ ~Lapsed => ctx.key = None

\* Whatever crosses a release, it comes to its end: when nothing is under way and
\* no release timer runs, no reference is left of a connection whose eNB asked for
\* the release or was lost, and none is left of the context of a UE that detached.
\* Excepted are connections whose loss S1AP told of without the MME UE S1AP ID, and
\* of a detached UE the reference whose release timer has the key of another eNB.
ReleasesEnd ==
    Quiet /\ (\A c \in Conns : refs[c] # "crr") =>
        /\ ctx.exists => \A c \in Conns : Live(c) /\ ~(Untimed(c) /\ ~ctx.registered) =>
            ~enb[c].asked /\ (enb[c].at \in lost => enb[c].unnamed)
        /\ left /\ ~Lapsed /\ ~Untimed(ctx.enb_ue) => ~ctx.exists

\* The remaining four do not hold.
\*
\* "Implicit Detach Timer-Start at the expiry of Mobile Reachability timer"
\* (mme_app_ue_context.h:117): a UE that stays idle and silent is detached.
SilentUeDetached == <>[](ctx.key = None) => <>~ctx.exists

\* "Remove UE context and inform MME_APP" (s1ap_mme_handlers.c:3242): after the
\* release timer expired MME_APP has the UE idle, and pages it.
ExpiryMakesIdle ==
    Quiet /\ ctx.exists /\ ctx.registered /\ (\A c \in Conns : ~Live(c)) => ctx.key = None

\* A UE that connected again is not removed on account of its old connection: a
\* context goes only when S1AP has no live reference of its connection left.
RemovedWithoutReference ==
    Quiet /\ ~ctx.exists => \A c \in Conns : ~Live(c)

\* "Use enb_ue_s1ap_id_key to get the UE context - In case MME APP could not update
\* S1AP with valid mme_ue_s1ap_id before context release is triggered from s1ap"
\* (mme_app_context.c:1616): no reference is left at an eNB that was lost.
LostReleased ==
    Quiet /\ ctx.exists /\ (\A c \in Conns : refs[c] # "crr") =>
        \A c \in Conns : enb[c].at \in lost => ~Live(c)
=============================================================================
