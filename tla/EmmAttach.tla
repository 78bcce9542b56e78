------------------------------ MODULE EmmAttach ------------------------------
(***************************************************************************)
(* The attach procedure of the MME (TASK_NAS_EMM) for one subscriber, who  *)
(* attaches with his IMSI: authentication, with vectors of the HSS and     *)
(* resynchronisation, security mode control, and the attach accept made    *)
(* with the answer of ESM.                                                 *)
(*                                                                         *)
(* One task handles every message in the order of its queue; a handler is  *)
(* a step.  The EMM context has procedures with one timer each:            *)
(*     attach T3450, auth T3460, smc T3460, info (S6a request) Ts6a        *)
(* A timer that expires becomes a message with the ue_id as its argument;  *)
(* stopping a timer does not take that message back.                       *)
(*                                                                         *)
(* External: the UE, which answers the messages of its own attach; the HSS,*)
(* which answers a request late or never; ESM, which is asked for the PDN  *)
(* connection and has timers of its own; MME_APP, which may detach the UE. *)
(* A refusal is not shown to the UE: it begins a new attach when the MME   *)
(* has dropped the old context (bound), under a new ue_id.                 *)
(*                                                                         *)
(* Left out are failures inside the MME: no GUTI for the attach accept or  *)
(* an accept that EMMAS does not take (Attach.c:2078-2090), after which    *)
(* T3450 does not run, and a detach request that cannot be sent            *)
(* (Detach.c:326-343), after which the context stays.                      *)
(***************************************************************************)
EXTENDS Integers, Sequences, FiniteSets

CONSTANTS
    ATTACH_COUNTER_MAX,
    AUTHENTICATION_COUNTER_MAX,
    SECURITY_COUNTER_MAX,
    EMM_AUTHENTICATION_SYNC_FAILURE_MAX,
    MaxAttach               \* bound: attach requests of the UE

ASSUME CountersAssumption ==
    {ATTACH_COUNTER_MAX, AUTHENTICATION_COUNTER_MAX, SECURITY_COUNTER_MAX,
     EMM_AUTHENTICATION_SYNC_FAILURE_MAX, MaxAttach} \subseteq Nat \ {0}

UeIds == 1 .. MaxAttach
INACTIVE == 0                                   \* NAS_TIMER_INACTIVE_ID
Procs == {"attach", "auth", "smc", "info"}
Commons == {"auth", "smc"}
States == {"deregistered", "common", "registered"}

VARIABLES
    emm,        \* the EMM context of the subscriber, NoContext if there is none
    running,    \* timers of the MME that run
    mailbox,    \* messages to TASK_NAS_EMM
    air,        \* messages on their way to the UE
    s6a,        \* requests the HSS has to answer
    esm,        \* ue_ids for which ESM has to answer
    ue          \* the UE: its attach, and whether the HSS knows its SQN and key

vars == <<emm, running, mailbox, air, s6a, esm, ue>>

\* procs: the procedures that exist; timer: the id each holds; count:
\* attach_accept_sent and retransmission_count; prev: previous_emm_fsm_state;
\* synch: sync_fail_count; good: the UE accepts the vector of the challenge.
NewContext(u) ==
    [ue |-> u, fsm |-> "deregistered", procs |-> {"attach", "auth"},
     timer |-> [p \in Procs |-> INACTIVE], count |-> [p \in Procs |-> 0],
     prev |-> [p \in Commons |-> "deregistered"], synch |-> 0, good |-> FALSE]

NoContext == [NewContext(0) EXCEPT !.procs = {}]

Init ==
    /\ emm = NoContext
    /\ running = {}
    /\ mailbox = <<>> /\ air = <<>> /\ s6a = <<>>
    /\ esm = {}
    /\ ue \in [id : {0}, synched : BOOLEAN, key : BOOLEAN]

-----------------------------------------------------------------------------
(* Timers *)

\* An id that no timer and no procedure has.
FreshId(r, e) ==
    LET used == {t.id : t \in r} \cup {e.timer[p] : p \in Procs}
    IN  CHOOSE i \in 1 .. (Cardinality(used) + 1) : i \notin used

\* nas_stop_T3450, nas_stop_T3460, nas_stop_Ts6a_auth_info
Stop(r, e, p) == {t \in r : t.id # e.timer[p]}

StopAll(r, e, ps) == {t \in r : \A p \in ps : t.id # e.timer[p]}

Forget(e, ps) == [e EXCEPT !.timer = [p \in Procs |-> IF p \in ps THEN INACTIVE ELSE @[p]]]

\* The timer of p is stopped and started: of the context e with the timers r.
Restart(e, r, p) ==
    LET r1 == Stop(r, e, p)
        e1 == Forget(e, {p})
        id == FreshId(r1, e1)
    IN  /\ emm' = [e1 EXCEPT !.timer[p] = id]
        /\ running' = r1 \cup {[id |-> id, proc |-> p, ue |-> e.ue]}

Delete(e, ps) == [Forget(e, ps) EXCEPT !.procs = @ \ ps]

ToUe(type, good) == air' = Append(air, [type |-> type, ue |-> emm.ue, good |-> good])

-----------------------------------------------------------------------------
(* Handlers.  The message is taken from the mailbox; a message for another *)
(* ue_id finds no context, one for a procedure that is gone does nothing.  *)

Message(type) ==
    /\ mailbox # <<>>
    /\ Head(mailbox).type = type
    /\ mailbox' = Tail(mailbox)

\* A handler that finds its context and its procedure.
Handles(type, p) ==
    /\ Message(type)
    /\ Head(mailbox).ue = emm.ue
    /\ p \in emm.procs

\* What a message needs to be handled: the procedure it is for.
ProcedureOf ==
    [response |-> "auth", synch |-> "auth", mac |-> "auth",
     smcComplete |-> "smc", smcReject |-> "smc",
     esmAccept |-> "attach", esmReject |-> "attach",
     t_attach |-> "attach", t_auth |-> "auth", t_smc |-> "smc", t_info |-> "info",
     vector |-> "info", error |-> "info"]

TimeOutOf == [attach |-> "t_attach", auth |-> "t_auth", smc |-> "t_smc", info |-> "t_info"]

Discard ==
    /\ mailbox # <<>>
    /\ LET m == Head(mailbox)
       IN  \/ m.ue # emm.ue /\ m.type \notin {"attach", "vector", "error"}
           \/ m.type \in DOMAIN ProcedureOf /\ ProcedureOf[m.type] \notin emm.procs
    /\ mailbox' = Tail(mailbox)
    /\ UNCHANGED <<emm, running, air, s6a, esm, ue>>

\* _clear_emm_ctxt: the procedures are deleted and their timers stopped.
ClearContext(r) ==
    /\ emm' = NoContext
    /\ running' = StopAll(r, emm, emm.procs)

\* A handler that ends the attach: _emm_attach_reject, _emm_attach_release,
\* or an implicit detach.  All of them clear the context.
Ends == ClearContext(running) /\ UNCHANGED <<air, s6a, esm, ue>>

\* Mutant: the request to the HSS has no timer.
RequestVectorsUntimed(e, r, kind) ==
    /\ emm' = [e EXCEPT !.procs = @ \cup {"info"}]
    /\ running' = r
    /\ s6a' = Append(s6a, kind)

\* _start_authentication_information_procedure
RequestVectors(e, r, kind) ==
    /\ Restart([e EXCEPT !.procs = @ \cup {"info"}], r, "info")
    /\ s6a' = Append(s6a, kind)

\* emm_proc_attach_request: a context, the attach procedure, authentication.
AttachRequest ==
    /\ Message("attach")
    /\ emm = NoContext
    /\ RequestVectors(NewContext(Head(mailbox).ue), running, "initial")
    /\ UNCHANGED <<air, esm, ue>>

\* Mutant: the state before a resynchronisation is taken before the abort.
PreviousOfChallengeLate(e) == e.fsm

\* EMMREG_COMMON_PROC_ABORT of _auth_info_proc_success_cb returns to the previous
\* state before the procedure, set up again, stores it.
PreviousOfChallenge(e) == IF e.fsm = "common" THEN e.prev["auth"] ELSE e.fsm

\* An S6a answer, found by IMSI, ends the request that waits, whichever it is an
\* answer to: the vector is stored and the UE challenged with it.
AuthInfoAnswer ==
    /\ Message("vector")
    /\ "info" \in emm.procs /\ "auth" \in emm.procs
    /\ LET good == Head(mailbox).good
           e    == [Delete(emm, {"info"}) EXCEPT
                      !.good = good, !.fsm = "common", !.count["auth"] = 0,
                      !.prev["auth"] = PreviousOfChallenge(emm)]
       IN  /\ Restart(e, Stop(running, emm, "info"), "auth")
           /\ ToUe("challenge", good)
    /\ UNCHANGED <<s6a, esm, ue>>

\* _auth_info_proc_failure_cb, for an error of the HSS and for Ts6a: the attach
\* is rejected, by the callback of authentication.
AuthInfoFailure ==
    /\ \/ Message("error") /\ "info" \in emm.procs
       \/ Handles("t_info", "info")
    /\ "auth" \in emm.procs
    /\ Ends

\* emm_proc_authentication_complete, in the state where the procedure confirms.
AuthenticationComplete ==
    /\ Handles("response", "auth")
    /\ emm.fsm = "common"
    /\ LET e == [Delete(emm, {"auth"}) EXCEPT
                   !.procs = @ \cup {"smc"}, !.count["smc"] = 0,
                   !.prev["smc"] = emm.prev["auth"], !.fsm = "common"]
       IN  Restart(e, Stop(running, emm, "auth"), "smc")
    /\ ToUe("smc", TRUE)
    /\ UNCHANGED <<s6a, esm, ue>>

\* emm_proc_authentication_failure, synch failure, first time: the request with
\* AUTS; the vectors are cleared, the challenge stays in the procedure.
Resynchronise ==
    /\ Handles("synch", "auth")
    /\ emm.synch + 1 < EMM_AUTHENTICATION_SYNC_FAILURE_MAX
    /\ "info" \notin emm.procs
    /\ RequestVectors([Forget(emm, {"auth"}) EXCEPT !.synch = @ + 1],
                      Stop(running, emm, "auth"), "resync")
    /\ UNCHANGED <<air, esm, ue>>

\* ... and the failures after which EMMREG_COMMON_PROC_REJ rejects the attach.
AuthenticationFailure ==
    /\ \/ Handles("synch", "auth") /\ emm.synch + 1 >= EMM_AUTHENTICATION_SYNC_FAILURE_MAX
       \/ Handles("mac", "auth")
    /\ emm.fsm = "common"
    /\ Ends

\* The request of p is sent again, and its timer started.
Repeat(p, type, good) ==
    /\ Restart([emm EXCEPT !.count[p] = @ + 1], running, p)
    /\ ToUe(type, good)
    /\ UNCHANGED <<s6a, esm, ue>>

CounterMax == [attach |-> ATTACH_COUNTER_MAX, auth |-> AUTHENTICATION_COUNTER_MAX,
               smc |-> SECURITY_COUNTER_MAX]

\* Mutant: the counters do not end the repetitions.
LastExpiryNever(p) == FALSE

\* The expiry at which the procedure gives up.
LastExpiry(p) == emm.count[p] + 1 >= CounterMax[p]

\* _authentication_t3460_handler: any procedure that it finds by the ue_id, also
\* one that waits for new vectors.
T3460Authentication ==
    /\ Handles("t_auth", "auth")
    /\ IF LastExpiry("auth") THEN emm.fsm = "common" /\ Ends
                             ELSE Repeat("auth", "challenge", emm.good)

\* _security_t3460_handler; the abort of the procedure detaches the UE.
T3460Security ==
    /\ Handles("t_smc", "smc")
    /\ IF LastExpiry("smc") THEN Ends ELSE Repeat("smc", "smc", TRUE)

\* Mutant: the timer of the procedure is not stopped before it is freed.
SmcTimerStoppedNot == running

SmcTimerStopped == Stop(running, emm, "smc")

\* emm_proc_security_mode_complete: ESM is given the message of the UE.
SecurityModeComplete ==
    /\ Handles("smcComplete", "smc")
    /\ emm' = [Delete(emm, {"smc"}) EXCEPT !.fsm = emm.prev["smc"]]
    /\ running' = SmcTimerStopped
    /\ esm' = esm \cup {emm.ue}
    /\ UNCHANGED <<air, s6a, ue>>

\* emm_proc_security_mode_reject
SecurityModeReject == Handles("smcReject", "smc") /\ Ends

\* _emm_wrapper_attach_accept
AttachAccept ==
    /\ Handles("esmAccept", "attach")
    /\ Restart([emm EXCEPT !.count["attach"] = @ + 1, !.fsm = "common"], running, "attach")
    /\ ToUe("accept", TRUE)
    /\ UNCHANGED <<s6a, esm, ue>>

\* _emm_wrapper_attach_reject
EsmReject == Handles("esmReject", "attach") /\ Ends

\* _emm_attach_t3450_handler
T3450 ==
    /\ Handles("t_attach", "attach")
    /\ IF LastExpiry("attach") THEN Ends ELSE Repeat("attach", "accept", TRUE)

\* emm_proc_attach_complete; the second of two completes finds the UE registered.
AttachComplete ==
    /\ Message("complete")
    /\ Head(mailbox).ue = emm.ue
    /\ IF emm.fsm \in {"common", "registered"}
       THEN /\ emm' = [Delete(emm, {"attach"}) EXCEPT !.fsm = "registered"]
            /\ running' = Stop(running, emm, "attach")
       ELSE ClearContext(running)
    /\ UNCHANGED <<air, s6a, esm, ue>>

\* NAS_IMPLICIT_DETACH_UE_IND of MME_APP: emm_proc_detach
ImplicitDetach ==
    /\ Message("detach")
    /\ Head(mailbox).ue = emm.ue
    /\ Ends

EmmTask ==
    \/ AttachRequest \/ AuthInfoAnswer \/ AuthInfoFailure
    \/ AuthenticationComplete \/ Resynchronise \/ AuthenticationFailure
    \/ T3460Authentication \/ T3460Security \/ T3450
    \/ SecurityModeComplete \/ SecurityModeReject
    \/ AttachAccept \/ EsmReject \/ AttachComplete \/ ImplicitDetach
    \/ Discard

-----------------------------------------------------------------------------
(* The timers and the surroundings of the task *)

ToEmm(type, u, good) == mailbox' = Append(mailbox, [type |-> type, ue |-> u, good |-> good])

\* timer_handle_signal
Expire(t) ==
    /\ running' = running \ {t}
    /\ ToEmm(TimeOutOf[t.proc], t.ue, FALSE)
    /\ UNCHANGED <<emm, air, s6a, esm, ue>>

\* The UE begins an attach.
UeAttach ==
    /\ emm = NoContext
    /\ ue.id < MaxAttach
    /\ \A i \in 1 .. Len(mailbox) : mailbox[i].type # "attach"
    /\ ue' = [ue EXCEPT !.id = @ + 1]
    /\ ToEmm("attach", ue.id + 1, FALSE)
    /\ UNCHANGED <<emm, running, air, s6a, esm>>

\* The UE takes a message of its attach and answers it.
UeAnswer(type) ==
    /\ air # <<>> /\ Head(air).ue = ue.id
    /\ LET m == Head(air)
       IN  CASE m.type = "challenge" -> type = IF ~ue.key THEN "mac"
                                               ELSE IF m.good THEN "response" ELSE "synch"
             [] m.type = "smc"       -> type \in {"smcComplete", "smcReject"}
             [] m.type = "accept"    -> type = "complete"
    /\ air' = Tail(air)
    /\ ToEmm(type, ue.id, FALSE)
    /\ UNCHANGED <<emm, running, s6a, esm, ue>>

\* A message to the UE, or its answer, is lost.
Lose ==
    /\ air # <<>>
    /\ air' = Tail(air)
    /\ UNCHANGED <<emm, running, mailbox, s6a, esm, ue>>

TakeS6a(i) == s6a' = SubSeq(s6a, 1, i - 1) \o SubSeq(s6a, i + 1, Len(s6a))

\* The HSS answers a request, with a vector above the SQN it knows of the UE or
\* with an error; the AUTS of a resynchronisation tells it that of the UE.
HssAnswer(i) ==
    /\ TakeS6a(i)
    /\ \/ /\ ue' = [ue EXCEPT !.synched = @ \/ s6a[i] = "resync"]
          /\ ToEmm("vector", 0, ue'.synched)
       \/ UNCHANGED ue /\ ToEmm("error", 0, FALSE)
    /\ UNCHANGED <<emm, running, air, esm>>

HssSilent(i) ==
    /\ TakeS6a(i)
    /\ UNCHANGED <<emm, running, mailbox, air, esm, ue>>

EsmAnswer(u) ==
    /\ esm' = esm \ {u}
    /\ \E type \in {"esmAccept", "esmReject"} : ToEmm(type, u, FALSE)
    /\ UNCHANGED <<emm, running, air, s6a, ue>>

\* MME_APP detaches the UE while its context exists.
MmeAppDetach ==
    /\ emm # NoContext
    /\ \A i \in 1 .. Len(mailbox) : mailbox[i].type # "detach"
    /\ ToEmm("detach", emm.ue, FALSE)
    /\ UNCHANGED <<emm, running, air, s6a, esm, ue>>

UeTypes == {"response", "synch", "mac", "smcComplete", "smcReject", "complete"}

Next ==
    \/ EmmTask
    \/ \E t \in running : Expire(t)
    \/ UeAttach \/ Lose
    \/ \E type \in UeTypes : UeAnswer(type)
    \/ \E i \in 1 .. Len(s6a) : HssAnswer(i) \/ HssSilent(i)
    \/ \E u \in esm : EsmAnswer(u)
    \/ MmeAppDetach

\* The task serves its queue, timers that keep running expire, ESM answers.
Fairness ==
    /\ WF_vars(EmmTask)
    /\ WF_vars(\E t \in running : Expire(t))
    /\ \A u \in UeIds : WF_vars(u \in esm /\ EsmAnswer(u))

Spec == Init /\ [][Next]_vars /\ Fairness

-----------------------------------------------------------------------------
(* Properties *)

Context ==
    [ue : 0 .. MaxAttach, fsm : States, procs : SUBSET Procs, timer : [Procs -> Nat],
     count : [Procs -> Nat], prev : [Commons -> States], synch : Nat, good : BOOLEAN]

\* The fields of the context, of the timers and of the messages have their types;
\* no request is counted above the limit of its procedure.
TypeOK ==
    /\ emm \in Context
    /\ \A p \in DOMAIN CounterMax : emm.count[p] <= CounterMax[p]
    /\ \A t \in running : t.id \in Nat \ {0} /\ t.proc \in Procs /\ t.ue \in UeIds
    /\ \A i \in 1 .. Len(mailbox) : mailbox[i].ue \in 0 .. MaxAttach
    /\ \A i \in 1 .. Len(air) : air[i].type \in {"challenge", "smc", "accept"}
    /\ \A i \in 1 .. Len(s6a) : s6a[i] \in {"initial", "resync"}
    /\ esm \subseteq UeIds
    /\ ue \in [id : 0 .. MaxAttach, synched : BOOLEAN, key : BOOLEAN]

\* A procedure that is freed, by nas_delete_common_procedure (which stops no timer)
\* or with its context, leaves no timer behind: each timer that runs is the one
\* its procedure in the present context holds, so that every later stop reaches it.
TimersOwned ==
    \A t \in running :
        t.ue = emm.ue /\ t.proc \in emm.procs /\ emm.timer[t.proc] = t.id

\* The challenge is out, or a resynchronisation after it.
Challenged == "auth" \in emm.procs /\ ("info" \in emm.procs => emm.synch > 0)

\* The state machine discards COMMON_PROC_CNF, _REJ and _ABORT in a state other than
\* COMMON-PROCEDURE-INITIATED, which would leave the attach without an end.  It is in
\* that state exactly while a challenge, a security mode command or an attach accept
\* awaits the UE; no S6a request runs in it except for a resynchronisation, and
\* then no second is made (the AssertFatal of the resynchronisation holds).
FsmMatches ==
    emm # NoContext =>
        /\ emm.fsm = "common" <=> \/ Challenged \/ "smc" \in emm.procs
                                  \/ "attach" \in emm.procs /\ emm.count["attach"] > 0
        /\ emm.fsm = "registered" <=> emm.procs = {}
        /\ "info" \in emm.procs => /\ "auth" \in emm.procs
                                   /\ emm.fsm = "common" <=> emm.synch > 0

\* Whatever is lost, late or crosses a time-out, every attach ends: the UE is
\* registered, or its context is gone.
AttachEnds ==
    \A u \in UeIds :
        (emm.ue = u) ~> (emm.ue # u \/ emm.fsm = "registered")

\* 3gpp_requirements_24.301.h, R10_5_4_2_7_e__3: the authentication procedure is
\* initiated when the resynchronisation is complete.  While the request with AUTS
\* runs the UE is sent no challenge.
NoChallengeInResync ==
    [][("info" \in emm.procs /\ "info" \in emm'.procs /\ emm.ue = emm'.ue)
         => Len(air') <= Len(air)]_vars

\* The same file, R10_5_5_1_2_7_c: the attach accept is repeated four times, and on
\* the fifth expiry of T3450 the attach is aborted.
FourRepetitions ==
    [][(mailbox # <<>> /\ Head(mailbox).type = "t_attach" /\ "attach" \in emm.procs
          /\ mailbox' = Tail(mailbox) /\ emm' = NoContext)
         => emm.count["attach"] = ATTACH_COUNTER_MAX]_vars
=============================================================================
