# TLA+ models of the LTE core network (MME, HSS, SPGW-C, SPGW-U)

The repository holds the network functions of a small 4G core network. The
models here are translated from the C and C++ sources. TLC checks small
instances; TLAPS checks the theorems of the modules named `...Proofs`, for every
value of the constants. Paths below are relative to `src/component/` of the repository.

## 1. The system

| component | state | operations | talks to |
|---|---|---|---|
| **ITTI** (`oai-spgwc/src/itti`, the same code in SPGW-U) | a message queue per task, an ordered set of timers, `current_timer` | `send_msg`, `receive_msg`, `timer_setup`, `timer_remove`, the thread `timer_manager_task` | every task |
| **GTPv2-C stack** (`oai-spgwc/src/gtpv2c`) | `pending_procedures` by sequence number, transaction id to sequence number, two tables of timers | receive callback, send initial, send triggered, time-out | the S11 and S5/S8 tasks own one each; UDP reader threads call it |
| **PFCP stack** (`oai-spgwc/src/pfcp`, the same file in SPGW-U) | as above | as above | the Sxab task of PGW-C, the SX task of SPGW-U |
| **PFCP associations** (`oai_spgwc/pgw_pfcp_association.cpp`, `spgwu/spgwu_pfcp_association.cpp`) | node to association: time stamp, heartbeat timer, retries, last transaction | set up, heartbeat request, response, time-out | Sxab task and two reader threads |
| **SGW-C application** (`sgwc_app.cpp`, `sgwc_eps_bearer_context.cpp`, `sgwc_procedure.cpp`) | bearer contexts by IMSI and by TEID, PDN connections, procedures in progress | S11 requests, S5/S8 responses | S11 and S5/S8 tasks by ITTI messages |
| **PGW-C application** (`pgw_app.cpp`, `pgw_context.cpp`, `pgwc_procedure.cpp`, `pgw_paa_dynamic.hpp`) | contexts by IMSI, TEID and SEID, APNs, connections, procedures, address pool | S5/S8 requests, Sx responses and reports | S5/S8 and Sxab tasks |
| **SPGW-U** (`oai-spgwu-tiny/src/spgwu`) | sessions with PDRs and FARs, table of UE addresses, associations | Sx requests, GTP-U packets | PGW-C, eNB |
| **MME, NAS EMM** (`oai-mme/src/nas/emm`) | EMM contexts with procedures, their timers, state machine | messages of the UE, answers of HSS and ESM, time-outs | MME_APP, S6a, ESM |
| **MME, MME_APP** (`oai-mme/src/mme_app`) | UE contexts: ECM and registration state, key of the S1 connection, release cause, timers; sessions and bearers | messages of S1AP, NAS, S11, S10, S6a, time-outs | the other tasks of the MME |
| **MME, S1AP** (`oai-mme/src/s1ap`) | eNBs, UE references with their state and release timer | messages of eNBs, commands of MME_APP, loss of an association | eNBs, MME_APP, NAS |
| **MME, the rest** (`oai-mme/src`) | ESM contexts, its own GTPv2-C stack | S11, S10, S6a handlers | HSS, SGW-C, other MMEs |
| **HSS** (`oai-hss/src/hss_rel14`) | worker queue with slots, processors in phases, subscribers in a database, among it the authentication sequence number | S6a (authentication, location, purge), S6t | MME |

A network function is a set of tasks (threads) with a queue each. Requests of
the peers enter through UDP reader threads, which run the receive callback of
the protocol stack themselves and pass what is new to the application task.
The application answers by a message to the task of the interface. One thread
serves all timers and posts `TIME_OUT` messages.

**What is hard.** Three kinds of threads use the tables of a stack without a
lock. A `TIME_OUT` is a message in a queue: stopping a timer does not take back
one that was posted, so every stop may cross its time-out. UDP loses, repeats
and reorders. Clean-up timers race repetition timers. Sequence numbers are
short and both sides choose them. The timer thread waits on two condition
variables with a gap between two locks. PGW-C and SPGW-U keep the same sessions
on both sides of a network that loses what nobody repeats. The HSS drives each
request by workers, callbacks and a recursive mutex, and reads a row long before
it writes it. The MME runs its procedures in one task, but their timers post
into its queue, and the HSS answers late. The connection of a UE is kept by two
tasks of the MME that tell each other by messages, while the UE connects again
and eNBs come and go. `PROJECT.json` lists each hazard at its
line, with the properties that cover it.

**What makes the components correct.**
ITTI: each timer is posted once, not early, or removed. Stacks: each request
ends exactly once and in time, answers keep their number, nothing stays for
ever. Associations: a silent node is found out and a node that answers is not
given up. Sessions: a bearer context, the tables that lead to it and the
procedures on it agree, and each request gets one response. Both gateways: an
address belongs to one connection and goes back when no packet is routed by it
any more. HSS: no sequence number is used for two vectors, no request is
forgotten. EMM: a procedure and its timer live and die together, and every
attach ends. MME_APP and S1AP: they agree on the connection of a UE when
nothing is under way, and every release comes to its end.

## 2. The modules

| module | models | reads |
|---|---|---|
| `RequestReply` | the promise of a request stack (abstract) | `GtpcStack`, `PfcpStack` implement it |
| `GtpcStack` | `gtpv2c_stack` with the mailbox of its task, the timer thread, the application | |
| `GtpcStackProofs` | the theorems about `GtpcStack` | |
| `TimerService` | the promise of the timers (abstract) | `IttiTimers` implements it |
| `IttiTimers` | `timer_setup`, `timer_remove`, `timer_manager_task` | |
| `IttiTimersProofs` | the theorems about `IttiTimers` | |
| `PfcpAssociations` | `pfcp_associations` of PGW-C and its callers in `pgwc_sxab` | |
| `PfcpStack` | `pfcp_l4_stack` as `pgwc_sxab` uses it | |
| `PfcpProofs` | the theorems about `PfcpStack` and `PfcpAssociations` | extends both |
| `SgwcSession` | the SGW-C application: bearer contexts, PDN connections, tables, procedures | relies on the promise of `RequestReply` |
| `SgwcSessionProofs` | the theorems about `SgwcSession` | |
| `PaaPool` | `pgw_paa_dynamic`: the bitmap of addresses, its arithmetic on words | |
| `AddressLeases` | the promise about addresses (abstract) | `PgwcSession` implements it |
| `PgwcSession` | the PGW-C application, the sessions of SPGW-U, the messages between them | extends `PaaPool` |
| `PgwcSessionProofs` | the theorems about `PgwcSession` and the bitmap of `PaaPool` | |
| `HssAuthentication` | the authentication procedure of the HSS, its worker queue and callbacks | |
| `HssAuthenticationProofs` | the theorems about `HssAuthentication` | |
| `EmmAttach` | the attach procedure of NAS EMM with its common procedures and timers | |
| `EmmAttachProofs` | the theorems about `EmmAttach` | |
| `UeContext` | the S1 connection of a UE in MME_APP and S1AP, with what NAS, S11 and the eNBs send | |
| `UeContextProofs` | the theorems about `UeContext` | |
| `StdMap`, `MC...` | operations of `std::map`; what the configurations instantiate | |

Each action names the handler it stands for, and `PROJECT.json` ("map") its
lines. A message is its type, its number and nothing else; encoding, logging
and the contents of information elements are left out.

### GtpcStack

The variables `seq_num`, `pending_procedures`, `gtpc_tx_id2seq_num`,
`msg_out_retry_timers` and `proc_cleanup_timers` are the members of the class.
`retry_msg` of a procedure is a Boolean for "not null". `clock` maps each timer
that was set up, and not removed, to the time it has left; `mailbox` is the
queue of the interface's task. `owed` and `fate` are history: the requests the
application has yet to answer, and how each request of this node stands.

The reader thread takes `Receive...` steps (a new request, a request that is
repeated while pending is discarded and therefore no step, an echo request,
which the reader answers itself, a response). The task takes the first message
of its mailbox: `TaskSendInitial`, `TaskSendTriggered`, and the four branches
of `time_out_event`. The application only appends to the mailbox.

Time is explicit. `Tick` lets all timers run; it is blocked when a timer has
been expired for `LATENESS` units and is not handled, so a time-out is handled
at most `LATENESS` late. That is an assumption about ITTI and the load of the
task, and section 5 shows that ITTI does not always keep it.

Two guards bound the model: a sequence number is used once by this node and is
not one the peer uses. Where it does not hold (the counter starts from the
clock, and the key of the tables does not name the peer) requests of the two
sides share an entry; for the same tables `PfcpStack` models that.

A handler is one step. In the code a reader thread and the task may be in the
maps at the same moment; a data race inside `std::map` is undefined and has no
set of outcomes to choose from, so the model starts from whole handlers.

### IttiTimers

A step lies between two operations on a lock, or two unlocked reads of
`current_timer`. `manager` is the program counter of the timer thread. A caller
keeps `m_timers` until it has notified `c_timeout`, so `caller` needs two
values only. The condition variable may wake spuriously, and may report a
time-out to a thread that was notified when the time is over too. `null_timer`
expires at `Never`, beyond the end of the model's clock (in the code some 136
years ahead). The set drops an element that compares equal; configurations set
`DistinctTimes`, since the clock counts nanoseconds. With equal times allowed
`TimersKept` is violated. Identifiers are distinct here; in the code
`increment_timer_id` (`itti.cpp:137`, `325`) is an unlocked `++`, so two calls at the
same instant may get one identifier, which is not modelled. The refinement maps a timer that is posted a second
time to a state `TimerService` does not have, so that `TimerServiceSafe` also
says that none is.

### PfcpAssociations

Three threads: the Sxab task (`InitiateHeartbeatRequest`, `Retry...`, `Fail...`
and the three writes of `send_heartbeat_request`), the reader of the responses
(`timer_remove`, then `trigger_heartbeat_request_procedure`) and the reader of
setup requests. A step is what lies between two accesses to the shared fields
of an association. A running timer may expire at any time: the periods (5 s
both) never matter for the properties. The sessions of an association stay
empty, since nothing calls `notify_add_session`, so the restoration of sessions
has nothing to do. The definitions that `PfcpStack` has too are named
`Assoc...` here, since one module proves about both.

### PfcpStack

As `GtpcStack`, with the numbers of both sides in one small space so that they
meet and wrap. The timers of the stack carry the argument 0, and the task
dispatches `TIME_OUT` by that argument to the heartbeat procedure, which does
not find an association: `time_out_event` is never run. The timers are modelled
(`TimeOut` does nothing), the tables only `time_out_event` reads are not.

### SgwcSession

One task runs every handler of `sgwc_app`, so a handler is one step. The
variables `imsi2sgw_eps_bearer_context`, `s11lteid2sgw_eps_bearer_context` and
`s5s8lteid2sgw_contexts` are the tables; `ebc` and `pdn` hold the objects they
share, named by the TEID they are given when they are made. `s5s8` is the set of
requests this node made of PGW-C and that have not ended. Below it lies a GTPv2-C
stack, of which only the promise of `RequestReply` is used: each request ends
once, by a response (`CreateResponse`, ...) or by `NotResponding`. The MME may
make any request at any time for a TEID it was told, in use or not, also while
another is pending.

`CreateForKnown` is the whole handler of a create request for a subscriber that
has a context: the collision, the delete request the application emulates with
transaction 0, the deletion of the connection, then the procedure, which fails
without a response if the APN has a connection left. `DeleteSessionRequest`
makes a procedure for each connection it deletes, `ModifyBearerRequest` one
procedure with a request for each connection. The variables `told`, `answers`,
`made` and `path` are history. `path` is the F-TEID the session of PGW-C has
according to its own responses; a release takes it away.

A connection has one bearer. The code has maps of bearers, but a create request
brings one bearer in this system, and PGW-C removes none.

Responses of PGW-C are well formed, as this repository's PGW-C sends them. An
accepted create response whose F-TEID of PGW-C is not of the right type or has TEID 0
is ignored (`sgwc_app.cpp:608-623`) and leaves the connection half open, without an
answer to the MME; a modify response without a cause is not answered either
(`sgwc_procedure.cpp:735-737`). For such a peer `HalfOpenEnds` would not hold.

### PgwcSession

PGW-C and SPGW-U in one module. PGW-C runs its handlers in one task, so a
handler is a step. `imsi2pgw_context`, `s5s8lteid2pgw_context` and
`seid2pgw_context` are the tables of PGW-C; `pc` and `pdn` hold the objects;
`apns` are the `apn_context` objects of a context, each the set of its connections.
A create request addresses TEID 0, so `find_pdn_connection` finds neither a
connection nor the APN, and each request makes an `apn_context` of its own
(`InsertPdn`). `alloc` is the bitmap of the pool. `sessions` and `ue_ip` are those of SPGW-U:
`ue_ip` is the table by which a downlink packet finds its rule. `sx` is the set
of PFCP messages under way. They come in any order, and one that is never taken
is lost: the PFCP stack sends each once and reports nothing (`PfcpStack`).

A connection goes through `CreateSessionRequest` (address, uplink rules),
`ModifyBearerRequest` (the first creates the downlink rules, the others update
both FARs, one that changes nothing is answered at once),
`ReleaseAccessBearersRequest` and `DeleteSessionRequest`, each followed by what
SPGW-U does with the request (`Handle...`) and PGW-C with the response.

In SPGW-U two tasks work on the sessions and on the table of UE addresses, and
nothing is locked. TASK_SPGWU_APP takes the requests of PGW-C. TASK_SPGWU_SX deletes
the sessions one by one when the association fails (`del_sessions`), at any speed.
So what one task may find changed by the other is two steps: a modification finds
its session (`HandleModification`, `pfcp_switch.cpp:736`) and enters the rules later
(`EnterRules`), in a session that may be cleaned up or erased meanwhile; a deletion by
TASK_SPGWU_SX is the clean-up (`CleanSessionUp`) and the erasure (`EraseSession`).
A deletion request is one step: the other task only removes, so what crosses it has
one of the outcomes of the steps in some order. `modifying` and `deleting` are what
the two tasks have in hand. A data race inside a `std::vector` or
`std::unordered_map`, which both may change at the same instant, is undefined and
left out.

`PacketInCore` is a packet for a UE without a path, which is reported once.
`told`, `overlapped` and `paged` are history.

`PaaPool` keeps the words of the bitmap with `WordBits` bits instead of 32,
with their wrapping arithmetic. `AddressLeases` says of one address: it is
free, held by one connection, routed to it, and free again only from a state in
which nothing is routed by it.

### HssAuthentication

One subscriber. `queue`, `active` and `starts` are the worker queue with its
slots. A processor has `next` (`m_nextphase`), `msgs` (messages in the work
queue), `issued` and `executed` (its database operations) and may be `locked`
by a worker. A worker step is one phase; it holds the processor's mutex from
its first phase until the next is not ready. The callback of an operation runs
on a thread of the database driver: it records the result without the mutex
(`GetDone`, `UpdateDone`), then takes the mutex, posts a message for the
processor and counts the operation off (`Callback`). So a worker may find a
phase ready before the message for it comes, and the final phase waits until
nothing can come any more.

`row` is SQN and RAND of the subscriber; a phase copies it to `sec`, and the
update writes it back. A SQN counts in steps of 32. A RAND is named by the
request it was drawn for. `answers` is the sequence of vectors given out,
`unsaved` remembers that a row was read while an answer made from it was not
saved. External: the MME, which forwards challenges and turns a synchronisation
failure into a request with AUTS, and the UE, which accepts a SQN above its own.
`up` becomes false where the code reads through a null pointer.

Left out: a failed SELECT, for which `getImsiSecData` throws on the thread of the
driver (`dataaccess.cpp:1305-1310`, called from `s6as6d_impl.cpp:1781` and `1899`) an
exception nobody catches, so that the process ends; and an operation whose callback
cannot be set (`s6as6d_impl.cpp:2027-2038`, `2118-2120`), which ends the processor.

### EmmAttach

One task with one queue, so a handler is one step. `emm` is the EMM context:
which procedures exist, the id of the timer each holds, its counter, the states
of the machine. `running` are the timers of the MME (`common/itti/timer.c`);
`Expire` turns one into a message that carries a ue_id. `mailbox`, `air`, `s6a`
and `esm` are the messages between the task and its surroundings: the UE, the
HSS and ESM answer, late or (except ESM) never, and MME_APP detaches the UE at
any moment. An answer of the HSS is matched by IMSI alone, as in
`nas_emm_proc.c`. Each handler contains what the state machine does with the
primitive it sends, since the machine is called, not posted to.

The UE attaches with its IMSI and begins again, with a new ue_id, when the
context of its last attach is gone. Attaches that collide are not modelled, nor are
failures inside the MME: when no GUTI can be made or EMMAS does not take the attach
accept (`Attach.c:2078-2090`) T3450 is not started, and nothing ends that attach; when
a detach request cannot be sent (`Detach.c:326-343`) the context is not cleared.
`AttachEnds` and `TimersOwned` are about an MME in which these calls succeed.

### UeContext

One registered UE and the three tasks that keep its connection: `ctx` is the UE
context of MME_APP, `refs` the UE references of S1AP, `emm` whether NAS still
has the UE. `app`, `s1ap` and `nas` are the queues of the tasks; `esm` and `rab`
count what ESM and SGW have to answer. A connection stands for an eNB and its
eNB UE S1AP ID. `enb` is the connection as its eNB sees it; the S1AP messages of
an eNB are handled when they are sent, and what S1AP sends is answered any time
later, so that a request of either side crosses those of the other.

`ecm_state` and `enb_s1ap_id_key` are always assigned together, so `ctx.key` stands
for both, and `ctx.enb_ue` for the ids of the eNB, which outlive the key. `Release` is
`_mme_app_handle_s1ap_ue_context_release`, which the release request of an eNB and
the loss of an eNB share. The release request brings the eNB, but
`S1AP_ENB_DEREGISTERED_IND` has an `enb_id` that nobody sets
(`s1ap_mme_handlers.c:2662-2811`; messages are zeroed), so `AppEnbDeregistered` hands
on `None`: a UE is found by its MME UE S1AP ID or not at all, and a command
for it that takes the eNB from the message is dropped by S1AP (`Listed`). A reference that was
still `new` when its eNB was lost (`unnamed`) is never released, see `UeLost` in section 5.

`FindRef` is the lookup of the release command: by the
ids of the eNB, else any reference with the MME UE S1AP ID. The release timer has the
eNB of the command as its key (`s1ap_mme_handlers.c:1177`); when the reference was
found at another eNB its expiry finds nothing, which is the state `untimed`.
Downlink messages look the reference up differently (`FindRefDownlink`,
`s1ap_mme_nas_procedures.c:442-480`). When the MME is full an initial message is
refused (`AppInitialUeMessageFull`, `S1apReject`): its reference goes at once. When NAS
ends a connection, a registered UE without a bearer gets no release (`lacking` in
`AppNasDownlink`). Two tasks write
what is not theirs, as in the code: MME_APP removes an old reference of S1AP
(`AppInitialUeMessage`), and NAS changes the UE context (`NasImplicitDetach`).

The expiry of a timer of the UE context looks its UE up by an address
(`TimerArg`), finds none and does nothing; `TimerHandler` is what the code would
do otherwise. The causes of a release are those the code tells apart: invalid, lost
association, implicit, and the others, which the eNB is told.

Left out: an eNB that comes back under its id after it was lost, the several
messages S1AP needs for a lost eNB of more than 400 UEs, and the
`NAS_SIGNALLING_CONNECTION_REL_IND` that MME_APP sends for each UE of a lost eNB, as
nothing in NAS handles the primitive it becomes.

## 3. What is checked

| run | bounds | shows |
|---|---|---|
| `gtpc` | two requests of this node, one of the peer, one repetition, time-outs at most one unit late | `TypeOK`, the inductive invariant `IInv`, `RequestReplySafe`; under fairness `RequestReplyLive`, `ProceduresEnd` |
| `itti_timers` | three timers, clock 0..6, two removals | `TypeOK`, `TimersKept`, `RemoveTellsTruth`, `TimerServiceSafe`; under fairness `LiveUnremoved` |
| `itti_stuck` | two timers, one removal | violated: `TimerServiceLive` |
| `pfcp_heartbeat` | one node set up twice, two responses, two retries | `AssocTypeOK`, `HeartbeatRuns`; under fairness `FailureNoticed` |
| `pfcp_numbers` | three numbers, four requests, one of the peer | `TypeOK`, `OpenRequestAnswerable`, `RequestReplySafe` |
| `pfcp_unrepeated` | one request | violated: `RequestReplyLive` |
| `sgwc_sessions` | one subscriber, two APNs, two bearers, four requests | `TypeOK`, `TablesAgree`, `ProceduresAgree`, `AnsweredOnce`, `OwnSession`; under fairness `HalfOpenEnds` |
| `pgwc_sessions` | one subscriber, one APN, two eNBs, a pool of two in words of three bits, a static address past it, four requests | `TypeOK`, `TablesAgree` (with the pool), `RoutesLead`, `PathAgrees`, `LeasesKept` |
| `hss_vectors` | three requests, two slots | `TypeOK`, `NothingDangling`, `SlotsAgree`, `SqnFresh`, `NobodyStranded`, `LastResyncVerifies` |
| `hss_slots` | two requests, one slot | violated: `SlotHeldByWork` |
| `emm_attach` | two attaches, three accepts, two challenges, two commands | `TypeOK`, `TimersOwned`, `FsmMatches`; under fairness `AttachEnds` |
| `ue_context` | two connections, two eNBs, one of which may go down | `TypeOK`, `ConnectionAgrees`, `ReleasesEnd` |

The passing runs have between some 10^4 and 4 * 10^6 states.

**Why the bounds are enough.** Two requests are enough for a timer, a time-out
message or an answer of one to meet the procedure of another; the proofs remove
the bound for the safety properties, and with it the number of repetitions: one
is the smallest at which "repeat" and "give up" both occur. With three timers
one can be current, one earlier and one later. Two responses let a heartbeat
chain fork; two retries let one be lost and the other cross. Four requests
under three numbers let the counter wrap onto a request that is still open.
Four requests of the MME let a context get two connections, lose one by a
collision and the other by a delete request, with all their responses late; two
connections are enough for a request that is split, and for a response to meet
the procedure of another. Four requests at PGW-C let a connection get its path,
lose it and get it again, be modified while its session is deleted, or let one be deleted while its address is wanted by
the next; two addresses are the least with which a pool can be full or
not, and three bits leave one bit of a word outside the pool. Three
authentication requests make two that run at once and one that waits, or a
challenge, its resynchronisation and the request after it. Two attaches let the
messages, answers and time-outs of one meet the other. Two connections let every
message about the first meet the UE on the second, at the same eNB or another;
the eNBs are symmetric, and one that is lost leaves one that is not (with both lost
there are 7 * 10^6 states, and the same properties hold; the proofs have no such bound). Deadlock is not
checked: each model stops when its bounds are used up, and the node itself is
idle when nobody sends anything.

**Fairness.** Weak fairness of the clock, of the timer thread and of each task
that serves a queue: a thread with something to do runs in the end, which the
operating system's scheduler gives. In `IttiTimers` also of the second half of
a call that was begun. In `SgwcSession` the ends of the requests to PGW-C are
fair, which is what the stack promises (`RequestReplyLive`). In `EmmAttach`
the task, the expiry of timers, and the answer of ESM, which has timers of its
own. In `UeContext` the tasks, SGW and the timers; this is used by `UeSilent` only.
Nothing is assumed of peers, applications, the UE, the HSS or the network:
they may stay silent for ever. `PgwcSession`, `HssAuthentication`
and `UeContext` are checked for safety only: `NobodyStranded` says of each state
that something is left to drive every request, and `ReleasesEnd` of each state
with empty queues that every release has ended.

## 4. What is proved

The proofs have one step per action, and under it one per part of the invariant
that the action can disturb.

### GtpcStack

`GtpcStackProofs` proves, for all values of the constants that satisfy the four
assumptions of `GtpcStack` (`SeqAssumption`, `TypesAssumption`,
`TimingAssumption`, `BoundAssumption`):

* `TypeCorrect`: `Spec => []TypeOK`;
* `RetryTimersAreOwned`: `Spec => []RetryTimerOwned`;
* `AnswersKeepNumbers`: `Spec => []AnswerKeepsNumber`;

and, with `TimeBudget == MARGIN > (N3 + 1) * LATENESS`:

* `Invariance`: `Spec => []IInv`;
* `Implements`: `Spec => RequestReplySafe`, every step is a step of
  `RequestReply` or leaves it unchanged.

In the code MARGIN is 1000 ms and N3 is 3: the budget holds if every time-out
is handled less than 250 ms late.

**The argument.** None of these properties is inductive. That a retry timer is
owned needs that the timers of a procedure are in the tables under its number
(`ProcedureTimers`), that requests of both sides are apart (`NumbersApart`) and
that an identifier is in the mailbox once (`MailboxOK`). These form the base
invariant and need no timing. `Implements` must exclude that a clean-up timer
deletes a request that is still open. `OpenRequests` says why: an open request
has both timers running, and the clean-up timer has at least
`Slack(c) = (N3 - c) * T3 + MARGIN - c * LATENESS` more to run than the retry
timer of the c-th repetition, since each repetition so far was at most LATENESS
late (`ClockOK`). With the budget the slack exceeds LATENESS, so a clean-up
timer that has expired is never that of an open request. `ClosedRequests`
carries the rest: a request that was answered is not repeated. The
lemmas on mailboxes and the arithmetic of the slack stand in front.

### IttiTimers

* `TypeCorrect`: `Spec => []TypeOK`;
* `Implements`: `Spec => TimerServiceSafe`: a timer is posted at most once, not
  early, and not after `timer_remove` said it was removed;

and, with `DistinctTimes` (no two timers have the same time-out):

* `Invariance`: `Spec => []IInv`;
* `NoTimerLost`: `Spec => []TimersKept`;
* `NotFoundIsTrue`: `Spec => RemoveTellsTruth`.

`DistinctTimes` is what the code assumes itself: the set of timers is ordered by
time-out, so of two equal ones the second is not inserted. With it each timer is
in the set, in the hands of the manager, posted or removed, which is the
invariant. `Implements` needs no such assumption: a timer that is lost is not
posted twice.

### PfcpStack

In `PfcpProofs`:

* `TypeCorrect`, `Invariance`, `OpenStaysAnswerable`
  (`Spec => []OpenRequestAnswerable`);
* `Implements`: `Spec => RequestReplySafe`.

The invariant says that requests, transactions and procedures agree, and that
the numbers of either side stay in their halves of the number space.

### PfcpAssociations

In `PfcpProofs`, about `AssocSpec`:

* `AssocTypeCorrect`, `AssocInvariance`;
* `SupervisionGoesOn`: `AssocSpec => []HeartbeatRuns`.

Three threads work on an association, so the invariant follows the node through
them: at each place of each thread it says who has the node next, a timer, the
task or the reader. It is the hand-over from one to the other that is not
visible in `HeartbeatRuns`.

### HssAuthentication

* `TypeCorrect`, `Invariance`;
* `NeverDangling`, `SlotsCounted`, `NeverStranded`: `NothingDangling`,
  `SlotsAgree` and `NobodyStranded` always hold;
* `SqnNeverRepeats`, `LastAutsVerifies`: `SqnFresh` and `LastResyncVerifies`.

The invariant has two halves. The control of a processor: which workers,
callbacks and queued messages may have a pointer to it in which phase, and that
what is left of it drives it on. The numbers of a subscriber: what the row, the
processors between read and write, and the vectors given out have to do with
each other.

### EmmAttach

* `BaseInvariance`, `TypeCorrect`, `EveryTimerOwned` (`Spec => []TimersOwned`):
  for any number of attaches and any counters;
* `Invariance`, `StateMatches` (`Spec => []FsmMatches`): with
  `OneResynchronisation`.

`OneResynchronisation` is what the code has: `EMM_AUTHENTICATION_SYNC_FAILURE_MAX`
is 2 (`oai-mme/src/nas/emm/emm_data.h:227`). With more of them `FsmMatches`
could not be proved: an authentication response of the UE that is still under
way when the second resynchronisation starts would complete the procedure.

### SgwcSession

* `TypeCorrect`, `Invariance`;
* `TablesStayTogether`, `ProceduresMatch`, `OneAnswer`, `SessionIsOwn`:
  `TablesAgree`, `ProceduresAgree`, `AnsweredOnce` and `OwnSession` always hold,
  for any number of subscribers, connections, bearers and requests.

The invariant has three layers. `Base`: the shapes, the tables, and that a
create response in flight leads to the connection that asked. `Transactions`: what
has one transaction id has one type, belongs to one context and is one procedure
or one request, except release requests (one to each connection) and delete
requests without a bearer (one procedure to each connection). `Waiting`: that
every procedure has its request under way and the other way round. For delete
requests that share a transaction `find_procedure` takes any procedure of that
transaction, so the last part has to count: the requests under way are mapped
into the procedures by an injection, which loses one pair with each response.

### PgwcSession

With `StaticsPastPool` (no static address is in the pool or before it), for any
number of subscribers, connections and requests, any size of the pool and
any width of its words:

* `TypeCorrect`, `Invariance`;
* `TablesStayTogether`: `Spec => []TablesAgree`, with the bitmap of the pool;
* `RoutesAlwaysLead`, `PathsAgree`: `RoutesLead` and `PathAgrees` always hold;
* `Implements`: `Spec => LeasesKept`, every step of PGW-C and SPGW-U is a step
  of `AddressLeases` or leaves it unchanged.

`StaticsPastPool` is not for PGW-C to ensure: it takes the address a request
brings along as it is (`pgw_context.cpp:638`), and the subscriptions have to be
provisioned with addresses outside its pools. An address of the pool would be
given a second time, and one before the pool makes `free_bit` add a word to the
bitmap (`in_pool` compares signed differences). Without static addresses the
assumption holds.

**The argument.** `LeasesKept` relates the bitmap of PGW-C to the table of
addresses of SPGW-U, between which any number of messages may be under way, so
the invariant has to say what each of them still means. `Tables`, `Connections`
and `Placed` tie SEIDs, contexts and procedures together. `Pool` says that an
address of the pool has one established connection. It rests on lemmas about the
bitmap: the bits that are free after one is taken or cleared (`AllocBitTakes`,
`FreeAddressFrees`). `Ids` gives each transaction one procedure and at most one
message, which is about the connection of the procedure. `Sessions` is the core:
each connection has at most one session in SPGW-U, only its one establishment
request can make it, and while a deletion response for it is under way it has
none. `Tasks` and `Routes` are about the two tasks of SPGW-U: an entry of the table of
addresses may be left behind by a modification whose session was erased meanwhile
(`Stale`). Then the connection it was made for is `Kept`: SPGW-U answers a request to
delete a session it does not have with SEID 0, which PGW-C discards, so the connection
keeps its address for good, and no other session gets it. This is why a stale entry is
harmless for the addresses of the pool, and why every later session finds its entry
free (`Led`). So `HandleDeletionResponse` returns an address that no session has and, by
`Routes`, no route: that is `Return` of `AddressLeases` (`ReturnStep`).
`Path` says the same of the F-TEID: where no two requests overlap, either what
PGW-C has stored is what SPGW-U does, or an accepted answer that will make it so
is under way.

### UeContext

For any number of connections of the UE, any eNBs and any number of them that go
down, with `EnbsAssumption` (no eNB is the value that stands for "none"):

* `TypeCorrect`, `Invariance`;
* `Agreement`: `Spec => []ConnectionAgrees`;
* `Releases`: `Spec => []ReleasesEnd`.

**The argument.** Both properties speak of states in which nothing is under way.
The invariant has to say what they leave out: what each message in the three
queues may still be about, and for each reference that S1AP and MME_APP see
differently what will make them agree.

* `ConnectionsOK` orders the connections: MME_APP takes them up in the order of
  their numbers and S1AP after it, so that "older than the present connection" is a
  comparison with `ctx.enb_ue`.
* `AppOK`, `AppOrder`, `S1apOK`, `S1apOrder` say what a message names and what may be
  behind it: initial UE messages come in the order of their connections, never
  behind a cancel location, and the notification of a connection comes before the
  commands and downlink messages for it.
* `CommandsOK`: a command names the eNB of its connection, or none (`Effective` is one
  that is not dropped). This is where the missing `enb_id` of a lost eNB comes in.
* `OlderRemoved` is about the order in the queue of S1AP: before a
  reference gets the MME UE S1AP ID, commands that come earlier have removed the
  older ones. From it follows `OneWithId`, the first half of `ConnectionAgrees`.
* `PresentOnly` and `KeyGoes` are the other half: a reference of which MME_APP is no
  longer aware is about to be removed, and a context whose reference is gone is
  about to hear of it. `OthersBefore` keeps the commands that remove references
  without asking the eNB away from the connection that came after them.
* `ReleaseUnderWay`, `EndUnderWay` and `DetachUnderWay` make `ReleasesEnd` inductive: a
  connection whose eNB asked for its release or whose loss was told with the MME UE
  S1AP ID (`WantsRelease`), and the context of a UE that left, have a message,
  a command, an answer of SGW or ESM or a timer that will end them.
  `AttachedOK` and `DetachOK` say when a UE may still connect.

What `ReleasesEnd` excepts is what the code does not do: a reference whose eNB was lost
before S1AP knew the MME UE S1AP ID, of a detached UE a reference whose release
timer has the key of another eNB, and the present connection after its release timer
ended it. The first and the last have configurations of their own (section 5).

### Only model-checked

Liveness is out of the prover's reach. These are checked by TLC only:
`RequestReplyLive` and `ProceduresEnd` of `GtpcStack`, `LiveUnremoved` of `IttiTimers`,
`FailureNoticed` of `PfcpAssociations`, `HalfOpenEnds` of `SgwcSession`, and
`AttachEnds` of `EmmAttach`. Every safety property of a run is a theorem.

## 5. What the checks found

Runs whose counterexample is a disagreement of the code with its own text:

1. `itti_stuck`: the manager gives up `m_timers` before it takes `m_timeout`
   (`itti.cpp:57`, `62`), and a notification in between is lost. When it was
   `timer_remove` of the current timer, the manager waits for `null_timer`: no
   timer expires until another call wakes the thread. (When it was
   `timer_setup`, an earlier timer expires with the later one.)
2. `pfcp_unrepeated`: `TIME_OUT` messages never reach the PFCP stack
   (`pgwc_sxab.cpp:176`): no repetition, no error report, no clean-up.
3. `hss_slots`: the refusals of `AIRProcessor::phase1` end in the final phase of
   the other processor class (`s6as6d_impl.cpp:1930`). Such a processor is
   never deleted and keeps its slot; when all slots are taken, the HSS processes
   no S6a request any more.

Further configurations are kept beside the runs, to be used with the MC module
of their component. Each ends with a violation of the one property it checks:

| configuration | property | shows |
|---|---|---|
| `GtpcStale` | `CleanupOnlyOwn` | `stop_proc_cleanup_timer` erases its timer from the wrong table (`gtpv2c.cpp:278`): the entry stays for ever, and a `TIME_OUT` that was queued before the stop deletes a later procedure of the same number |
| `PfcpFalseFailure` | `FailsUnanswered` | a response that crosses the time-out of the last heartbeat request does not prevent the failure of the procedure (`pgw_pfcp_association.cpp:211`) |
| `SgwcCollision` | `CollisionTellsPgw` | the delete request a colliding create request emulates (`sgwc_app.cpp:438`) leaves a procedure with transaction 0 that nothing ends; at the next collision `sgwc_eps_bearer_context.cpp:373` takes the new one for a repetition: the connection goes, its session stays in PGW-C |
| `SgwcModify` | `ModifyReachesPgw` | a modify request whose F-TEID equals the one stored is not passed on (`sgwc_procedure.cpp:563`), but the one stored is the one asked for last, not the one PGW-C has: it differs after a refusal, a silence or a release of the access bearers |
| `PgwcStaleRoute` | `EntriesLead` | a modification that found its session (`pfcp_switch.cpp:736`) enters the UE address (`pfcp_session.cpp:246`) after the task of the association cleaned the session up and erased it (`spgwu_pfcp_association.cpp:62-69`): the entry leads to no session. `RoutesLead` says what holds all the same |
| `PgwcUplink` | `UplinkAgrees` | the modify request after a release (`pgwc_procedure.cpp:544`) puts the uplink rules back to forwarding only if there were downlink rules before |
| `EmmChallenge` | `NoChallengeInResync` | the T3460 message that waits behind a synch failure repeats the old challenge while new vectors are on their way (`Authentication.c:907`) |
| `EmmFifthExpiry` | `FourRepetitions` | `attach_accept_sent` counts the first accept too, so that the attach is aborted one expiry of T3450 before the one the requirement in `3gpp_requirements_24.301.h` names |
| `UeSilent` | `SilentUeDetached` | the timers of a UE context carry the address of `mme_ue_s1ap_id` (`mme_app_context.c:2180`), which the handler takes for the id (`mme_app_main.c:434`): the implicit detach timer that starts "at the expiry of Mobile Reachability timer" (`mme_app_ue_context.h:117`) never starts. With `TimerArg` as the id the property holds |
| `UeExpiry` | `ExpiryMakesIdle` | "Remove UE context and inform MME_APP" (`s1ap_mme_handlers.c:3242`): the message lacks the ids of the eNB, by which the handler knows the connection (`mme_app_context.c:1812`), so the UE stays ECM-CONNECTED and is not paged |
| `UeLost` | `LostReleased` | "In case MME APP could not update S1AP with valid mme_ue_s1ap_id before context release is triggered from s1ap" the context is to be found by the key of the eNB's ids (`mme_app_context.c:1616-1624`), but `S1AP_ENB_DEREGISTERED_IND` does not carry the eNB: a reference that was new when its eNB was lost stays, and so does the lost eNB in the list |
| `UeRemoved` | `RemovedWithoutReference` | a release complete without ids that is late removes the context of a UE that is detaching over a newer connection; the reference of that connection stays |

`itti_stuck` is about the assumption `LATENESS` of `GtpcStack`: what is proved of
the stack holds while ITTI delivers in time, which it does unless a call falls
into the gap. A repeated association setup also ends the supervision of a node
(`pgw_pfcp_association.cpp:86`); no text of the repository promises otherwise,
so the properties except it and say so. The same holds for three habits of the
SGW-C application that `PROJECT.json` lists as hazards: procedures that are
never removed, delete and modify requests that get no response when PGW-C is
silent, and a delete request without a bearer that is answered once for each
connection. `PathAgrees` excepts requests that overlap and responses that are
lost, where PGW-C and SPGW-U may disagree about the path for good;
`SqnFresh` allows a sequence number to be used twice where two requests of a
subscriber overlap or an update failed.

## 6. What is not modelled

Of modelled components: dedicated bearers and IPv6 in both gateways, several
user plane nodes, the heartbeat of SPGW-U, the location update of the HSS
(the same processor scheme with more database operations), and in EMM attaches
that collide, identification, attach by GUTI, tracking area updates and service
requests; in MME_APP and S1AP attach, handover, bearers, paging itself and
S1 reset. The MME's GTPv2-C stack is planned (section 7).
Left out for good: codecs and generated ASN.1 (most of the lines of the
repository), cryptography, the bundled controller library and OpenFlow
controller, configuration, build and container files. Termination of tasks is
left out, since it ends the process.

## 7. Plan

In this order, each with runs of some 10^5 states:

1. `EmmAttach` further: attach requests that collide, identification.
2. `NwGtpv2c` of the MME as another implementation of `RequestReply`, and the
   composition of both ends over a lossy network.
3. `UeContext` further: S1 reset and paging, composed with `EmmAttach`.
4. `SpgwuAssociations`, composed with `PfcpAssociations` as the two ends of one
   association.
5. `SgwcSession` and `PgwcSession` composed, with an abstract session they
   implement.
6. The location update in `HssAuthentication`.

Theorems: action properties of the gateways
(what a request of SGW-C may never do to another connection).
