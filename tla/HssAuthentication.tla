--------------------------- MODULE HssAuthentication ---------------------------
(***************************************************************************)
(* Authentication information requests (AIR) of one subscriber at the HSS. *)
(*                                                                         *)
(* A freeDiameter thread puts an AIRProcessor into the worker queue, which *)
(* lets at most Concurrent processors run.  A processor is driven by       *)
(* messages to a pool of worker threads: a worker takes the processor's    *)
(* mutex and runs phases as long as the next one is ready.  The phases     *)
(* read the subscriber's row (key, SQN, RAND), answer with vectors made    *)
(* from it, and write the next SQN and the RAND of the answer back; the    *)
(* two database operations complete in callbacks on a thread of the        *)
(* driver.  A processor is deleted, and its slot passed on, by the worker  *)
(* that finds nothing of it left.                                          *)
(*                                                                         *)
(* External: the MME, which forwards a challenge and turns a               *)
(* synchronisation failure into a new request, and the UE, which accepts a *)
(* challenge whose SQN is above its own.  A SQN counts in steps of 32, a   *)
(* RAND is named by the request it was drawn for, a request asks for one   *)
(* vector (MAX_EPS_AUTH_VECTORS of the MME).                               *)
(*                                                                         *)
(* Left out: a failed SELECT, for which getImsiSecData throws an exception *)
(* on the driver's thread (dataaccess.cpp:1305) that nobody catches, so    *)
(* that the process ends; and a database operation whose callback cannot   *)
(* be set (s6as6d_impl.cpp:2027, 2118).                                    *)
(***************************************************************************)
EXTENDS Integers, Sequences, FiniteSets

CONSTANTS
    MaxRequests,    \* bound: requests the HSS receives
    Concurrent,     \* m_concurrent of QueueManager
    UeSqn           \* SQN the UE starts with; the row starts with 0

ASSUME ConstantsAssumption ==
    /\ MaxRequests \in Nat \ {0}
    /\ Concurrent \in Nat \ {0}
    /\ UeSqn \in Nat

Requests == 1 .. MaxRequests
NoRand == 0                            \* the row before the first answer
Ops == {"get", "update"}               \* AIRDB_GET_IMSI_SEC, AIRDB_UPDATE_IMSI
Kinds == {"initial", "resync", "unknown", "refused"}
Phases == {"phase1", "phase2", "phase3", "final", "ulrFinal"}

VARIABLES
    queue,      \* QueueManager::m_queue
    active,     \* QueueManager::m_active
    starts,     \* threads that are about to call startProcessor
    request,    \* request[r]: kind, and the RAND and SQN_MS of a resync
    live,       \* AIRProcessors that exist
    next,       \* m_nextphase
    msgs,       \* m_msgissued: messages for the processor in the work queue
    locked,     \* processors whose m_mutex a worker holds
    issued,     \* m_dbissued
    executed,   \* m_dbexecuted
    found,      \* m_dbresult & AIRDB_GET_IMSI_SEC
    op,         \* op[r][o]: where a database operation of r is
    sec,        \* m_sec: SQN and RAND as read, then as answered
    row,        \* the subscriber's row in the database
    answers,    \* vectors given out, oldest first
    ue,         \* SQN_MS of the UE and the challenges it refused
    up,         \* the HSS process runs
    unsaved     \* a row was read while an answer made from it was not saved

queueVars == <<queue, active, starts>>
dbVars == <<issued, executed, found, op, sec, row, unsaved>>
vars == <<queueVars, request, live, next, msgs, locked, dbVars, answers, ue, up>>

Sec == [sqn : Nat, rand : Requests \cup {NoRand}]

Init ==
    /\ queue = <<>> /\ active = 0 /\ starts = 0
    /\ request = <<>>
    /\ live = {}
    /\ next = [r \in Requests |-> "phase1"]
    /\ msgs = [r \in Requests |-> 0]
    /\ locked = {}
    /\ issued = [r \in Requests |-> 0]
    /\ executed = [r \in Requests |-> {}]
    /\ found = [r \in Requests |-> TRUE]
    /\ op = [r \in Requests |-> [o \in Ops |-> "none"]]
    /\ sec = [r \in Requests |-> [sqn |-> 0, rand |-> NoRand]]
    /\ row = [sqn |-> 0, rand |-> NoRand]
    /\ answers = <<>>
    /\ ue = [sqn |-> UeSqn, refused |-> {}, seen |-> {}]
    /\ up = TRUE
    /\ unsaved = FALSE

-----------------------------------------------------------------------------
(* The worker queue *)

\* AUIRcmd::process: the processor is queued; startProcessor follows.
Receive(req) ==
    /\ up
    /\ Len(request) < MaxRequests
    /\ LET r == Len(request) + 1
       IN  /\ request' = Append(request, req)
           /\ live' = live \cup {r}
           /\ queue' = Append(queue, r)
    /\ starts' = starts + 1
    /\ UNCHANGED <<active, next, msgs, locked, dbVars, answers, up>>

\* The MME asks for a vector: for a subscriber in the database, for an
\* unknown one, or with an attribute phase1 refuses.
InitialRequest(kind) ==
    /\ Receive([kind |-> kind, rand |-> NoRand, sqn |-> 0])
    /\ UNCHANGED ue

\* The MME passes the RAND and the AUTS of a synchronisation failure on.
ResyncRequest(r) ==
    /\ r \in ue.refused
    /\ Receive([kind |-> "resync", rand |-> r, sqn |-> ue.sqn])
    /\ ue' = [ue EXCEPT !.refused = @ \ {r}]

\* A message for processor r is given to the workers.
Trigger(r) == msgs' = [msgs EXCEPT ![r] = @ + 1]

\* Mutant: one processor more than the option says.
SlotFreePast == active <= Concurrent

SlotFree == active < Concurrent

\* HSSWorkerQueue::startProcessor
StartProcessor ==
    /\ up
    /\ starts > 0
    /\ starts' = starts - 1
    /\ IF SlotFree /\ queue # <<>>
       THEN /\ active' = active + 1
            /\ queue' = Tail(queue)
            /\ Trigger(Head(queue))
       ELSE UNCHANGED <<active, queue, msgs>>
    /\ UNCHANGED <<request, live, next, locked, dbVars, answers, ue, up>>

-----------------------------------------------------------------------------
(* Phases: run by a worker that holds the mutex *)

\* Mutant: the final phase does not wait for the callbacks.
PhaseReadyEager(r) ==
    CASE next[r] = "phase1"   -> TRUE
      [] next[r] = "phase2"   -> "get" \in executed[r]
      [] next[r] = "phase3"   -> "update" \in executed[r]
      [] next[r] = "final"    -> msgs[r] = 0
      [] next[r] = "ulrFinal" -> FALSE

\* Mutant: the final phase waits for an update, which not every request makes.
PhaseReadyUpdated(r) ==
    CASE next[r] = "phase1"   -> TRUE
      [] next[r] = "phase2"   -> "get" \in executed[r]
      [] next[r] = "phase3"   -> "update" \in executed[r]
      [] next[r] = "final"    -> "update" \in executed[r] /\ msgs[r] = 0
      [] next[r] = "ulrFinal" -> FALSE

\* AIRProcessor::phaseReady.  The phase the refusals of phase1 leave behind
\* is one of the ULR processor: no case of the switch, never ready.
PhaseReady(r) ==
    CASE next[r] = "phase1"   -> TRUE
      [] next[r] = "phase2"   -> "get" \in executed[r]
      [] next[r] = "phase3"   -> "update" \in executed[r]
      [] next[r] = "final"    -> issued[r] = 0 /\ msgs[r] = 0
      [] next[r] = "ulrFinal" -> FALSE

\* A worker takes a message of processor r and its mutex.
TakeMessage(r) ==
    /\ up
    /\ msgs[r] > 0
    /\ r \notin locked
    /\ locked' = locked \cup {r}
    /\ msgs' = [msgs EXCEPT ![r] = @ - 1]
    /\ UNCHANGED <<queueVars, request, live, next, dbVars, answers, ue, up>>

\* The next phase is not ready: the worker leaves the loop.
LeaveLoop(r) ==
    /\ up
    /\ r \in locked
    /\ ~PhaseReady(r)
    /\ locked' = locked \ {r}
    /\ UNCHANGED <<queueVars, request, live, next, msgs, dbVars, answers, ue, up>>

RunsPhase(r, phase) ==
    /\ up
    /\ r \in locked
    /\ next[r] = phase
    /\ PhaseReady(r)

\* An operation is sent to the database, with a callback.
IssueOp(r, o) ==
    /\ op' = [op EXCEPT ![r][o] = "sent"]
    /\ issued' = [issued EXCEPT ![r] = @ + 1]

\* phase1 finds an attribute it does not accept, answers and ends in the
\* final phase of the other processor class.
Phase1Refuse(r) ==
    /\ RunsPhase(r, "phase1")
    /\ request[r].kind = "refused"
    /\ next' = [next EXCEPT ![r] = "ulrFinal"]
    /\ UNCHANGED <<queueVars, request, live, msgs, locked, dbVars, answers, ue, up>>

Phase1(r) ==
    /\ RunsPhase(r, "phase1")
    /\ request[r].kind # "refused"
    /\ next' = [next EXCEPT ![r] = "phase2"]
    /\ IssueOp(r, "get")
    /\ UNCHANGED <<queueVars, request, live, msgs, locked, executed, found, sec,
                   row, unsaved, answers, ue, up>>

\* The AUTS verifies with the RAND of the row, not with the RAND that the MME
\* put beside it (sqn_ms_derive: a MAC-S made from another RAND differs).
AutsVerifies(r) == request[r].rand = sec[r].rand

\* phase2 for a subscriber the database does not have.
Phase2Unknown(r) ==
    /\ RunsPhase(r, "phase2")
    /\ ~found[r]
    /\ next' = [next EXCEPT ![r] = "final"]
    /\ UNCHANGED <<queueVars, request, live, msgs, locked, dbVars, answers, ue, up>>

\* phase2: the vector is made from the SQN of the row, or from the UE's after a
\* verified AUTS; the answer is sent before the update is given to the database.
Phase2Answer(r) ==
    /\ RunsPhase(r, "phase2")
    /\ found[r]
    /\ request[r].kind = "resync" => AutsVerifies(r)
    /\ LET sqn == IF request[r].kind = "resync" THEN request[r].sqn + 1
                                                ELSE sec[r].sqn
       IN  /\ sec' = [sec EXCEPT ![r] = [sqn |-> sqn, rand |-> r]]
           /\ answers' = Append(answers, [req |-> r, sqn |-> sqn])
    /\ next' = [next EXCEPT ![r] = "phase3"]
    /\ IssueOp(r, "update")
    /\ UNCHANGED <<queueVars, request, live, msgs, locked, executed, found, row,
                   unsaved, ue, up>>

\* phase2 with an AUTS that does not verify: sqn_ms_derive returned NULL and the
\* branch that reports it reads the SQN through that pointer.
Phase2NullSqn(r) ==
    /\ RunsPhase(r, "phase2")
    /\ found[r]
    /\ request[r].kind = "resync" /\ ~AutsVerifies(r)
    /\ up' = FALSE
    /\ UNCHANGED <<queueVars, request, live, next, msgs, locked, dbVars, answers, ue>>

Phase3(r) ==
    /\ RunsPhase(r, "phase3")
    /\ next' = [next EXCEPT ![r] = "final"]
    /\ UNCHANGED <<queueVars, request, live, msgs, locked, dbVars, answers, ue, up>>

\* Mutant: the end of a processor starts no other.
FinishProcessorNoStart == active' = active - 1 /\ UNCHANGED starts

\* finishProcessor, with startProcessor to follow
FinishProcessor == active' = active - 1 /\ starts' = starts + 1

\* The final phase: the mutex is released, the processor deleted and its slot
\* given back.
Finish(r) ==
    /\ RunsPhase(r, "final")
    /\ locked' = locked \ {r}
    /\ live' = live \ {r}
    /\ FinishProcessor
    /\ executed' = [executed EXCEPT ![r] = {}]
    /\ found' = [found EXCEPT ![r] = TRUE]
    /\ sec' = [sec EXCEPT ![r] = [sqn |-> 0, rand |-> NoRand]]
    /\ UNCHANGED <<queue, request, next, msgs, issued, op, row, unsaved, answers, ue, up>>

-----------------------------------------------------------------------------
(* The database and the callbacks of its driver *)

\* q read the row, and what it answers is not in the row yet.
Between(q) == op[q]["get"] \in {"noted", "done"} /\ found[q] /\ q \in live
              /\ op[q]["update"] \in {"none", "sent"}

\* The row is read and on_air_callback runs getImsiSec, without the mutex.
GetDone(r) ==
    /\ up
    /\ op[r]["get"] = "sent"
    /\ op' = [op EXCEPT ![r]["get"] = "noted"]
    /\ executed' = [executed EXCEPT ![r] = @ \cup {"get"}]
    /\ IF request[r].kind = "unknown"
       THEN /\ found' = [found EXCEPT ![r] = FALSE]
            /\ UNCHANGED <<sec, unsaved>>
       ELSE /\ sec' = [sec EXCEPT ![r] = row]
            /\ unsaved' = (unsaved \/ \E q \in Requests \ {r} : Between(q))
            /\ UNCHANGED found
    /\ UNCHANGED <<queueVars, request, live, next, msgs, locked, issued, row,
                   answers, ue, up>>

\* Mutant: the SQN of the answer is stored as it is.
SavedRowSameSqn(r) == sec[r]

\* Mutant: the RAND read from the row is stored again.
SavedRowOldRand(r) == [sqn |-> sec[r].sqn + 1, rand |-> row.rand]

\* updateRandSqn: the SQN of the answer and 32, and the RAND of its vector
SavedRow(r) == [sqn |-> sec[r].sqn + 1, rand |-> sec[r].rand]

\* updateRandSqn is executed and on_air_callback runs updateImsi.
UpdateDone(r) ==
    /\ up
    /\ op[r]["update"] = "sent"
    /\ op' = [op EXCEPT ![r]["update"] = "noted"]
    /\ executed' = [executed EXCEPT ![r] = @ \cup {"update"}]
    /\ row' = SavedRow(r)
    /\ UNCHANGED <<queueVars, request, live, next, msgs, locked, issued, found, sec,
                   unsaved, answers, ue, up>>

\* The update fails: a warning, the row stays behind the answer.
UpdateFails(r) ==
    /\ up
    /\ op[r]["update"] = "sent"
    /\ op' = [op EXCEPT ![r]["update"] = "noted"]
    /\ executed' = [executed EXCEPT ![r] = @ \cup {"update"}]
    /\ unsaved' = TRUE
    /\ UNCHANGED <<queueVars, request, live, next, msgs, locked, issued, found, sec,
                   row, answers, ue, up>>

\* on_air_callback takes the mutex, triggers a phase and counts the operation off.
Callback(r, o) ==
    /\ up
    /\ op[r][o] = "noted"
    /\ r \notin locked
    /\ op' = [op EXCEPT ![r][o] = "done"]
    /\ Trigger(r)
    /\ issued' = [issued EXCEPT ![r] = @ - 1]
    /\ UNCHANGED <<queueVars, request, live, next, locked, executed, found, sec, row,
                   unsaved, answers, ue, up>>

-----------------------------------------------------------------------------
(* The UE, through the MME *)

Challenge(a) ==
    /\ a.req \notin ue.seen
    /\ ue' = IF a.sqn > ue.sqn
             THEN [ue EXCEPT !.sqn = a.sqn, !.seen = @ \cup {a.req}]
             ELSE [ue EXCEPT !.refused = @ \cup {a.req}, !.seen = @ \cup {a.req}]
    /\ UNCHANGED <<queueVars, request, live, next, msgs, locked, dbVars, answers, up>>

-----------------------------------------------------------------------------

WorkerStep(r) ==
    \/ TakeMessage(r) \/ LeaveLoop(r)
    \/ Phase1Refuse(r) \/ Phase1(r)
    \/ Phase2Unknown(r) \/ Phase2Answer(r) \/ Phase2NullSqn(r)
    \/ Phase3(r) \/ Finish(r)

DriverStep(r) ==
    \/ GetDone(r) \/ UpdateDone(r) \/ UpdateFails(r)
    \/ \E o \in Ops : Callback(r, o)

Next ==
    \/ \E kind \in {"initial", "unknown", "refused"} : InitialRequest(kind)
    \/ \E r \in Requests : ResyncRequest(r)
    \/ StartProcessor
    \/ \E r \in Requests : WorkerStep(r) \/ DriverStep(r)
    \/ \E i \in 1 .. Len(answers) : Challenge(answers[i])

Spec == Init /\ [][Next]_vars

-----------------------------------------------------------------------------
(* Properties *)

Opens == {"none", "sent", "noted", "done"}

\* Every variable has the type its field of the processor, of the queue or of the
\* database has.
TypeOK ==
    /\ queue \in Seq(Requests) /\ active \in 0 .. Concurrent /\ starts \in Nat
    /\ request \in Seq([kind : Kinds, rand : Requests \cup {NoRand}, sqn : Nat])
    /\ live \subseteq Requests
    /\ next \in [Requests -> Phases]
    /\ msgs \in [Requests -> Nat]
    /\ locked \subseteq live
    /\ issued \in [Requests -> Nat]
    /\ executed \in [Requests -> SUBSET Ops]
    /\ found \in [Requests -> BOOLEAN]
    /\ op \in [Requests -> [Ops -> Opens]]
    /\ sec \in [Requests -> Sec] /\ row \in Sec
    /\ answers \in Seq([req : Requests, sqn : Nat])
    /\ ue \in [sqn : Nat, refused : SUBSET Requests, seen : SUBSET Requests]
    /\ up \in BOOLEAN /\ unsaved \in BOOLEAN

InFlight(r) == \E o \in Ops : op[r][o] \in {"sent", "noted"}

\* processNextPhase deletes a processor that other threads still have pointers to
\* only when none is left: no message in the work queue and no database operation
\* whose callback has still to run names a deleted processor.
NothingDangling == \A r \in Requests \ live : msgs[r] = 0 /\ ~InFlight(r)

\* m_active counts the processors that were started and are not deleted yet, and
\* no processor waits in the queue while a slot is free and nobody is about to
\* start one: neither an arrival nor the end of a processor loses a start.
SlotsAgree ==
    /\ active = Cardinality({r \in live : \A i \in 1 .. Len(queue) : queue[i] # r})
    /\ queue # <<>> => active = Concurrent \/ starts > 0

\* Two vectors of a subscriber have the same SQN only after an update failed or a
\* row was read while the answer of another processor was not saved: run one after
\* the other, requests and resynchronisations never repeat or lower the SQN.
SqnFresh ==
    unsaved \/ \A i, j \in 1 .. Len(answers) : i < j => answers[i].sqn < answers[j].sqn

\* The AUTS made for the vector given out last verifies (updateRandSqn stored its
\* RAND) unless an answer was not saved: only then may the process end in phase2.
LastResyncVerifies ==
    [][up' = up \/ unsaved
       \/ \E r \in locked : /\ request[r].kind = "resync"
                            /\ request[r].rand # answers[Len(answers)].req]_vars

\* A thread still has to do something about r: it is queued, a message for it is in
\* the work queue, a worker runs it, or a database operation will call back.
WorkedOn(r) == \/ \E i \in 1 .. Len(queue) : queue[i] = r
               \/ msgs[r] > 0 \/ r \in locked \/ InFlight(r)

\* No wake-up of a processor is lost between a worker that leaves because the next
\* phase is not ready and the callback that makes it ready: as the phases only
\* advance, every request that phase1 does not refuse ends.
NobodyStranded == up => \A r \in live : WorkedOn(r) \/ next[r] = "ulrFinal"

\* options.cpp: "concurrent" is the number of concurrent transactions to process.
\* Every slot counted in m_active belongs to a transaction that some thread still
\* works on.
SlotHeldByWork == up => \A r \in live : WorkedOn(r)
=============================================================================
