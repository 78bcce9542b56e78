----------------------------- MODULE RequestReply ----------------------------
(***************************************************************************)
(* What a stack that sends requests over UDP promises the application that *)
(* uses it: every request is sent, is repeated at most N3 times while no    *)
(* answer came, and ends exactly once, either with the answer of the peer   *)
(* or with the error "remote peer not responding", which is never reported  *)
(* before all repetitions were spent.                                       *)
(***************************************************************************)
EXTENDS Integers

CONSTANTS Requests,  \* what identifies a request (its sequence number)
          N3         \* the number of repetitions, GTPV2C_N3_REQUESTS

VARIABLE fate        \* per request sent: how it stands, how often repeated

Outcomes == {"sent", "answered", "failed"}

Init == fate = [s \in {} |-> [outcome |-> "sent", tries |-> 0]]

Send(s) ==
  /\ s \notin DOMAIN fate
  /\ fate' = [r \in DOMAIN fate \cup {s} |->
                IF r = s THEN [outcome |-> "sent", tries |-> 0] ELSE fate[r]]

Open(s) == s \in DOMAIN fate /\ fate[s].outcome = "sent"

Becomes(s, outcome, tries) ==
  fate' = [r \in DOMAIN fate |->
             IF r = s THEN [outcome |-> outcome, tries |-> tries] ELSE fate[r]]

Repeat(s) ==
  /\ Open(s)
  /\ fate[s].tries < N3
  /\ Becomes(s, "sent", fate[s].tries + 1)

Answer(s) == Open(s) /\ Becomes(s, "answered", fate[s].tries)

Fail(s) == Open(s) /\ fate[s].tries = N3 /\ Becomes(s, "failed", N3)

Close(s) == Repeat(s) \/ Answer(s) \/ Fail(s)

Next == \E s \in Requests : Send(s) \/ Close(s)

Spec == Init /\ [][Next]_fate

\* A request that is open is eventually closed.
FairSpec == Spec /\ \A s \in Requests : WF_fate(Close(s))

==============================================================================
