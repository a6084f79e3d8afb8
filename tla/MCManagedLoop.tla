---------------------------- MODULE MCManagedLoop ----------------------------
(***************************************************************************)
(* Three scenarios of the loop, each with the turns of the model that tell *)
(* its branches apart and the bounds that make its cases happen:           *)
(*   shared  concurrent requests whose model reuses one id with the same   *)
(*           and with another input, in two rounds and in one, and a       *)
(*           search with a call beside it;                                 *)
(*   probe   the completion probe: tool rounds between two probes of one   *)
(*           candidate, two calls at once, a mixed turn, a hand-off;       *)
(*   resume  mixed turns that later requests continue, also twice over,    *)
(*           and which the model may answer with another mixed turn.       *)
(* The constants of the .cfg are those of the scenario shared.             *)
(***************************************************************************)
EXTENDS ManagedLoop

CONSTANTS i1, i2, a, b, x, r2, r3

VARIABLE scenario

web(id, sig) == [kind |-> "web", id |-> id, sig |-> sig]
client == [kind |-> "client", id |-> i2, sig |-> x]
search == [kind |-> "search", id |-> i2, sig |-> x]

MCIds == {i1, i2}
MCSigs == {a, b, x}
SharedTurns == {
    <<web(i1, a)>>, <<web(i1, b)>>, <<web(i1, a), web(i1, b)>>,
    <<web(i1, a), web(i1, a)>>, <<search, web(i1, a)>>}
ResumeTurns == {<<web(i1, a), client>>, <<web(i1, a), client, web(i2, b)>>}
ProbeTurns == {
    <<web(i1, a)>>, <<web(i1, a), web(i2, b)>>, <<web(i1, a), client>>,
    <<web(NoId, a)>>, <<client>>}

P == INSTANCE ManagedLoop WITH
         Turns <- ProbeTurns, HandoffRequests <- {r2}, MaxRounds <- 4,
         ProbeEnabled <- TRUE, RetryLimit <- 1, TaskDeadline <- TRUE
R == INSTANCE ManagedLoop WITH Turns <- ResumeTurns, MaxRounds <- 1

MCInit == Init /\ scenario \in {"shared", "probe", "resume"}

(* A third request comes only in the scenario that needs it. *)
MCNext ==
    /\ \/ scenario = "shared" /\ Next
       \/ scenario = "probe" /\ P!Next
       \/ scenario = "resume" /\ R!Next
    /\ scenario # "resume" => pc'[r3] = "idle"
    /\ UNCHANGED scenario

Progress(r) ==
    /\ \/ scenario = "shared" /\ (ModelStep(r) \/ CallStep(r) \/ ProbeStep(r))
       \/ scenario = "probe" /\ (P!ModelStep(r) \/ P!CallStep(r) \/ P!ProbeStep(r))
       \/ scenario = "resume" /\ (R!ModelStep(r) \/ R!CallStep(r) \/ R!ProbeStep(r))
    /\ UNCHANGED scenario

(* The fairness of ManagedLoop, scenario by scenario. *)
MCSpec ==
    /\ MCInit /\ [][MCNext]_<<vars, scenario>>
    /\ \A r \in Requests : WF_<<vars, scenario>>(Progress(r))
    /\ \A id \in LedgerIds : WF_<<vars, scenario>>(Settle(id) /\ UNCHANGED scenario)
=============================================================================
