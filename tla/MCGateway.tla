----------------------------- MODULE MCGateway -----------------------------
(***************************************************************************)
(* Three parts of the gateway that share no state, each explored while the *)
(* others rest: four callers of a semaphore of two, the smallest instance  *)
(* in which two queue behind a full pool and either may be aborted there;  *)
(* one request through the request listener, for every kind of request;    *)
(* and one final answer through the language gate.                         *)
(***************************************************************************)
EXTENDS Semaphore

CONSTANT Blocks

VARIABLES
    part,
    at, req, head, verdict, left, completed, signal, progress, held, native,
    fellBack, refused, clash, escaped,                            \* handler
    answer, detected, stage, backend, attempt, rewritten, delivered   \* gate

handlerVars == <<at, req, head, verdict, left, completed, signal, progress, held,
                 native, fellBack, refused, clash, escaped>>
gateVars == <<answer, detected, stage, backend, attempt, rewritten, delivered>>

H == INSTANCE RequestHandler WITH aborted <- signal
G == INSTANCE LanguageGate

MCInit ==
    /\ part \in {"semaphore", "handler", "gate"}
    /\ Init /\ H!Init /\ G!Init
    /\ part # "handler" => req = CHOOSE q \in H!Requests : q.kind = "local"
    /\ part # "gate" => answer = <<"text">> /\ detected = "compliant"

HandlerStep == part = "handler" /\ H!Step /\ UNCHANGED <<part, vars, gateVars>>
GateStep == part = "gate" /\ G!Next /\ UNCHANGED <<part, vars, handlerVars>>

MCNext ==
    \/ part = "semaphore" /\ Next /\ UNCHANGED <<part, handlerVars, gateVars>>
    \/ HandlerStep
    \/ part = "handler" /\ H!Close /\ UNCHANGED <<part, vars, gateVars>>
    \/ GateStep

(* The fairness of each part. *)
MCSpec ==
    /\ MCInit /\ [][MCNext]_<<part, vars, handlerVars, gateVars>>
    /\ Fairness
    /\ WF_handlerVars(HandlerStep)
    /\ WF_gateVars(GateStep)

(* On every way out the handler has given back what it took, its files     *)
(* before the base model is asked (Finally, Cleanup, Clean).               *)
ResourcesReleased == TypeOK /\ H!TypeOK /\ H!ResourcesReleased

(* One head is written but for a streamed count of media, and a client     *)
(* that stays is answered (sendJson, Catch).                               *)
AnsweredOnce == H!AnsweredOnce

(* The gate delivers the answer or one whole rewriting of it (Merge).      *)
DeliveredWhole == G!DeliveredWhole

(* Nobody queues for ever, every handler returns unless a forward was      *)
(* aborted, and the gate delivers.                                         *)
GatewayEnds ==
    NobodyWaitsForever /\ H!HandlerReturns /\ (part = "gate" => G!GateEnds)
=============================================================================
