---------------------------- MODULE ForgetfulMap ----------------------------
(***************************************************************************)
(* What a cache promises its callers: a map that may forget a key at any   *)
(* time, and otherwise holds the value stored last.  A value enters the    *)
(* map only while a caller is storing it.                                  *)
(***************************************************************************)
CONSTANTS Callers, Keys, Values, None

VARIABLES
    map,        \* the value of each key, or None
    pending,    \* the key and the value a caller is storing, or None
    answer      \* what a caller was last told: of which key, and its value

Init ==
    /\ map = [k \in Keys |-> None]
    /\ pending = [c \in Callers |-> None]
    /\ answer = [c \in Callers |-> None]

Ask(c, k, v) ==
    /\ pending' = [pending EXCEPT ![c] = <<k, v>>]
    /\ UNCHANGED <<map, answer>>

Put(c, k, v) ==
    /\ pending[c] = <<k, v>>
    /\ map' = [map EXCEPT ![k] = v]
    /\ UNCHANGED <<pending, answer>>

Forget(k) == map' = [map EXCEPT ![k] = None] /\ UNCHANGED <<pending, answer>>

\* A caller is told nothing, or what the map holds when it is told.
Miss(c, k) ==
    /\ map' \in {map, [map EXCEPT ![k] = None]}
    /\ answer' = [answer EXCEPT ![c] = <<k, None>>]
    /\ pending' = [pending EXCEPT ![c] = None]

Hit(c, k) ==
    /\ map' = map
    /\ answer' = [answer EXCEPT ![c] = <<k, map[k]>>]
    /\ pending' = [pending EXCEPT ![c] = None]

\* The process ends: the callers are gone, and perhaps the map.
Crash ==
    /\ map' \in {map, [k \in Keys |-> None]}
    /\ pending' = [c \in Callers |-> None]
    /\ UNCHANGED answer

Next ==
    \/ Crash
    \/ \E k \in Keys : Forget(k)
    \/ \E c \in Callers, k \in Keys :
           Miss(c, k) \/ Hit(c, k) \/ \E v \in Values : Ask(c, k, v) \/ Put(c, k, v)

Spec == Init /\ [][Next]_<<map, pending, answer>>
=============================================================================
