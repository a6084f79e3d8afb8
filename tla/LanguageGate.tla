---------------------------- MODULE LanguageGate ----------------------------
(***************************************************************************)
(* applyFinalLanguageGate (src/src/proxy/final-language-gate.js) with the  *)
(* two rewriters of src/src/services/final-language-repair.js and          *)
(* applyFinalPresentationLanguage (src/src/services/proxy-server.js): a    *)
(* final answer in the wrong language is rewritten, text block by text     *)
(* block, by the language processor and then by the base model, each of    *)
(* them twice at most.  What a text says is abstracted to the verdict of   *)
(* the classifier.                                                         *)
(***************************************************************************)
EXTENDS Subsequence, Functions

CONSTANT Blocks    \* bound: blocks of an answer

VARIABLES answer,      \* the kinds of the blocks of the answer
          detected,    \* the class of its text: compliant, uncertain, repair
          stage,       \* judge, rewrite (a rewriter is at work), done
          backend, attempt,
          rewritten,   \* the segments the current attempt has rewritten
          delivered    \* who wrote each block of what is delivered

vars == <<answer, detected, stage, backend, attempt, rewritten, delivered>>

Kinds == {"text", "blank", "other", "tool_use"}
Decisions == {"compliant", "uncertain", "repair"}
Original == <<"original", 0, 0>>

(* responseTextEntries: the places of the blocks with visible text.        *)
Entries == Select([i \in 1..Len(answer) |-> i], LAMBDA i : answer[i] = "text")

Init ==
  /\ answer \in UNION {[1..n -> Kinds] : n \in 1..Blocks}
  /\ detected \in Decisions
  /\ stage = "judge" /\ backend = "none" /\ attempt = 0
  /\ rewritten = <<>>
  /\ delivered = [i \in 1..Len(answer) |-> Original]

Deliver(content) ==
  /\ stage' = "done" /\ delivered' = content
  /\ UNCHANGED <<answer, detected, backend, attempt, rewritten>>

Attempt(name, number) ==
  /\ stage' = "rewrite" /\ backend' = name /\ attempt' = number /\ rewritten' = <<>>
  /\ UNCHANGED <<answer, detected, delivered>>

(* An answer that calls a tool, has no text, or needs no repair passes.    *)
Passes == "tool_use" \in Range(answer) \/ Entries = <<>> \/ detected # "repair"

Judge ==
  /\ stage = "judge"
  /\ \/ Passes /\ Deliver(delivered)
     \/ ~Passes /\ \E name \in {"external", "base"} : Attempt(name, 1)

(* The next backend, or the original answer after the last.                *)
GiveUp ==
  IF backend = "external" THEN Attempt("base", 1) ELSE Deliver(delivered)

(* One request rewrites one segment; without visible text, with a tool     *)
(* call, with an error or an abort it fails the attempt and its backend.   *)
Segment ==
  /\ stage = "rewrite" /\ Len(rewritten) < Len(Entries)
  /\ \/ /\ rewritten' = Append(rewritten, <<backend, attempt, Len(rewritten) + 1>>)
        /\ UNCHANGED <<answer, detected, stage, backend, attempt, delivered>>
     \/ IF backend = "external"
          THEN /\ backend' = "base" /\ attempt' = 1 /\ rewritten' = <<>>
               /\ UNCHANGED <<answer, detected, stage, delivered>>
          ELSE stage' = "done" /\ UNCHANGED <<answer, detected, backend, attempt, rewritten, delivered>>

\* Mutant: the segments are merged by their number.
MergeMutByNumber == [i \in 1..Len(answer) |-> IF i <= Len(rewritten) THEN rewritten[i] ELSE Original]

(* The segments go to their own blocks of a copy of the answer.            *)
Merge ==
  [i \in 1..Len(answer) |->
     IF answer[i] = "text" THEN rewritten[CHOOSE k \in 1..Len(Entries) : Entries[k] = i]
                           ELSE Original]

Rewritten == stage = "rewrite" /\ Len(rewritten) = Len(Entries)

(* The rewriting differs from the source, and validateRepairedLanguage     *)
(* finds it in the wanted language or far enough on the way to it.         *)
Accept == Rewritten /\ Deliver(Merge)

\* Mutant: the strict attempt is repeated.
RejectMutAlwaysStrict == Rewritten /\ Attempt(backend, attempt)

(* An echo of the source or a text in the wrong language: the same backend *)
(* gets one strict attempt.                                                *)
Reject == Rewritten /\ IF attempt = 1 THEN Attempt(backend, 2) ELSE GiveUp

Next == Judge \/ Segment \/ Accept \/ Reject

Spec == Init /\ [][Next]_vars /\ WF_vars(Next)

-----------------------------------------------------------------------------
(* What is delivered is the answer itself, or the answer with each text    *)
(* block replaced by its own rewriting, all of them from one attempt, and  *)
(* every other block untouched: never a mixture of attempts, never the     *)
(* text of another block, though blank blocks are no segments.             *)
DeliveredWhole ==
  \/ \A i \in DOMAIN delivered : delivered[i] = Original
  \/ \E b \in {"external", "base"}, a \in 1..2 :
       \A i \in DOMAIN delivered :
         delivered[i] = IF answer[i] = "text"
                          THEN <<b, a, Cardinality({j \in 1..i : answer[j] = "text"})>>
                          ELSE Original

(* The answer is delivered in the end, after two attempts of two backends  *)
(* at most.                                                                *)
GateEnds == <>(stage = "done")
=============================================================================
