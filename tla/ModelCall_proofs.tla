--------------------------- MODULE ModelCall_proofs ---------------------------
(***************************************************************************)
(* One model call, for any number of stalls, loops and malformed inputs    *)
(* and for streams of any length: what is kept of the failed attempts.     *)
(* The argument follows a block.  It is whole in the stream of its         *)
(* attempt; the checkpoint holds just the whole blocks of the attempt that *)
(* runs; a recovery moves them to the preserved blocks, which are from     *)
(* earlier attempts, ordered by attempt, without thinking, and distinct in *)
(* their keys; and the answer is those and the blocks of the last attempt. *)
(***************************************************************************)
EXTENDS ModelCall, Subsequence_proofs, SequenceTheorems, TLAPS

-----------------------------------------------------------------------------
(* Keys, and the first block of every key *)

Kinds == {"thinking", "text", "tool"}

LEMMA KeyOfBlock ==
  ASSUME NEW b \in Heard
  PROVE  Key(b) # None <=> b.kind # "thinking"
<1>1. /\ b.kind \in Kinds /\ \E x \in Blocks : b.val = x.val
      /\ b.id = NoId \/ \E x \in Blocks : b.id = x.id
  BY DEF Heard, Kinds
<1>2. PICK x \in Blocks : b.val = x.val
  BY <1>1
<1>3. <<"text", b.val>> # None /\ <<"tool", b.val>> # None
  BY <1>2, NoneAssumption
<1>4. b.id # NoId => <<"tool-id", b.id>> # None
  BY <1>1, NoneAssumption
<1> QED
  BY <1>1, <1>3, <1>4 DEF Key, Kinds

LEMMA DistinctIs ==
  ASSUME NEW s \in Seq(Heard)
  PROVE  LET I == {i \in DOMAIN s : ~\E j \in 1..(i - 1) : SameKey(s[j], s[i])}
         IN  /\ I \in SUBSET (1..Len(s)) /\ Len(s) \in Nat
             /\ Distinct(s) = Subsequence(s, I)
             /\ \A i \in DOMAIN s : Key(s[i]) # None => \E j \in I : SameKey(s[j], s[i])
<1> DEFINE I == {i \in DOMAIN s : ~\E j \in 1..(i - 1) : SameKey(s[j], s[i])}
<1>1. DOMAIN s = 1..Len(s) /\ Len(s) \in Nat
  OBVIOUS
<1>2. Distinct(s) = Subsequence(s, I)
  BY DEF Distinct
<1>3. ASSUME NEW i \in DOMAIN s, Key(s[i]) # None
      PROVE  \E j \in I : SameKey(s[j], s[i])
  <2> DEFINE K == {j \in 1..Len(s) : SameKey(s[j], s[i])}
  <2>1. K \in SUBSET (1..Len(s)) /\ i \in K
    BY <1>1, <1>3 DEF SameKey
  <2>2. PICK j \in K : \A k \in K : j <= k
    <3> HIDE DEF K
    <3> QED
      BY <1>1, <2>1, LeastIndex
  <2>3. \A k \in 1..(j - 1) : k \in 1..Len(s) /\ ~(j <= k)
    BY <1>1
  <2>4. \A k \in 1..(j - 1) : ~SameKey(s[k], s[j])
    BY <2>2, <2>3 DEF SameKey
  <2> QED
    BY <1>1, <2>2, <2>4
<1> QED
  BY <1>1, <1>2, <1>3

(* What a merge keeps of blocks that are in the order of their attempts:   *)
(* every key once, in that order.                                          *)
Ordered(s) == \A i, j \in DOMAIN s : i < j => s[i].from <= s[j].from

LEMMA DistinctKeeps ==
  ASSUME NEW s \in Seq(Heard)
  PROVE  /\ Distinct(s) \in Seq(Heard)
         /\ Range(Distinct(s)) \subseteq Range(s)
         /\ \A i, j \in DOMAIN Distinct(s) :
              i < j => ~SameKey(Distinct(s)[i], Distinct(s)[j])
         /\ Ordered(s) => Ordered(Distinct(s))
         /\ \A i \in DOMAIN s : Key(s[i]) # None =>
              \E j \in DOMAIN Distinct(s) : SameKey(Distinct(s)[j], s[i])
<1> DEFINE I == {i \in DOMAIN s : ~\E j \in 1..(i - 1) : SameKey(s[j], s[i])}
           D == Distinct(s)
<1>1. /\ I \in SUBSET (1..Len(s)) /\ Len(s) \in Nat /\ DOMAIN s = 1..Len(s)
      /\ D = Subsequence(s, I)
      /\ \A i \in DOMAIN s : Key(s[i]) # None => \E j \in I : SameKey(s[j], s[i])
  BY DistinctIs
<1>2. \A i \in I : \A j \in I : i < j => ~SameKey(s[i], s[j])
  <2>1. \A i \in I : \A j \in I : i < j => i \in 1..(j - 1)
    BY <1>1
  <2> QED
    BY <2>1
<1> HIDE DEF I, D
<1>3. PICK f : IsReading(f, s, I)
  BY <1>1, SubsequenceReads
<1>4. DOMAIN D = 1..Cardinality(I) /\ D \in Seq(Heard)
  BY <1>1, SubsequenceReads, SubsequenceType
<1>5. \A m \in DOMAIN D : f[m] \in I /\ f[m] \in DOMAIN s /\ D[m] = s[f[m]]
  BY <1>1, <1>3, <1>4 DEF IsReading
<1>6. Range(D) \subseteq Range(s)
  BY <1>5 DEF Range
<1>7. \A i, j \in DOMAIN D : i < j => f[i] < f[j]
  BY <1>3, <1>4 DEF IsReading
<1>8. \A i, j \in DOMAIN D : i < j => ~SameKey(D[i], D[j])
  BY <1>2, <1>5, <1>7
<1>9. Ordered(s) => Ordered(D)
  BY <1>5, <1>7 DEF Ordered
<1>10. \A j \in I : \E m \in DOMAIN D : D[m] = s[j]
  BY <1>3, <1>4, <1>5 DEF IsReading
<1>11. \A i \in DOMAIN s : Key(s[i]) # None => \E j \in DOMAIN D : SameKey(D[j], s[i])
  BY <1>1, <1>10
<1> QED
  BY <1>4, <1>6, <1>8, <1>9, <1>11 DEF D

(* The filters of the recovery. *)
LEMMA RecoverableKeeps ==
  ASSUME NEW s \in Seq(Heard)
  PROVE  LET R == Recoverable(s) IN
         /\ R \in Seq(Heard)
         /\ \A i \in DOMAIN R : R[i].kind # "thinking" /\ R[i] \in Range(s)
         /\ \A i \in DOMAIN s : (s[i].kind # "thinking" /\ s[i].val # Blank) =>
              \E j \in DOMAIN R : R[j] = s[i]
<1> DEFINE I == {i \in DOMAIN s : s[i].kind = "tool" \/ (s[i].kind = "text" /\ s[i].val # Blank)}
           R == Recoverable(s)
<1>1. R = Subsequence(s, I) /\ I \in SUBSET DOMAIN s
  BY DEF Recoverable, Select
<1>2. \A i \in DOMAIN s : s[i].kind \in Kinds
  <2>1. \A i \in DOMAIN s : s[i] \in Heard
    OBVIOUS
  <2> QED
    BY <2>1 DEF Heard, Kinds
<1>3. /\ \A i \in I : s[i].kind # "thinking"
      /\ \A i \in DOMAIN s : (s[i].kind # "thinking" /\ s[i].val # Blank) => i \in I
  BY <1>2 DEF Kinds
<1> HIDE DEF I, R
<1>4. R \in Seq(Heard)
  BY <1>1, SubsequenceType
<1>5. /\ \A m \in DOMAIN R : \E i \in I : R[m] = s[i]
      /\ \A i \in I : \E m \in DOMAIN R : R[m] = s[i]
  BY <1>1, SubsequenceElements
<1>6. \A m \in DOMAIN R : R[m].kind # "thinking" /\ R[m] \in Range(s)
  BY <1>1, <1>3, <1>5 DEF Range
<1> QED
  BY <1>3, <1>4, <1>5, <1>6 DEF R

LEMMA NotThinkingKeeps ==
  ASSUME NEW s \in Seq(Heard)
  PROVE  LET R == NotThinking(s) IN
         /\ R \in Seq(Heard)
         /\ \A i \in DOMAIN R : R[i].kind # "thinking" /\ R[i] \in Range(s)
<1> DEFINE I == {i \in DOMAIN s : s[i].kind # "thinking"}
           R == NotThinking(s)
<1>1. R = Subsequence(s, I) /\ I \in SUBSET DOMAIN s /\ \A i \in I : s[i].kind # "thinking"
  BY DEF NotThinking, Select
<1> HIDE DEF I, R
<1>2. R \in Seq(Heard)
  BY <1>1, SubsequenceType
<1>3. \A m \in DOMAIN R : \E i \in I : R[m] = s[i]
  BY <1>1, SubsequenceElements
<1> QED
  BY <1>1, <1>2, <1>3 DEF R, Range

Parts == [b : Heard, st : {"open", "whole", "malformed"}]

LEMMA CompletedKeeps ==
  ASSUME NEW s \in Seq(Parts)
  PROVE  /\ Completed(s) \in Seq(Heard)
         /\ \A m \in DOMAIN Completed(s) :
              \E i \in DOMAIN s : s[i].st = "whole" /\ Completed(s)[m] = s[i].b
         /\ \A i \in DOMAIN s : s[i].st = "whole" =>
              \E m \in DOMAIN Completed(s) : Completed(s)[m] = s[i].b
<1> DEFINE I == {i \in DOMAIN s : s[i].st = "whole"}
           done == Subsequence(s, I)
           C == [i \in DOMAIN done |-> done[i].b]
<1>1. Completed(s) = C
  BY DEF Completed, Select
<1>2. I \in SUBSET DOMAIN s /\ \A i \in I : s[i].st = "whole"
  OBVIOUS
<1>3. /\ done \in Seq(Parts)
      /\ \A m \in DOMAIN done : \E i \in I : done[m] = s[i]
      /\ \A i \in I : \E m \in DOMAIN done : done[m] = s[i]
  <2> HIDE DEF I
  <2> QED
    BY <1>2, SubsequenceType, SubsequenceElements
<1> HIDE DEF done
<1>4. C \in Seq(Heard)
  <2>1. DOMAIN done = 1..Len(done) /\ Len(done) \in Nat
    BY <1>3
  <2>2. \A i \in DOMAIN done : done[i].b \in Heard
    <3>1. \A i \in DOMAIN done : done[i] \in Parts
      BY <1>3
    <3> QED
      BY <3>1 DEF Parts
  <2> QED
    BY <2>1, <2>2
<1>5. DOMAIN C = DOMAIN done /\ \A m \in DOMAIN done : C[m] = done[m].b
  OBVIOUS
<1> HIDE DEF C, I
<1>6. \A m \in DOMAIN C : \E i \in DOMAIN s : s[i].st = "whole" /\ C[m] = s[i].b
  BY <1>2, <1>3, <1>5
<1>7. \A i \in I : \E m \in DOMAIN C : C[m] = s[i].b
  BY <1>3, <1>5
<1>8. \A i \in DOMAIN s : s[i].st = "whole" => i \in I
  BY DEF I
<1> QED
  BY <1>1, <1>4, <1>6, <1>7, <1>8
-----------------------------------------------------------------------------
(* The inductive invariant *)

Running == Active \cup {"ready", "starting", "caught"}

(* What the model finished in the attempt that runs. *)
Finished == {w \in whole : w.from = Attempt}

(* The stream holds blocks of this attempt, and its whole ones are all     *)
(* that the attempt finished; the checkpoint is taken from it.             *)
StreamKnown ==
    /\ pc # "reading" => stream = <<>>
    /\ \A i \in DOMAIN stream :
         /\ stream[i].b.from = Attempt
         /\ stream[i].st = "whole" => stream[i].b \in whole
    /\ pc = "reading" =>
         \/ check = None /\ stream = <<>>
         \/ check = Completed(stream)

CheckKnown ==
    /\ pc \in {"ready", "starting", "asking", "busy", "adapting", "inspect"} => check = None
    /\ (pc \in Running /\ check = None) => Finished = {}
    /\ (pc \in Running /\ check # None) =>
         /\ \A i \in DOMAIN check : check[i] \in Finished
         /\ \A w \in Finished : \E i \in DOMAIN check : check[i] = w

(* Nothing is from a later attempt, and what is from an earlier one is     *)
(* preserved, in the order of the attempts and under one key each.         *)
PreservedKnown ==
    /\ \A i \in DOMAIN preserved :
         /\ preserved[i] \in whole
         /\ preserved[i].kind # "thinking"
         /\ pc \in Running => preserved[i].from < Attempt
    /\ Ordered(preserved)
    /\ \A i, j \in DOMAIN preserved : i < j => ~SameKey(preserved[i], preserved[j])
    /\ pc \in Running => Survives(preserved) /\ \A w \in whole : w.from <= Attempt

AnswerKnown ==
    /\ pc = "inspect" => Range(answer) \subseteq whole /\ Survives(answer)
    /\ MergedOnceInOrder
    /\ pc \notin {"done", "crashed"} => outcome = "none"

CallInv ==
    /\ TypeOK
    /\ StreamKnown
    /\ CheckKnown
    /\ PreservedKnown
    /\ AnswerKnown

LEMMA AttemptInRange ==
  ASSUME TypeOK
  PROVE  Attempt \in 1..(4 + StallLimit) /\ tries \in [Failures -> Nat]
<1>1. tries \in [Failures -> Nat] /\ \A f \in Failures : tries[f] <= Limit(f)
  BY DEF TypeOK
<1>2. /\ tries["stall"] \in Nat /\ tries["tool_input"] \in Nat
      /\ tries["thinking"] \in Nat /\ tries["response"] \in Nat
      /\ tries["stall"] <= StallLimit /\ tries["tool_input"] <= 1
      /\ tries["thinking"] <= 1 /\ tries["response"] <= 1
  BY <1>1 DEF Failures, Limit
<1> QED
  BY <1>1, <1>2, ModelCallAssumption DEF Attempt

LEMMA SaidIsHeard ==
  ASSUME TypeOK, NEW b \in Blocks
  PROVE  Said(b) \in Heard /\ Said(b).from = Attempt
<1>1. Attempt \in 1..(4 + StallLimit)
  BY AttemptInRange
<1>2. b.kind \in {"thinking", "text", "tool"}
  BY BlocksAssumption
<1> QED
  BY <1>1, <1>2 DEF Said, Heard

LEMMA CallStarts == Init => CallInv
<1> SUFFICES ASSUME Init PROVE CallInv
  OBVIOUS
<1>1. <<>> \in Seq(Heard) /\ <<>> \in Seq(Parts)
  BY EmptySeq
<1>2. NoTries \in [Failures -> Nat] /\ \A f \in Failures : NoTries[f] <= Limit(f)
  BY ModelCallAssumption DEF NoTries, Limit
<1>3. /\ preserved \in Seq(Heard) /\ answer \in Seq(Heard)
      /\ stream \in Seq([b : Heard, st : {"open", "whole", "malformed"}])
  BY <1>1 DEF Init, Parts
<1>4. TypeOK
  <2>1. fallback \in BOOLEAN /\ mode \in {"", "streaming", "buffered"}
    BY ModelCallAssumption DEF Init
  <2>2. {latest, bytes, waiting, fallback, aborted, leaked} \subseteq BOOLEAN
    BY <2>1 DEF Init
  <2>3. pc = "ready" /\ stage = 1 /\ check = None /\ body = "none" /\ err = "none"
        /\ tries = NoTries /\ stop = "end_turn" /\ outcome = "none" /\ whole = {}
    BY DEF Init
  <2>4. /\ pc \in Active \cup {"ready", "starting", "caught", "inspect", "done", "crashed"}
        /\ stage \in 1..2
        /\ tries \in [Failures -> Nat]
        /\ \A f \in Failures : tries[f] <= Limit(f)
        /\ check = None \/ check \in Seq(Heard)
    BY <1>2, <2>3
  <2>5. /\ body \in {"none", "sse", "json"}
        /\ err \in Failures \cup {"none", "other"}
        /\ stop \in Stops
        /\ outcome \in Failures \cup {"none", "answer", "promoted", "exhausted", "other"}
        /\ whole \subseteq Heard
    BY <2>3 DEF Stops
  <2> QED
    BY <1>3, <2>1, <2>2, <2>4, <2>5 DEF TypeOK
<1>5. preserved = <<>> /\ stream = <<>> /\ whole = {} /\ check = None
      /\ pc = "ready" /\ outcome = "none"
  BY DEF Init
<1>6. DOMAIN preserved = {} /\ DOMAIN stream = {}
  BY <1>3, <1>5, EmptySeq
<1>7. Survives(preserved) /\ Finished = {}
  BY <1>5 DEF Survives, Finished
<1> QED
  BY <1>4, <1>5, <1>6, <1>7 DEF CallInv, StreamKnown, CheckKnown, PreservedKnown,
     AnswerKnown, Ordered, MergedOnceInOrder
(* The parts of the invariant that only speak of what is kept. *)
keptVars == <<tries, preserved, whole>>

LEMMA KeptPreserved ==
  ASSUME CallInv, UNCHANGED keptVars,
         \/ pc \in Running /\ pc' \in Running
         \/ pc' \in {"inspect", "done", "crashed"}
  PROVE  PreservedKnown'
<1>1. Attempt' = Attempt
  BY DEF keptVars, Attempt
<1> QED
  BY <1>1 DEF CallInv, PreservedKnown, keptVars, Running, Active, Ordered, Survives

(* A step between the reads of an attempt, or its failure. *)
LEMMA QuietKeepsCall ==
  ASSUME CallInv, TypeOK', UNCHANGED <<keptVars, outcome>>,
         pc \in Running, pc' \in Running,
         stream' = <<>>, pc' = "reading" => check = None, check' = check,
         pc' \in {"ready", "starting", "asking", "busy", "adapting"} => check = None
  PROVE  CallInv'
<1>1. Attempt' = Attempt /\ Finished' = Finished
  BY DEF keptVars, Attempt, Finished
<1>2. PreservedKnown'
  BY KeptPreserved
<1>3. StreamKnown'
  BY DEF StreamKnown
<1>4. CheckKnown'
  BY <1>1 DEF CallInv, CheckKnown, Running, Active
<1>5. AnswerKnown'
  BY DEF CallInv, AnswerKnown, MergedOnceInOrder, Running, Active
<1> QED
  BY <1>2, <1>3, <1>4, <1>5 DEF CallInv
(* A step that disturbs nothing the invariant speaks of.                   *)
LEMMA IdleKeepsCall ==
  ASSUME CallInv, TypeOK',
         UNCHANGED <<keptVars, pc, check, stream, answer, outcome>>
  PROVE  CallInv'
<1>1. Attempt' = Attempt /\ Finished' = Finished
  BY DEF keptVars, Attempt, Finished
<1>2. StreamKnown'
  BY <1>1 DEF CallInv, StreamKnown, keptVars, Completed, Select
<1>3. CheckKnown'
  BY <1>1 DEF CallInv, CheckKnown, Running, Active
<1>4. PreservedKnown'
  BY <1>1 DEF CallInv, PreservedKnown, keptVars, Running, Active, Ordered, Survives
<1>5. AnswerKnown'
  BY <1>1 DEF CallInv, AnswerKnown, MergedOnceInOrder, Survives, keptVars
<1> QED
  BY <1>2, <1>3, <1>4, <1>5 DEF CallInv

-----------------------------------------------------------------------------
(* fetchUpstream and the failures of an attempt *)

LEMMA ThrowTyped ==
  ASSUME TypeOK, NEW e \in Failures \cup {"other"}, Throw(e),
         UNCHANGED <<stage, budgetVars, resultVars, whole>>,
         check' = check, mode' = mode, waiting' \in BOOLEAN,
         fallback' \in BOOLEAN, aborted' \in BOOLEAN, leaked' \in BOOLEAN
  PROVE  TypeOK'
<1>1. <<>> \in Seq([b : Heard, st : {"open", "whole", "malformed"}])
  BY EmptySeq
<1> QED
  BY <1>1, ZenonT(60) DEF TypeOK, Throw, ReadNothing, budgetVars, resultVars, Failures

(* An attempt that fails while it runs, whatever fails it.                 *)
LEMMA ThrowKeepsCall ==
  ASSUME CallInv, pc \in Running, NEW e \in Failures \cup {"other"}, Throw(e),
         UNCHANGED <<stage, budgetVars, resultVars, whole>>,
         check' = check, mode' = mode, waiting' \in BOOLEAN,
         fallback' \in BOOLEAN, aborted' \in BOOLEAN, leaked' \in BOOLEAN
  PROVE  CallInv'
<1>1. TypeOK'
  BY ThrowTyped DEF CallInv
<1> QED
  BY <1>1, QuietKeepsCall DEF Throw, ReadNothing, Running, Active, keptVars,
     budgetVars, resultVars

LEMMA BeginKeepsCall == CallInv /\ Begin => CallInv'
<1> SUFFICES ASSUME CallInv, Begin PROVE CallInv'
  OBVIOUS
<1>1. CASE aborted
  <2> QED
    BY <1>1, ThrowKeepsCall DEF Begin, CallInv, TypeOK, Running, Active
<1>2. CASE ~aborted
  <2>1. TypeOK'
    BY <1>2 DEF Begin, CallInv, TypeOK, Active, readVars, budgetVars, resultVars
  <2> QED
    BY <1>2, <2>1, QuietKeepsCall DEF Begin, CallInv, StreamKnown, CheckKnown, Running,
       Active, keptVars, readVars, budgetVars, resultVars
<1> QED
  BY <1>1, <1>2

LEMMA StartingKeepsCall == CallInv /\ Starting => CallInv'
<1> SUFFICES ASSUME CallInv, Starting PROVE CallInv'
  OBVIOUS
<1>1. TypeOK /\ {waiting, fallback, aborted, leaked} \subseteq BOOLEAN
  BY DEF CallInv, TypeOK
<1>2. CASE Started
  <2>1. TypeOK'
    BY <1>1, <1>2 DEF Started, TypeOK, Active, attemptVars, readVars, budgetVars, resultVars
  <2> QED
    BY <1>2, <2>1, QuietKeepsCall DEF Started, CallInv, StreamKnown, CheckKnown, Running,
       Active, keptVars, attemptVars, readVars, budgetVars, resultVars
<1>3. CASE StartFails
  <2>1. /\ pc \in Running /\ Throw("other") /\ leaked' \in BOOLEAN
        /\ UNCHANGED <<stage, budgetVars, resultVars, whole, check, mode, waiting, fallback,
                       aborted>>
    BY <1>3 DEF StartFails, Running
  <2> QED
    BY <1>1, <2>1, ThrowKeepsCall
<1> QED
  BY <1>2, <1>3 DEF Starting

LEMMA UpstreamKeepsCall == CallInv /\ Upstream => CallInv'
<1> SUFFICES ASSUME CallInv, Upstream PROVE CallInv'
  OBVIOUS
<1>1. /\ TypeOK
      /\ pc \in {"asking", "busy", "adapting"} => stream = <<>> /\ check = None
  BY DEF CallInv, StreamKnown, CheckKnown
<1>2. {waiting, fallback, aborted, leaked} \subseteq BOOLEAN
  BY <1>1 DEF TypeOK
<1>3. CASE Busy \/ RetryBusy \/ Adapted
  <2>1. TypeOK'
    BY <1>1, <1>3 DEF Busy, RetryBusy, Adapted, TypeOK, Active, attemptVars, readVars,
       budgetVars, resultVars
  <2> QED
    BY <1>1, <1>3, <2>1, QuietKeepsCall DEF Busy, RetryBusy, Adapted, Running, Active,
       keptVars, attemptVars, readVars, budgetVars, resultVars
<1>4. CASE RejectsImages
  <2>1. TypeOK'
    BY <1>1, <1>4 DEF RejectsImages, TypeOK, Active, budgetVars, resultVars
  <2> QED
    BY <1>1, <1>4, <2>1, QuietKeepsCall DEF RejectsImages, Running, Active,
       keptVars, budgetVars, resultVars
<1>5. CASE Accept
  <2>1. mode' \in {"", "streaming", "buffered"}
    BY <1>5, ModelCallAssumption DEF Accept, ModeOf
  <2>2. TypeOK'
    BY <1>1, <1>5, <2>1 DEF Accept, TypeOK, Active, budgetVars, resultVars
  <2> QED
    BY <1>1, <1>5, <2>2, QuietKeepsCall DEF Accept, Running, Active,
       keptVars, budgetVars, resultVars
<1>6. CASE Unavailable \/ Rejected \/ AdaptFails
  <2>1. pc \in Running /\ Throw("other")
    BY <1>6 DEF Unavailable, Rejected, AdaptFails, Running, Active
  <2>2. UNCHANGED <<stage, budgetVars, resultVars, whole, check, mode, fallback, aborted,
                   leaked>>
    BY <1>6 DEF Unavailable, Rejected, AdaptFails
  <2>3. waiting' \in BOOLEAN
    BY <1>2, <1>6 DEF Unavailable, Rejected, AdaptFails
  <2> QED
    BY <1>2, <2>1, <2>2, <2>3, ThrowKeepsCall
<1> QED
  BY <1>3, <1>4, <1>5, <1>6 DEF Upstream

(* The process ends, whatever the call was doing but reading.              *)
LEMMA CrashKeepsCall ==
  ASSUME CallInv, Unhandled, pc \notin Active, UNCHANGED timerUnchanged,
         aborted' \in BOOLEAN
  PROVE  CallInv'
<1>1. /\ pc' = "crashed"
      /\ UNCHANGED <<keptVars, check, stream, answer, outcome>>
      /\ UNCHANGED <<body, bytes, err, stage, latest, mode, waiting, fallback, leaked, stop>>
  BY DEF Unhandled, timerUnchanged, keptVars, readVars, budgetVars, resultVars
<1>2. TypeOK'
  BY <1>1 DEF CallInv, TypeOK, keptVars
<1>3. StreamKnown'
  <2>1. stream = <<>>
    BY DEF CallInv, StreamKnown, Active
  <2>2. stream' = <<>> /\ DOMAIN stream' = {}
    BY <1>1, <2>1, EmptySeq
  <2> QED
    BY <1>1, <2>2 DEF StreamKnown
<1>4. CheckKnown'
  BY <1>1 DEF CheckKnown, Running, Active
<1>5. PreservedKnown'
  BY <1>1, KeptPreserved
<1>6. AnswerKnown'
  BY <1>1 DEF AnswerKnown, MergedOnceInOrder
<1> QED
  BY <1>2, <1>3, <1>4, <1>5, <1>6 DEF CallInv

LEMMA DeadlinesKeepCall == CallInv /\ Deadlines => CallInv'
<1> SUFFICES ASSUME CallInv, Deadlines PROVE CallInv'
  OBVIOUS
<1>1. TypeOK /\ {waiting, fallback, aborted, leaked} \subseteq BOOLEAN
  BY DEF CallInv, TypeOK
<1>2. UNCHANGED timerUnchanged /\ aborted' \in BOOLEAN
  BY <1>1 DEF Deadlines, Stall, HardDeadline, TaskTimeout, Abort
<1>3. \/ \E e \in Failures \cup {"other"} : pc \in Running /\ Throw(e)
      \/ pc \notin Active /\ Unhandled
      \/ UNCHANGED <<pc, err, readVars>>
  <2>1. CASE Stall
    BY <2>1 DEF Stall, Running, Failures
  <2>2. CASE HardDeadline
    BY <2>2 DEF HardDeadline, Running
  <2>3. CASE TaskTimeout
    BY <2>3 DEF TaskTimeout, Running, Active
  <2>4. CASE Abort
    BY <2>4 DEF Abort, Running
  <2> QED
    BY <2>1, <2>2, <2>3, <2>4 DEF Deadlines
<1>4. CASE \E e \in Failures \cup {"other"} : pc \in Running /\ Throw(e)
  BY <1>1, <1>2, <1>4, ThrowKeepsCall DEF timerUnchanged
<1>5. CASE pc \notin Active /\ Unhandled
  BY <1>2, <1>5, CrashKeepsCall
<1>6. CASE UNCHANGED <<pc, err, readVars>>
  <2>1. TypeOK'
    BY <1>1, <1>2, <1>6 DEF timerUnchanged, TypeOK, readVars, budgetVars, resultVars
  <2> QED
    BY <1>2, <1>6, <2>1, IdleKeepsCall DEF timerUnchanged, readVars, budgetVars, resultVars,
       keptVars
<1> QED
  BY <1>3, <1>4, <1>5, <1>6

-----------------------------------------------------------------------------
(* collectAnthropicMessageFromSse *)

(* The whole blocks of s are just those of F.                              *)
Taken(s, F) ==
    /\ \A i \in DOMAIN s : s[i].st = "whole" => s[i].b \in F
    /\ \A w \in F : \E i \in DOMAIN s : s[i].st = "whole" /\ s[i].b = w

LEMMA CompletedTaken ==
  ASSUME NEW s \in Seq(Parts), NEW F, Taken(s, F)
  PROVE  /\ Completed(s) \in Seq(Heard) /\ Completed(s) # None
         /\ \A m \in DOMAIN Completed(s) : Completed(s)[m] \in F
         /\ \A w \in F : \E m \in DOMAIN Completed(s) : Completed(s)[m] = w
<1>1. /\ Completed(s) \in Seq(Heard)
      /\ \A m \in DOMAIN Completed(s) :
           \E i \in DOMAIN s : s[i].st = "whole" /\ Completed(s)[m] = s[i].b
      /\ \A i \in DOMAIN s : s[i].st = "whole" =>
           \E m \in DOMAIN Completed(s) : Completed(s)[m] = s[i].b
  BY CompletedKeeps
<1>2. Completed(s) # None
  BY <1>1, NoneAssumption
<1>3. \A m \in DOMAIN Completed(s) : Completed(s)[m] \in F
  BY <1>1 DEF Taken
<1>4. \A w \in F : \E m \in DOMAIN Completed(s) : Completed(s)[m] = w
  BY <1>1 DEF Taken
<1> QED
  BY <1>1, <1>2, <1>3, <1>4

LEMMA StreamTaken ==
  ASSUME CallInv, pc = "reading"
  PROVE  stream \in Seq(Parts) /\ Taken(stream, Finished)
<1>1. stream \in Seq(Parts)
  BY DEF CallInv, TypeOK, Parts
<1>2. \A i \in DOMAIN stream : stream[i].st = "whole" => stream[i].b \in Finished
  BY DEF CallInv, StreamKnown, Finished
<1>3. ASSUME NEW w \in Finished
      PROVE  \E i \in DOMAIN stream : stream[i].st = "whole" /\ stream[i].b = w
  <2>1. check # None
    BY <1>3 DEF CallInv, CheckKnown, Running, Active
  <2>2. check = Completed(stream) /\ \E m \in DOMAIN check : check[m] = w
    BY <1>3, <2>1 DEF CallInv, CheckKnown, StreamKnown, Running, Active
  <2>3. \A m \in DOMAIN Completed(stream) :
          \E i \in DOMAIN stream : stream[i].st = "whole" /\ Completed(stream)[m] = stream[i].b
    BY <1>1, CompletedKeeps
  <2> QED
    BY <2>2, <2>3
<1> QED
  BY <1>1, <1>2, <1>3 DEF Taken

(* A step of the stream: its parts change, the checkpoint is taken anew.   *)
LEMMA CheckpointKeepsCall ==
  ASSUME CallInv, TypeOK', pc = "reading", pc' = "reading",
         NEW s \in Seq(Parts), stream' = s, check' = Completed(s),
         \A i \in DOMAIN s : s[i].b.from = Attempt,
         UNCHANGED <<tries, preserved, answer, outcome>>,
         whole \subseteq whole',
         \A w \in whole' : w \notin whole => w.from = Attempt,
         Taken(s, Finished')
  PROVE  CallInv'
<1>1. Attempt' = Attempt
  BY DEF Attempt
<1>2. /\ check' # None
      /\ \A m \in DOMAIN check' : check'[m] \in Finished'
      /\ \A w \in Finished' : \E m \in DOMAIN check' : check'[m] = w
  BY CompletedTaken
<1>3. CheckKnown'
  BY <1>2 DEF CheckKnown
<1>4. StreamKnown'
  BY <1>1 DEF StreamKnown, Taken, Finished, Completed, Select
<1>5. Survives(preserved)' /\ (\A w \in whole : w.from <= Attempt)'
  <2>1. Attempt \in Nat
    BY AttemptInRange DEF CallInv
  <2>2. \A w \in whole' : w \in whole \/ w.from = Attempt
    OBVIOUS
  <2>3. Survives(preserved) /\ \A w \in whole : w.from <= Attempt
    BY DEF CallInv, PreservedKnown, Running, Active
  <2> QED
    BY <1>1, <2>1, <2>2, <2>3 DEF Survives
<1>6. PreservedKnown'
  BY <1>1, <1>5 DEF CallInv, PreservedKnown, Ordered, Running, Active
<1>7. AnswerKnown'
  BY DEF CallInv, AnswerKnown, MergedOnceInOrder
<1> QED
  BY <1>3, <1>4, <1>6, <1>7 DEF CallInv

LEMMA BlockStartKeepsCall == CallInv /\ BlockStart => CallInv'
<1> SUFFICES ASSUME CallInv, BlockStart PROVE CallInv'
  OBVIOUS
<1>1. PICK b \in Blocks : stream' = Append(stream, [b |-> Said(b), st |-> "open"])
  BY DEF BlockStart
<1> DEFINE new == [b |-> Said(b), st |-> "open"]
<1>2. pc = "reading" /\ pc' = "reading"
  BY DEF BlockStart, ReadingSse
<1>3. UNCHANGED <<stage, budgetVars, mode, waiting, fallback, aborted, leaked, body, bytes, err,
                  resultVars, whole>> /\ check' = Completed(stream')
  BY DEF BlockStart, readUnchanged
<1>4. new \in Parts /\ new.b.from = Attempt /\ new.st # "whole"
  BY SaidIsHeard DEF CallInv, Parts
<1>5. stream \in Seq(Parts) /\ Taken(stream, Finished)
  BY <1>2, StreamTaken
<1> DEFINE s == Append(stream, new)
<1> HIDE DEF new
<1>6. /\ s \in Seq(Parts)
      /\ \A i \in DOMAIN s : s[i] = new \/ (i \in DOMAIN stream /\ s[i] = stream[i])
      /\ \A i \in DOMAIN stream : i \in DOMAIN s /\ s[i] = stream[i]
  BY <1>4, <1>5
<1> HIDE DEF s
<1>7. \A i \in DOMAIN s : s[i].b.from = Attempt
  BY <1>4, <1>6 DEF CallInv, StreamKnown
<1>8. Taken(s, Finished)
  BY <1>4, <1>5, <1>6 DEF Taken
<1>9. Finished' = Finished
  BY <1>3 DEF Finished, Attempt, budgetVars
<1>10. stream' = s /\ check' = Completed(s)
  BY <1>1, <1>3 DEF s, new
<1>11. TypeOK'
  <2>1. check' \in Seq(Heard)
    BY <1>6, <1>10, CompletedKeeps
  <2> QED
    BY <1>2, <1>3, <1>6, <1>10, <2>1 DEF CallInv, TypeOK, Parts, budgetVars, resultVars
<1> QED
  BY <1>2, <1>3, <1>6, <1>7, <1>8, <1>9, <1>10, <1>11, CheckpointKeepsCall
     DEF budgetVars, resultVars

LEMMA BlockStopKeepsCall == CallInv /\ BlockStop => CallInv'
<1> SUFFICES ASSUME CallInv, BlockStop PROVE CallInv'
  OBVIOUS
<1> DEFINE n == Len(stream)
<1>1. pc = "reading" /\ pc' = "reading" /\ stream # <<>> /\ Last(stream).st = "open"
  BY DEF BlockStop, ReadingSse, Open
<1>2. UNCHANGED <<stage, budgetVars, mode, waiting, fallback, aborted, leaked, body, bytes, err,
                  resultVars>> /\ check' = Completed(stream')
  BY DEF BlockStop, readUnchanged
<1>3. PICK t \in {"whole", "malformed"} :
        /\ stream' = [stream EXCEPT ![n].st = t]
        /\ whole' = IF t = "whole" THEN whole \cup {Last(stream).b} ELSE whole
  BY DEF BlockStop
<1>4. stream \in Seq(Parts) /\ Taken(stream, Finished)
  BY <1>1, StreamTaken
<1>5. n \in DOMAIN stream /\ DOMAIN stream = 1..n /\ n \in Nat
  BY <1>1, <1>4, EmptySeq
<1>6. stream[n].st = "open" /\ Last(stream).b = stream[n].b
  BY <1>1 DEF Last
<1>7. stream[n] \in Parts
  BY <1>4, <1>5
<1>8. stream[n].b \in Heard
  BY <1>7 DEF Parts
<1> DEFINE s == [stream EXCEPT ![n].st = t]
<1>9. /\ DOMAIN s = DOMAIN stream
      /\ \A i \in DOMAIN stream : i # n => s[i] = stream[i]
      /\ s[n].b = stream[n].b /\ s[n].st = t
  BY <1>4, <1>5, <1>7 DEF Parts
<1>10. s \in Seq(Parts)
  BY <1>4, <1>5, <1>7 DEF Parts
<1>11. stream' = s /\ check' = Completed(s)
  BY <1>2, <1>3
<1> HIDE DEF s, n
<1>12. \A i \in DOMAIN s : s[i].b = stream[i].b /\ s[i].b.from = Attempt
  BY <1>1, <1>9 DEF CallInv, StreamKnown
<1>13. \A w : w \in Finished' <=> (w \in Finished \/ (t = "whole" /\ w = stream[n].b))
  <2>1. Attempt' = Attempt
    BY <1>2 DEF Attempt, budgetVars
  <2>2. stream[n].b.from = Attempt
    BY <1>5, <1>9, <1>12
  <2> QED
    BY <1>3, <1>6, <2>1, <2>2 DEF Finished
<1>14. Taken(s, Finished')
  <2>1. \A i \in DOMAIN s : s[i].st = "whole" => s[i].b \in Finished'
    BY <1>4, <1>5, <1>9, <1>13 DEF Taken
  <2>2. \A w \in Finished' : \E i \in DOMAIN s : s[i].st = "whole" /\ s[i].b = w
    BY <1>4, <1>5, <1>6, <1>9, <1>13 DEF Taken
  <2> QED
    BY <2>1, <2>2 DEF Taken
<1>15. whole' \subseteq Heard /\ whole \subseteq whole'
  BY <1>3, <1>6, <1>8 DEF CallInv, TypeOK
<1>16. \A w \in whole' : w \notin whole => w.from = Attempt
  BY <1>3, <1>5, <1>6, <1>9, <1>12
<1>17. TypeOK'
  <2>1. check' \in Seq(Heard)
    BY <1>10, <1>11, CompletedKeeps
  <2> QED
    BY <1>1, <1>2, <1>10, <1>11, <1>15, <2>1
       DEF CallInv, TypeOK, Parts, budgetVars, resultVars
<1> QED
  BY <1>1, <1>2, <1>10, <1>11, <1>12, <1>14, <1>15, <1>16, <1>17, CheckpointKeepsCall
     DEF budgetVars, resultVars

LEMMA LoopDetectedKeepsCall == CallInv /\ LoopDetected => CallInv'
<1> SUFFICES ASSUME CallInv, LoopDetected PROVE CallInv'
  OBVIOUS
<1>1. pc = "reading" /\ stream # <<>> /\ check' = Completed(stream)
      /\ UNCHANGED <<readUnchanged, resultVars, whole>>
  BY DEF LoopDetected, ReadingSse, Open
<1>2. stream \in Seq(Parts) /\ Taken(stream, Finished)
  BY <1>1, StreamTaken
<1>3. Last(stream).b.kind \in Kinds
  <2>1. Last(stream) \in Parts
    BY <1>1, <1>2, EmptySeq DEF Last
  <2>2. Last(stream).b \in Heard
    BY <2>1 DEF Parts
  <2> QED
    BY <2>2 DEF Heard, Kinds
<1>4. PICK e \in Failures : Throw(e)
  BY <1>3 DEF LoopDetected, Kinds, Failures
<1>5. /\ check' \in Seq(Heard) /\ check' # None
      /\ \A m \in DOMAIN check' : check'[m] \in Finished
      /\ \A w \in Finished : \E m \in DOMAIN check' : check'[m] = w
  BY <1>1, <1>2, CompletedTaken
<1>6. pc' = "caught" /\ stream' = <<>> /\ body' = "none" /\ bytes' = FALSE /\ err' = e
  BY <1>4 DEF Throw, ReadNothing
<1>7. Finished' = Finished
  BY <1>1 DEF Finished, Attempt, readUnchanged, budgetVars
<1>8. TypeOK'
  <2>1. <<>> \in Seq(Parts)
    BY EmptySeq
  <2> QED
    BY <1>1, <1>5, <1>6, <2>1 DEF CallInv, TypeOK, readUnchanged, budgetVars, resultVars,
       Parts
<1>9. PreservedKnown'
  BY <1>1, <1>6, KeptPreserved DEF keptVars, readUnchanged, budgetVars, Running, Active
<1>10. StreamKnown'
  <2>1. DOMAIN stream' = {}
    BY <1>6, EmptySeq
  <2> QED
    BY <1>6, <2>1 DEF StreamKnown
<1>11. CheckKnown'
  BY <1>5, <1>6, <1>7 DEF CheckKnown
<1>12. AnswerKnown'
  BY <1>1, <1>6 DEF CallInv, AnswerKnown, MergedOnceInOrder, resultVars
<1> QED
  BY <1>8, <1>9, <1>10, <1>11, <1>12 DEF CallInv

-----------------------------------------------------------------------------
(* The merge at the end of the call *)

OncePerKey(m) ==
    \A i, j \in DOMAIN m : (i < j /\ m[i].from # m[j].from) =>
        /\ ~SameKey(m[i], m[j])
        /\ m[i].from < m[j].from
        /\ m[i].kind # "thinking" /\ m[j].kind # "thinking"

LEMMA MergeKeeps ==
  ASSUME CallInv, pc \in Running, NEW raw \in Seq(Heard),
         \A i \in DOMAIN raw : raw[i].from = Attempt
  PROVE  LET m == MergedContent(raw) IN
         /\ m \in Seq(Heard)
         /\ \A i \in DOMAIN m : m[i] \in whole \/ m[i] \in Range(raw)
         /\ \A w \in whole : (w.from < Attempt /\ w.kind # "thinking" /\ w.val # Blank)
              => \E i \in DOMAIN m : SameKey(m[i], w)
         /\ OncePerKey(m)
<1>1. /\ preserved \in Seq(Heard) /\ Attempt \in Nat
      /\ \A i \in DOMAIN preserved : /\ preserved[i] \in whole
                                     /\ preserved[i].kind # "thinking"
                                     /\ preserved[i].from < Attempt
      /\ Ordered(preserved) /\ Survives(preserved)
  <2>1. preserved \in Seq(Heard) /\ TypeOK
    BY DEF CallInv, TypeOK
  <2>2. Attempt \in Nat
    BY <2>1, AttemptInRange
  <2> QED
    BY <2>1, <2>2 DEF CallInv, PreservedKnown
<1>2. CASE preserved = <<>>
  <2>1. DOMAIN preserved = {}
    BY <1>1, <1>2, EmptySeq
  <2>2. MergedContent(raw) = raw
    BY <1>2 DEF MergedContent
  <2>3. \A w \in whole : ~(w.from < Attempt /\ w.kind # "thinking" /\ w.val # Blank)
    BY <1>1, <2>1 DEF Survives
  <2>4. OncePerKey(raw)
    BY DEF OncePerKey
  <2> QED
    BY <2>2, <2>3, <2>4 DEF Range
<1>3. CASE preserved # <<>>
  <2> DEFINE nt == NotThinking(raw)
             c == preserved \o nt
             D == Distinct(c)
  <2>1. MergedContent(raw) = D
    BY <1>3 DEF MergedContent
  <2>2. /\ nt \in Seq(Heard)
        /\ \A i \in DOMAIN nt : nt[i].kind # "thinking" /\ nt[i] \in Range(raw)
    BY NotThinkingKeeps
  <2>3. \A i \in DOMAIN nt : nt[i].from = Attempt
    BY <2>2 DEF Range
  <2> HIDE DEF nt
  <2>4. /\ c \in Seq(Heard)
        /\ \A i \in DOMAIN preserved : i \in DOMAIN c /\ c[i] = preserved[i]
        /\ \A i \in DOMAIN c :
             \/ i \in DOMAIN preserved /\ c[i] = preserved[i]
             \/ /\ i > Len(preserved) /\ i - Len(preserved) \in DOMAIN nt
                /\ c[i] = nt[i - Len(preserved)]
    BY <1>1, <2>2
  <2>5. DOMAIN preserved = 1..Len(preserved) /\ Len(preserved) \in Nat
        /\ DOMAIN c \subseteq Nat
    BY <1>1, <2>4
  <2> HIDE DEF c
  <2>6. Ordered(c)
    <3> SUFFICES ASSUME NEW i \in DOMAIN c, NEW j \in DOMAIN c, i < j
                 PROVE  c[i].from <= c[j].from
      BY DEF Ordered
    <3>1. CASE j \in DOMAIN preserved
      <4>1. i \in DOMAIN preserved
        BY <2>4, <2>5, <3>1
      <4> QED
        BY <1>1, <2>4, <3>1, <4>1 DEF Ordered
    <3>2. CASE j \notin DOMAIN preserved
      <4>1. c[j].from = Attempt
        BY <2>3, <2>4, <3>2
      <4>2. c[i].from = Attempt \/ (c[i].from < Attempt /\ i \in DOMAIN preserved)
        BY <1>1, <2>3, <2>4
      <4>3. c[i].from <= Attempt
        <5>1. c[i] \in Heard
          BY <2>4
        <5>2. c[i].from \in Nat
          BY <5>1, ModelCallAssumption DEF Heard
        <5> QED
          BY <1>1, <4>2, <5>2
      <4> QED
        BY <4>1, <4>3
    <3> QED
      BY <3>1, <3>2
  <2>7. /\ D \in Seq(Heard)
        /\ Range(D) \subseteq Range(c)
        /\ \A i, j \in DOMAIN D : i < j => ~SameKey(D[i], D[j])
        /\ Ordered(D)
        /\ \A i \in DOMAIN c : Key(c[i]) # None =>
             \E j \in DOMAIN D : SameKey(D[j], c[i])
    BY <2>4, <2>6, DistinctKeeps
  <2> HIDE DEF D
  <2>8. \A i \in DOMAIN D : \E j \in DOMAIN c : D[i] = c[j]
    BY <2>7 DEF Range
  <2>9. \A i \in DOMAIN D : /\ D[i] \in whole \/ D[i] \in Range(raw)
                           /\ D[i].kind # "thinking"
    <3>1. \A j \in DOMAIN c : /\ c[j] \in whole \/ c[j] \in Range(raw)
                             /\ c[j].kind # "thinking"
      BY <1>1, <2>2, <2>4
    <3> QED
      BY <2>8, <3>1
  <2>10. \A w \in whole : (w.from < Attempt /\ w.kind # "thinking" /\ w.val # Blank)
              => \E i \in DOMAIN D : SameKey(D[i], w)
    <3> SUFFICES ASSUME NEW w \in whole,
                        w.from < Attempt /\ w.kind # "thinking" /\ w.val # Blank
                 PROVE  \E i \in DOMAIN D : SameKey(D[i], w)
      OBVIOUS
    <3>1. PICK i \in DOMAIN preserved : SameKey(preserved[i], w)
      BY <1>1 DEF Survives
    <3>2. i \in DOMAIN c /\ SameKey(c[i], w)
      BY <2>4, <3>1
    <3>3. PICK j \in DOMAIN D : SameKey(D[j], c[i])
      BY <2>7, <3>2 DEF SameKey
    <3> QED
      BY <3>2, <3>3 DEF SameKey
  <2>11. OncePerKey(D)
    <3>1. \A i \in DOMAIN D : D[i].from \in Nat
      <4>1. \A i \in DOMAIN D : D[i] \in Heard
        BY <2>7
      <4> QED
        BY <4>1, ModelCallAssumption DEF Heard
    <3> QED
      BY <2>7, <2>9, <3>1 DEF OncePerKey, Ordered
  <2> QED
    BY <2>1, <2>7, <2>9, <2>10, <2>11
<1> QED
  BY <1>2, <1>3

LEMMA ReceiveKeepsCall ==
  ASSUME CallInv, pc \in Running, NEW raw \in Seq(Heard),
         \A i \in DOMAIN raw : raw[i].from = Attempt,
         NEW s \in Stops, Receive(raw, s), UNCHANGED readUnchanged
  PROVE  CallInv'
<1> DEFINE m == MergedContent(raw)
<1>1. /\ m \in Seq(Heard)
      /\ \A i \in DOMAIN m : m[i] \in whole \/ m[i] \in Range(raw)
      /\ \A w \in whole : (w.from < Attempt /\ w.kind # "thinking" /\ w.val # Blank)
           => \E i \in DOMAIN m : SameKey(m[i], w)
      /\ OncePerKey(m)
  BY MergeKeeps
<1>2. /\ pc' = "inspect" /\ answer' = m /\ stop' = MergedStop(raw, s)
      /\ whole' = whole \cup Range(raw) /\ check' = None
      /\ stream' = <<>> /\ body' = "none" /\ bytes' = FALSE
      /\ UNCHANGED <<err, outcome, stage, budgetVars, mode, waiting, fallback, aborted, leaked>>
  BY DEF Receive, ReadNothing, readUnchanged
<1> HIDE DEF m
<1>3. Attempt' = Attempt
  BY <1>2 DEF Attempt, budgetVars
<1>4. \A w \in whole' : w \in whole \/ w.from = Attempt
  BY <1>2 DEF Range
<1>5. Attempt \in Nat
  BY AttemptInRange DEF CallInv
<1>6. TypeOK'
  <2>1. <<>> \in Seq(Parts)
    BY EmptySeq
  <2>2. stop' \in Stops
    BY <1>2 DEF MergedStop, Stops
  <2>3. whole' \subseteq Heard
    <3>1. Range(raw) \subseteq Heard
      BY DEF Range
    <3> QED
      BY <1>2, <3>1 DEF CallInv, TypeOK
  <2> QED
    BY <1>1, <1>2, <2>1, <2>2, <2>3 DEF CallInv, TypeOK, Parts, budgetVars
<1>7. StreamKnown'
  <2>1. DOMAIN stream' = {}
    BY <1>2, EmptySeq
  <2> QED
    BY <1>2, <2>1 DEF StreamKnown
<1>8. CheckKnown'
  BY <1>2 DEF CheckKnown, Running, Active
<1>9. PreservedKnown'
  BY <1>2 DEF CallInv, PreservedKnown, Ordered, Running, Active, budgetVars
<1>10. AnswerKnown'
  <2>1. Range(m) \subseteq whole'
    BY <1>1, <1>2 DEF Range
  <2>2. Survives(answer)'
    BY <1>1, <1>2, <1>3, <1>4, <1>5 DEF Survives
  <2>3. MergedOnceInOrder'
    BY <1>1, <1>2 DEF MergedOnceInOrder, OncePerKey
  <2> QED
    BY <1>2, <2>1, <2>2, <2>3 DEF CallInv, AnswerKnown, Running, Active
<1> QED
  BY <1>6, <1>7, <1>8, <1>9, <1>10 DEF CallInv

LEMMA ReadingKeepsCall == CallInv /\ Reading => CallInv'
<1> SUFFICES ASSUME CallInv, Reading PROVE CallInv'
  OBVIOUS
<1>1. TypeOK /\ {waiting, fallback, aborted, leaked} \subseteq BOOLEAN
  BY DEF CallInv, TypeOK
<1>2. CASE FirstByte
  <2>1. TypeOK'
    BY <1>1, <1>2 DEF FirstByte, TypeOK, readUnchanged, budgetVars, resultVars
  <2> QED
    BY <1>2, <2>1, IdleKeepsCall DEF FirstByte, readUnchanged, budgetVars, resultVars,
       keptVars
<1>3. CASE BodyFails \/ (StreamEnds /\ \E e \in {"tool_input", "other"} : Throw(e))
  <2>1. PICK e \in Failures \cup {"other"} : Throw(e)
    BY <1>3 DEF BodyFails, Failures
  <2>2. check' = check /\ pc = "reading" /\ UNCHANGED <<readUnchanged, resultVars, whole>>
    <3>1. pc' = "caught" => ~\E raw, s : Receive(raw, s)
      BY DEF Receive
    <3> QED
      BY <1>3, <2>1, <3>1 DEF BodyFails, StreamEnds, ReadingSse, Throw
  <2> QED
    BY <1>1, <2>1, <2>2, ThrowKeepsCall DEF readUnchanged, Running, Active
<1>4. CASE StreamEnds /\ \E s \in Stops : Receive(Content(stream), s)
  <2>1. pc = "reading" /\ UNCHANGED readUnchanged
    BY <1>4 DEF StreamEnds, ReadingSse
  <2>2. stream \in Seq(Parts) /\ \A i \in DOMAIN stream : stream[i].b.from = Attempt
    BY <2>1, StreamTaken DEF CallInv, StreamKnown
  <2>3. \A i \in DOMAIN stream : stream[i].b \in Heard
    <3>1. \A i \in DOMAIN stream : stream[i] \in Parts
      BY <2>2
    <3> QED
      BY <3>1 DEF Parts
  <2>4. Content(stream) \in Seq(Heard)
        /\ \A i \in DOMAIN Content(stream) : Content(stream)[i].from = Attempt
    BY <2>2, <2>3 DEF Content
  <2> QED
    BY <1>4, <2>1, <2>4, ReceiveKeepsCall DEF Running, Active
<1>5. CASE JsonAnswer
  <2>0. PICK n \in 0..MaxBlocks : \E said \in [1..n -> Blocks], s \in Stops :
          Receive([i \in 1..n |-> Said(said[i])], s)
    BY <1>5 DEF JsonAnswer
  <2>1. PICK said \in [1..n -> Blocks], s \in Stops :
          Receive([i \in 1..n |-> Said(said[i])], s)
    BY <2>0
  <2> DEFINE raw == [i \in 1..n |-> Said(said[i])]
  <2>2. \A i \in 1..n : Said(said[i]) \in Heard /\ Said(said[i]).from = Attempt
    BY <1>1, SaidIsHeard
  <2>3. raw \in Seq(Heard) /\ \A i \in DOMAIN raw : raw[i].from = Attempt
    BY <2>2, ModelCallAssumption
  <2>4. Receive(raw, s) /\ UNCHANGED readUnchanged /\ pc \in Running
    BY <1>5, <2>1 DEF JsonAnswer, Running, Active
  <2> HIDE DEF raw
  <2> QED
    BY <2>3, <2>4, ReceiveKeepsCall
<1>6. StreamEnds => \/ \E s \in Stops : Receive(Content(stream), s)
                    \/ \E e \in {"tool_input", "other"} : Throw(e)
  BY DEF StreamEnds
<1> QED
  BY <1>2, <1>3, <1>4, <1>5, <1>6, BlockStartKeepsCall, BlockStopKeepsCall,
     LoopDetectedKeepsCall DEF Reading

-----------------------------------------------------------------------------
(* containedUpstream's catch *)

(* The blocks of the failed attempt join the preserved ones.               *)
Checked == IF check = None THEN <<>> ELSE check

LEMMA RecoverCarries ==
  ASSUME CallInv, pc = "caught"
  PROVE  LET p == Distinct(preserved \o Recoverable(Checked)) IN
         /\ p \in Seq(Heard)
         /\ \A i \in DOMAIN p : /\ p[i] \in whole /\ p[i].kind # "thinking"
                               /\ p[i].from <= Attempt
         /\ Ordered(p)
         /\ \A i, j \in DOMAIN p : i < j => ~SameKey(p[i], p[j])
         /\ \A w \in whole : (w.kind # "thinking" /\ w.val # Blank)
              => \E i \in DOMAIN p : SameKey(p[i], w)
<1> DEFINE r == Recoverable(Checked)
           c == preserved \o r
           p == Distinct(c)
<1>1. /\ preserved \in Seq(Heard) /\ Attempt \in Nat /\ whole \subseteq Heard
      /\ \A i \in DOMAIN preserved : /\ preserved[i] \in whole
                                     /\ preserved[i].kind # "thinking"
                                     /\ preserved[i].from < Attempt
      /\ Ordered(preserved) /\ Survives(preserved)
      /\ \A w \in whole : w.from <= Attempt
  <2>1. preserved \in Seq(Heard) /\ TypeOK /\ whole \subseteq Heard
    BY DEF CallInv, TypeOK
  <2>2. Attempt \in Nat
    BY <2>1, AttemptInRange
  <2> QED
    BY <2>1, <2>2 DEF CallInv, PreservedKnown, Running
<1>2. /\ Checked \in Seq(Heard)
      /\ \A i \in DOMAIN Checked : Checked[i] \in Finished
      /\ \A w \in Finished : \E i \in DOMAIN Checked : Checked[i] = w
  <2>1. CASE check = None
    <3>1. Checked = <<>> /\ Finished = {}
      BY <2>1 DEF CallInv, CheckKnown, Running, Checked
    <3>2. Checked \in Seq(Heard) /\ DOMAIN Checked = {}
      BY <3>1, EmptySeq
    <3> QED
      BY <3>1, <3>2
  <2>2. CASE check # None
    <3>1. Checked = check /\ check \in Seq(Heard)
      BY <2>2 DEF CallInv, TypeOK, Checked
    <3> QED
      BY <2>2, <3>1 DEF CallInv, CheckKnown, Running
  <2> QED
    BY <2>1, <2>2
<1>3. /\ r \in Seq(Heard)
      /\ \A i \in DOMAIN r : r[i].kind # "thinking" /\ r[i] \in Range(Checked)
      /\ \A i \in DOMAIN Checked : (Checked[i].kind # "thinking" /\ Checked[i].val # Blank)
           => \E j \in DOMAIN r : r[j] = Checked[i]
  BY <1>2, RecoverableKeeps
<1> HIDE DEF r
<1>4. \A i \in DOMAIN r : r[i] \in Finished
  BY <1>2, <1>3 DEF Range
<1>5. \A i \in DOMAIN r : r[i] \in whole /\ r[i].from = Attempt
  BY <1>4 DEF Finished
<1>6. \A w \in Finished : (w.kind # "thinking" /\ w.val # Blank)
        => \E j \in DOMAIN r : r[j] = w
  BY <1>2, <1>3
<1>7. /\ c \in Seq(Heard)
      /\ \A i \in DOMAIN preserved : i \in DOMAIN c /\ c[i] = preserved[i]
      /\ \A j \in DOMAIN r : \E i \in DOMAIN c : c[i] = r[j]
      /\ \A i \in DOMAIN c :
           \/ i \in DOMAIN preserved /\ c[i] = preserved[i]
           \/ /\ i > Len(preserved) /\ i - Len(preserved) \in DOMAIN r
              /\ c[i] = r[i - Len(preserved)]
  <2>1. \A j \in DOMAIN r : Len(preserved) + j \in DOMAIN c /\ c[Len(preserved) + j] = r[j]
    BY <1>1, <1>3
  <2>2. \A j \in DOMAIN r : \E i \in DOMAIN c : c[i] = r[j]
    BY <2>1
  <2>3. /\ c \in Seq(Heard)
        /\ \A i \in DOMAIN preserved : i \in DOMAIN c /\ c[i] = preserved[i]
        /\ \A i \in DOMAIN c :
             \/ i \in DOMAIN preserved /\ c[i] = preserved[i]
             \/ /\ i > Len(preserved) /\ i - Len(preserved) \in DOMAIN r
                /\ c[i] = r[i - Len(preserved)]
    BY <1>1, <1>3
  <2> QED
    BY <2>2, <2>3
<1>8. DOMAIN preserved = 1..Len(preserved) /\ Len(preserved) \in Nat /\ DOMAIN c \subseteq Nat
  BY <1>1, <1>7
<1> HIDE DEF c
<1>9. \A i \in DOMAIN c : c[i].from \in Nat
  <2>1. \A i \in DOMAIN c : c[i] \in Heard
    BY <1>7
  <2> QED
    BY <2>1, ModelCallAssumption DEF Heard
<1>10. Ordered(c)
  <2> SUFFICES ASSUME NEW i \in DOMAIN c, NEW j \in DOMAIN c, i < j
               PROVE  c[i].from <= c[j].from
    BY DEF Ordered
  <2>1. CASE j \in DOMAIN preserved
    <3>1. i \in DOMAIN preserved
      BY <1>7, <1>8, <2>1
    <3> QED
      BY <1>1, <1>7, <2>1, <3>1 DEF Ordered
  <2>2. CASE j \notin DOMAIN preserved
    <3>1. c[j].from = Attempt
      BY <1>5, <1>7, <2>2
    <3>2. c[i].from <= Attempt
      BY <1>1, <1>5, <1>7, <1>9
    <3> QED
      BY <3>1, <3>2
  <2> QED
    BY <2>1, <2>2
<1>11. /\ p \in Seq(Heard)
       /\ Range(p) \subseteq Range(c)
       /\ \A i, j \in DOMAIN p : i < j => ~SameKey(p[i], p[j])
       /\ Ordered(p)
       /\ \A i \in DOMAIN c : Key(c[i]) # None =>
            \E j \in DOMAIN p : SameKey(p[j], c[i])
  BY <1>7, <1>10, DistinctKeeps
<1> HIDE DEF p
<1>12. \A i \in DOMAIN p : /\ p[i] \in whole /\ p[i].kind # "thinking"
                         /\ p[i].from <= Attempt
  <2>1. \A i \in DOMAIN p : \E j \in DOMAIN c : p[i] = c[j]
    BY <1>11 DEF Range
  <2>2. \A j \in DOMAIN c : c[j] \in whole /\ c[j].kind # "thinking"
    BY <1>1, <1>3, <1>5, <1>7
  <2> QED
    BY <1>1, <2>1, <2>2
<1>13. \A w \in whole : (w.kind # "thinking" /\ w.val # Blank)
         => \E i \in DOMAIN p : SameKey(p[i], w)
  <2> SUFFICES ASSUME NEW w \in whole, w.kind # "thinking" /\ w.val # Blank
               PROVE  \E i \in DOMAIN p : SameKey(p[i], w)
    OBVIOUS
  <2>1. Key(w) # None /\ w.from \in Nat
    <3>1. w \in Heard
      BY <1>1
    <3>2. w.from \in Nat
      BY <3>1, ModelCallAssumption DEF Heard
    <3> QED
      BY <3>1, <3>2, KeyOfBlock
  <2>2. \E i \in DOMAIN c : SameKey(c[i], w)
    <3>1. CASE w.from < Attempt
      BY <1>1, <1>7, <3>1 DEF Survives
    <3>2. CASE ~(w.from < Attempt)
      <4>1. w \in Finished
        BY <1>1, <2>1, <3>2 DEF Finished
      <4> QED
        BY <1>6, <1>7, <2>1, <4>1 DEF SameKey
    <3> QED
      BY <3>1, <3>2
  <2>3. PICK i \in DOMAIN c : SameKey(c[i], w)
    BY <2>2
  <2>4. PICK j \in DOMAIN p : SameKey(p[j], c[i])
    BY <1>11, <2>3 DEF SameKey
  <2> QED
    BY <2>3, <2>4 DEF SameKey
<1> QED
  BY <1>11, <1>12, <1>13 DEF p, c, r

LEMMA RecoverKeepsCall == CallInv /\ Recover => CallInv'
<1> SUFFICES ASSUME CallInv, Recover PROVE CallInv'
  OBVIOUS
<1> DEFINE p == Distinct(preserved \o Recoverable(Checked))
<1>1. /\ pc = "caught" /\ pc' = "ready" /\ latest' = TRUE /\ preserved' = p
      /\ tries' = [tries EXCEPT ![err] = @ + 1]
      /\ check' = None /\ err' = "none" /\ err \in Failures /\ tries[err] < Limit(err)
      /\ UNCHANGED <<stage, readVars, mode, waiting, fallback, aborted, leaked, resultVars, whole>>
  BY DEF Recover, CanRecover, Checked
<1>2. /\ p \in Seq(Heard)
      /\ \A i \in DOMAIN p : /\ p[i] \in whole /\ p[i].kind # "thinking"
                            /\ p[i].from <= Attempt
      /\ Ordered(p)
      /\ \A i, j \in DOMAIN p : i < j => ~SameKey(p[i], p[j])
      /\ \A w \in whole : (w.kind # "thinking" /\ w.val # Blank)
           => \E i \in DOMAIN p : SameKey(p[i], w)
  BY <1>1, RecoverCarries
<1> HIDE DEF p
<1>3. /\ TypeOK /\ stream = <<>> /\ outcome = "none"
      /\ \A w \in whole : w.from <= Attempt
  BY <1>1 DEF CallInv, StreamKnown, AnswerKnown, PreservedKnown, Running
<1>4. Attempt \in Nat /\ tries \in [Failures -> Nat] /\ \A f \in Failures : tries[f] <= Limit(f)
  <2>1. Attempt \in 1..(4 + StallLimit) /\ tries \in [Failures -> Nat]
    BY <1>3, AttemptInRange
  <2>2. \A f \in Failures : tries[f] <= Limit(f)
    BY <1>3 DEF TypeOK
  <2> QED
    BY <2>1, <2>2
<1>5. \A f \in Failures : tries'[f] = IF f = err THEN tries[f] + 1 ELSE tries[f]
  BY <1>1, <1>4
<1>6. Attempt' = Attempt + 1
  <2>1. /\ tries["stall"] \in Nat /\ tries["tool_input"] \in Nat
        /\ tries["thinking"] \in Nat /\ tries["response"] \in Nat
    BY <1>4 DEF Failures
  <2>2. /\ tries'["stall"] = IF err = "stall" THEN tries["stall"] + 1 ELSE tries["stall"]
        /\ tries'["tool_input"] = IF err = "tool_input" THEN tries["tool_input"] + 1
                                  ELSE tries["tool_input"]
        /\ tries'["thinking"] = IF err = "thinking" THEN tries["thinking"] + 1
                                ELSE tries["thinking"]
        /\ tries'["response"] = IF err = "response" THEN tries["response"] + 1
                                ELSE tries["response"]
    BY <1>5 DEF Failures
  <2> QED
    BY <1>1, <2>1, <2>2 DEF Attempt, Failures
<1>7. TypeOK'
  <2>1. tries' \in [Failures -> Nat]
    BY <1>1, <1>4
  <2>2. \A f \in Failures : tries'[f] <= Limit(f)
    <3>1. \A f \in Failures : Limit(f) \in Nat /\ tries[f] \in Nat
      BY <1>4, ModelCallAssumption DEF Limit
    <3> QED
      BY <1>1, <1>4, <1>5, <3>1
  <2> QED
    BY <1>1, <1>2, <1>3, <2>1, <2>2 DEF TypeOK, readVars, resultVars
<1>8. \A w \in whole : w.from \in Nat
  <2>1. \A w \in whole : w \in Heard
    BY <1>3 DEF TypeOK
  <2> QED
    BY <2>1, ModelCallAssumption DEF Heard
<1>9. PreservedKnown'
  <2>1. \A i \in DOMAIN p : p[i].from < Attempt'
    BY <1>2, <1>4, <1>6, <1>8
  <2>2. \A w \in whole : w.from <= Attempt'
    BY <1>3, <1>4, <1>6, <1>8
  <2>3. Survives(preserved)' /\ Ordered(preserved)'
    BY <1>1, <1>2 DEF Survives, Ordered
  <2> QED
    BY <1>1, <1>2, <2>1, <2>2, <2>3 DEF PreservedKnown
<1>10. StreamKnown'
  <2>1. DOMAIN stream' = {} /\ stream' = <<>>
    BY <1>1, <1>3, EmptySeq DEF readVars
  <2> QED
    BY <1>1, <2>1 DEF StreamKnown
<1>11. CheckKnown'
  <2>1. Finished' = {}
    BY <1>1, <1>3, <1>4, <1>6, <1>8 DEF Finished
  <2> QED
    BY <1>1, <2>1 DEF CheckKnown
<1>12. AnswerKnown'
  BY <1>1, <1>3 DEF AnswerKnown, MergedOnceInOrder, resultVars
<1> QED
  BY <1>7, <1>9, <1>10, <1>11, <1>12 DEF CallInv

LEMMA GiveUpKeepsCall == CallInv /\ GiveUp => CallInv'
<1> SUFFICES ASSUME CallInv, GiveUp PROVE CallInv'
  OBVIOUS
<1>1. pc = "caught" /\ pc' = "done"
      /\ UNCHANGED <<stage, budgetVars, attemptVars, mode, waiting, fallback, err,
                     aborted, leaked, answer, stop, whole>>
      /\ outcome' \in {"exhausted", err}
  BY DEF GiveUp
<1>2. TypeOK /\ stream = <<>> /\ outcome = "none"
  BY <1>1 DEF CallInv, StreamKnown, AnswerKnown
<1>3. TypeOK'
  BY <1>1, <1>2 DEF TypeOK, budgetVars, attemptVars, readVars
<1>4. StreamKnown'
  <2>1. stream' = <<>> /\ DOMAIN stream' = {}
    BY <1>1, <1>2, EmptySeq DEF attemptVars, readVars
  <2> QED
    BY <1>1, <2>1 DEF StreamKnown
<1>5. CheckKnown'
  BY <1>1 DEF CheckKnown, Running, Active
<1>6. PreservedKnown'
  BY <1>1, KeptPreserved DEF keptVars, budgetVars
<1>7. AnswerKnown'
  BY <1>1 DEF AnswerKnown, MergedOnceInOrder
<1> QED
  BY <1>3, <1>4, <1>5, <1>6, <1>7 DEF CallInv

-----------------------------------------------------------------------------
(* recoverInvalidResponse *)

(* The answer is settled: nothing of the call is looked at again.          *)
LEMMA SettledKeepsCall ==
  ASSUME CallInv, TypeOK', pc = "inspect", pc' = "done",
         UNCHANGED <<keptVars, stream>>
  PROVE  CallInv'
<1>1. stream' = <<>> /\ DOMAIN stream' = {}
  <2>1. stream = <<>>
    BY DEF CallInv, StreamKnown
  <2> QED
    BY <2>1, EmptySeq
<1>2. StreamKnown'
  BY <1>1 DEF StreamKnown
<1>3. CheckKnown'
  BY DEF CheckKnown, Running, Active
<1>4. PreservedKnown'
  BY KeptPreserved
<1>5. AnswerKnown'
  BY DEF AnswerKnown, MergedOnceInOrder
<1> QED
  BY <1>2, <1>3, <1>4, <1>5 DEF CallInv

LEMMA AskAgainKeepsCall == CallInv /\ AskAgain => CallInv'
<1> SUFFICES ASSUME CallInv, AskAgain PROVE CallInv'
  OBVIOUS
<1>1. /\ pc = "inspect" /\ pc' = "ready" /\ stage' = 2
      /\ tries' = NoTries /\ latest' = FALSE /\ preserved' = <<>>
      /\ answer' = <<>> /\ stop' = "end_turn" /\ whole' = {}
      /\ UNCHANGED <<inspectUnchanged, outcome>>
  BY DEF AskAgain
<1>2. TypeOK /\ stream = <<>> /\ check = None /\ outcome = "none"
  BY <1>1 DEF CallInv, StreamKnown, CheckKnown, AnswerKnown
<1>3. /\ preserved' \in Seq(Heard) /\ answer' \in Seq(Heard)
      /\ DOMAIN preserved' = {} /\ DOMAIN stream' = {} /\ stream' = <<>>
  BY <1>1, <1>2, EmptySeq DEF inspectUnchanged, attemptVars, readVars
<1>4. TypeOK'
  <2>1. NoTries \in [Failures -> Nat] /\ \A f \in Failures : NoTries[f] <= Limit(f)
    BY ModelCallAssumption DEF NoTries, Limit
  <2>2. tries' \in [Failures -> Nat] /\ \A f \in Failures : tries'[f] <= Limit(f)
    BY <1>1, <2>1
  <2>3. {latest', bytes', waiting', fallback', aborted', leaked'} \subseteq BOOLEAN
    BY <1>1, <1>2 DEF TypeOK, inspectUnchanged, attemptVars, readVars
  <2>4. UNCHANGED <<check, stream, body, mode, err, outcome>>
    BY <1>1 DEF inspectUnchanged, attemptVars, readVars
  <2>5. /\ check' = None \/ check' \in Seq(Heard)
        /\ stream' \in Seq([b : Heard, st : {"open", "whole", "malformed"}])
        /\ body' \in {"none", "sse", "json"} /\ mode' \in {"", "streaming", "buffered"}
        /\ err' \in Failures \cup {"none", "other"}
        /\ outcome' \in Failures \cup {"none", "answer", "promoted", "exhausted", "other"}
    BY <1>2, <2>4 DEF TypeOK
  <2>6. /\ pc' \in Active \cup {"ready", "starting", "caught", "inspect", "done", "crashed"}
        /\ stage' \in 1..2 /\ stop' \in Stops /\ whole' \subseteq Heard
    BY <1>1 DEF Stops
  <2> QED
    BY <1>3, <2>2, <2>3, <2>5, <2>6 DEF TypeOK
<1>5. StreamKnown'
  BY <1>1, <1>3 DEF StreamKnown
<1>6. CheckKnown'
  BY <1>1, <1>2 DEF CheckKnown, Finished, inspectUnchanged, attemptVars
<1>7. PreservedKnown'
  BY <1>1, <1>3 DEF PreservedKnown, Ordered, Survives
<1>8. AnswerKnown'
  BY <1>1, <1>2 DEF AnswerKnown, MergedOnceInOrder
<1> QED
  BY <1>4, <1>5, <1>6, <1>7, <1>8 DEF CallInv

LEMMA InspectingKeepsCall == CallInv /\ Inspecting => CallInv'
<1> SUFFICES ASSUME CallInv, Inspecting PROVE CallInv'
  OBVIOUS
<1>1. TypeOK
  BY DEF CallInv
<1>2. CASE Deliver \/ RejectAgain
  <2>1. /\ pc = "inspect" /\ pc' = "done" /\ outcome' \in {"answer", "exhausted"}
        /\ UNCHANGED <<stage, budgetVars, inspectUnchanged, answer, stop, whole>>
    BY <1>2 DEF Deliver, RejectAgain
  <2>2. outcome = "none"
    BY <2>1 DEF CallInv, AnswerKnown
  <2>3. TypeOK'
    BY <1>1, <2>1, <2>2 DEF TypeOK, inspectUnchanged, attemptVars, readVars, budgetVars
  <2> QED
    BY <2>1, <2>3, SettledKeepsCall DEF inspectUnchanged, attemptVars, readVars,
       budgetVars, keptVars
<1>3. CASE Promote
  <2>1. /\ pc = "inspect" /\ pc' = "done" /\ outcome' = "promoted"
        /\ UNCHANGED <<stage, budgetVars, inspectUnchanged, stop, whole>>
    BY <1>3 DEF Promote
  <2>2. TypeOK'
    BY <1>1, <2>1 DEF TypeOK, inspectUnchanged, attemptVars, readVars, budgetVars
  <2> QED
    BY <2>1, <2>2, SettledKeepsCall DEF inspectUnchanged, attemptVars, readVars,
       budgetVars, keptVars
<1> QED
  BY <1>2, <1>3, AskAgainKeepsCall DEF Inspecting

-----------------------------------------------------------------------------
(* The results *)

LEMMA CallKeeps == CallInv /\ [Next]_vars => CallInv'
<1> SUFFICES ASSUME CallInv, [Next]_vars PROVE CallInv'
  OBVIOUS
<1>1. CASE UNCHANGED vars
  <2>1. UNCHANGED <<keptVars, pc, check, stream, answer, outcome>>
    BY <1>1 DEF vars, keptVars, budgetVars, attemptVars, readVars, resultVars
  <2>2. TypeOK'
    BY <1>1 DEF CallInv, TypeOK, vars, budgetVars, attemptVars, readVars, resultVars
  <2> QED
    BY <2>1, <2>2, IdleKeepsCall
<1>2. CASE Next
  BY <1>2, BeginKeepsCall, StartingKeepsCall, UpstreamKeepsCall, ReadingKeepsCall, DeadlinesKeepCall,
     RecoverKeepsCall, GiveUpKeepsCall, InspectingKeepsCall DEF Next, Catching
<1> QED
  BY <1>1, <1>2

LEMMA CallInvariant == Spec => []CallInv
<1> QED
  BY CallStarts, CallKeeps, PTL DEF Spec

(* Nothing half done is delivered, and nothing done is lost: every block   *)
(* that is preserved or merged was finished by an attempt, and what an     *)
(* earlier attempt finished is still there, under its key                  *)
(* (containedUpstream, mergeManagedStallRecoveryResponse).                 *)
THEOREM WholeBlocksAreKept == Spec => []BlocksKept
<1>1. CallInv => BlocksKept
  <2> SUFFICES ASSUME CallInv PROVE BlocksKept
    OBVIOUS
  <2>1. TypeOK /\ Range(preserved) \subseteq whole
    BY DEF CallInv, PreservedKnown, Range
  <2>2. CompletedSurvives
    BY DEF CallInv, PreservedKnown, AnswerKnown, CompletedSurvives, Running
  <2>3. WholeBlocksOnly
    BY <2>1 DEF CallInv, AnswerKnown, WholeBlocksOnly
  <2> QED
    BY <2>1, <2>2, <2>3 DEF BlocksKept
<1> QED
  BY <1>1, CallInvariant, PTL

(* No block is merged in twice, the blocks of the answer stand in the      *)
(* order of the attempts, and no thinking stands beside an earlier block   *)
(* (mergeRecoveryBlocks).                                                  *)
THEOREM MergeIsOnceInOrder == Spec => []MergedOnceInOrder
<1>1. CallInv => MergedOnceInOrder
  BY DEF CallInv, AnswerKnown
<1> QED
  BY <1>1, CallInvariant, PTL

(* While the round is shown and while the model runs the client is there:  *)
(* the signal is looked at before, and its listener ends both.             *)
AttemptsAreHeard == pc \in Active \cup {"starting"} => ~aborted

LEMMA AbortIsSeen == AttemptsAreHeard /\ [Next]_vars => AttemptsAreHeard'
<1> SUFFICES ASSUME AttemptsAreHeard, [Next]_vars PROVE AttemptsAreHeard'
  OBVIOUS
<1> USE DEF AttemptsAreHeard, Active
<1>1. CASE UNCHANGED vars
  BY <1>1 DEF vars
<1>2. CASE Begin \/ Starting
  BY <1>2 DEF Begin, Starting, Started, StartFails, Throw
<1>3. CASE Upstream
  BY <1>3 DEF Upstream, Busy, RetryBusy, Unavailable, Rejected, RejectsImages, Adapted,
     AdaptFails, Accept, Throw
<1>4. CASE Reading
  BY <1>4 DEF Reading, FirstByte, BlockStart, BlockStop, LoopDetected, StreamEnds,
     BodyFails, JsonAnswer, ReadingSse, Receive, Throw, readUnchanged
<1>5. CASE Deadlines
  BY <1>5 DEF Deadlines, Stall, HardDeadline, TaskTimeout, Abort, Throw, Unhandled
<1>6. CASE Catching \/ Inspecting
  BY <1>6 DEF Catching, Recover, GiveUp, Inspecting, Deliver, Promote, AskAgain,
     RejectAgain
<1> QED
  BY <1>1, <1>2, <1>3, <1>4, <1>5, <1>6 DEF Next

(* Nothing but a recovery takes from a budget, and no recovery begins once *)
(* the client is gone.                                                     *)
LEMMA BudgetsRest ==
  ASSUME TypeOK, [Next]_vars, aborted
  PROVE  aborted' /\ \A f \in Failures : tries'[f] <= tries[f]
<1>1. \A f \in Failures : tries[f] \in Nat
  BY DEF TypeOK
<1> DEFINE rests == aborted' /\ tries' = tries
<1>0. rests => aborted' /\ \A f \in Failures : tries'[f] <= tries[f]
  BY <1>1
<1>2. CASE UNCHANGED vars
  <2>1. rests
    BY <1>2 DEF vars, budgetVars
  <2> QED
    BY <1>0, <2>1
<1>3. CASE Begin \/ Starting
  <2>1. rests
    BY <1>3 DEF Begin, Starting, Started, StartFails, budgetVars
  <2> QED
    BY <1>0, <2>1
<1>4. CASE Upstream
  <2>1. rests
    BY <1>4 DEF Upstream, Busy, RetryBusy, Unavailable, Rejected, RejectsImages,
       Adapted, AdaptFails, Accept, budgetVars
  <2> QED
    BY <1>0, <2>1
<1>5. CASE Reading
  <2>1. rests
    BY <1>5 DEF Reading, FirstByte, BlockStart, BlockStop, LoopDetected, StreamEnds,
       BodyFails, JsonAnswer, readUnchanged, budgetVars
  <2> QED
    BY <1>0, <2>1
<1>6. CASE Deadlines
  <2>1. rests
    BY <1>6 DEF Deadlines, Stall, HardDeadline, TaskTimeout, Abort, timerUnchanged,
       budgetVars
  <2> QED
    BY <1>0, <2>1
<1>7. CASE AskAgain
  BY <1>1, <1>7 DEF AskAgain, NoTries, inspectUnchanged
<1>8. CASE Catching \/ Deliver \/ Promote \/ RejectAgain
  <2>1. rests
    BY <1>8 DEF Catching, Recover, CanRecover, GiveUp, Deliver, Promote, RejectAgain,
       inspectUnchanged, budgetVars
  <2> QED
    BY <1>0, <2>1
<1> QED
  BY <1>2, <1>3, <1>4, <1>5, <1>6, <1>7, <1>8 DEF Next, Inspecting

(* Once the client is gone the model is not asked and no recovery is spent *)
(* (runModelWithActivityDeadline, containedUpstream), also when it leaves  *)
(* while the round is being shown.                                         *)
THEOREM AbortEndsAttempts == Spec => AbortStopsAttempts
<1>1. Init => AttemptsAreHeard
  BY DEF Init, AttemptsAreHeard
<1>2. AttemptsAreHeard /\ TypeOK /\ [Next]_vars
        => [aborted => /\ pc' \notin Active
                       /\ \A f \in Failures : tries'[f] <= tries[f]]_vars
  <2> SUFFICES ASSUME AttemptsAreHeard, TypeOK, [Next]_vars, aborted
               PROVE  /\ pc' \notin Active
                      /\ \A f \in Failures : tries'[f] <= tries[f]
    OBVIOUS
  <2>1. AttemptsAreHeard' /\ aborted'
    BY AbortIsSeen, BudgetsRest
  <2> QED
    BY <2>1, BudgetsRest DEF AttemptsAreHeard
<1>3. CallInv => TypeOK
  BY DEF CallInv
<1> QED
  BY <1>1, <1>2, <1>3, AbortIsSeen, CallInvariant, PTL DEF Spec, AbortStopsAttempts
=============================================================================
