---------------------------- MODULE Gateway_proofs ----------------------------
(***************************************************************************)
(* The request listener keeps its safety properties because what is held   *)
(* and what was written is known at each place the handler can be; the     *)
(* language gate delivers an answer of any length whole, because the       *)
(* segment list names each text block once and in its place. The           *)
(* semaphore's part of the invariant is that of Semaphore_proofs.          *)
(***************************************************************************)
EXTENDS MCGateway, Semaphore_proofs, Subsequence_proofs

-----------------------------------------------------------------------------
(* The language gate.  A segment is known by its rank among the text       *)
(* blocks, the blank ones left out: the segment list names each text block *)
(* once, in their order, so that the merge puts every rewriting back where *)
(* its source was.                                                         *)
TextBlocks == {i \in 1..Len(answer) : answer[i] = "text"}

(* What the current attempt has rewritten so far. *)
Segments(n) == [k \in 1..n |-> <<backend, attempt, k>>]

GateInv ==
  /\ answer \in Seq(G!Kinds)
  /\ stage \in {"judge", "rewrite", "done"}
  /\ stage # "done" => delivered = [i \in 1..Len(answer) |-> G!Original]
  /\ stage = "rewrite" =>
       /\ backend \in {"external", "base"} /\ attempt \in 1..2
       /\ \E n \in 0..Cardinality(TextBlocks) : rewritten = Segments(n)
  /\ G!DeliveredWhole

(* The instance has the sets' operators of its own module. *)
LEMMA SameCardinality ==
  ASSUME NEW S
  PROVE  G!Cardinality(S) = Cardinality(S)
  BY DEF G!Cardinality, Cardinality, G!IsFiniteSet, IsFiniteSet

(* The segments are the text blocks: the k-th is the block of rank k. *)
LEMMA EntriesAreTextBlocks ==
  ASSUME answer \in Seq(G!Kinds)
  PROVE  /\ Cardinality(TextBlocks) \in Nat
         /\ Len(G!Entries) = Cardinality(TextBlocks)
         /\ \A k \in 1..Len(G!Entries) :
              G!Entries[k] \in TextBlocks /\ RankIn(TextBlocks, G!Entries[k]) = k
         /\ \A i \in TextBlocks :
              /\ RankIn(TextBlocks, i) \in 1..Len(G!Entries)
              /\ G!Entries[RankIn(TextBlocks, i)] = i
<1> DEFINE n == Len(answer)
           I == TextBlocks
           s == [i \in 1..n |-> i]
<1>1. n \in Nat /\ I \in SUBSET (1..n)
  BY DEF TextBlocks
<1>2. {i \in DOMAIN s : answer[s[i]] = "text"} = I
  BY DEF TextBlocks
<1>3. \A i : G!RankIn(I, i) = RankIn(I, i)
  BY SameCardinality DEF G!RankIn, RankIn
<1>4. G!Entries = [m \in 1..Cardinality(I) |-> s[CHOOSE i \in I : G!RankIn(I, i) = m]]
  <2>1. G!Entries = G!Subsequence(s, I)
    BY <1>2 DEF G!Entries, G!Select
  <2>2. G!Cardinality(I) = Cardinality(I)
    BY SameCardinality
  <2> HIDE DEF s, I
  <2> QED
    BY <2>1, <2>2 DEF G!Subsequence
<1>5. Cardinality(I) \in Nat
  BY <1>1, IndicesFinite
<1>6. Len(G!Entries) = Cardinality(I)
  BY <1>4, <1>5
<1>7. ASSUME NEW k \in 1..Cardinality(I)
      PROVE  G!Entries[k] \in I /\ RankIn(I, G!Entries[k]) = k
  <2>0. \E i \in I : RankIn(I, i) = k
    BY <1>1, RankIsOnto
  <2>1. \E i \in I : G!RankIn(I, i) = k
    BY <2>0, <1>3
  <2>2. PICK c : c = (CHOOSE i \in I : G!RankIn(I, i) = k)
    OBVIOUS
  <2>3. c \in I /\ RankIn(I, c) = k
    BY <2>1, <2>2, <1>3
  <2>4. G!Entries[k] = s[c] /\ s[c] = c
    BY <1>1, <1>4, <2>2, <2>3
  <2> QED
    BY <2>3, <2>4
<1>8. ASSUME NEW i \in I
      PROVE  RankIn(I, i) \in 1..Cardinality(I) /\ G!Entries[RankIn(I, i)] = i
  <2>1. RankIn(I, i) \in 1..Cardinality(I)
    BY <1>1, RankInRange
  <2>2. /\ G!Entries[RankIn(I, i)] \in I
        /\ RankIn(I, G!Entries[RankIn(I, i)]) = RankIn(I, i)
    BY <2>1, <1>7
  <2> QED
    BY <1>1, <2>1, <2>2, RankInjective
<1> QED
  BY <1>5, <1>6, <1>7, <1>8

(* A whole rewriting merges into a whole answer. *)
LEMMA MergeIsWhole ==
  ASSUME answer \in Seq(G!Kinds), rewritten = Segments(Len(G!Entries)),
         NEW i \in 1..Len(answer)
  PROVE  G!Merge[i] = IF answer[i] = "text"
                        THEN <<backend, attempt, RankIn(TextBlocks, i)>> ELSE G!Original
<1>1. CASE answer[i] = "text"
  <2> DEFINE c == CHOOSE k \in 1..Len(G!Entries) : G!Entries[k] = i
             r == RankIn(TextBlocks, i)
  <2>1. i \in TextBlocks
    BY <1>1 DEF TextBlocks
  <2>2. r \in 1..Len(G!Entries) /\ G!Entries[r] = i
    BY <2>1, EntriesAreTextBlocks
  <2>3. c \in 1..Len(G!Entries) /\ G!Entries[c] = i
    BY <2>2
  <2>4. c = r
    <3> HIDE DEF c
    <3> QED
      BY <2>3, EntriesAreTextBlocks
  <2>5. G!Merge[i] = rewritten[c]
    BY <1>1 DEF G!Merge
  <2>6. Segments(Len(G!Entries))[r] = <<backend, attempt, r>>
    BY <2>2 DEF Segments
  <2> QED
    BY <1>1, <2>4, <2>5, <2>6
<1>2. CASE answer[i] # "text"
  BY <1>2 DEF G!Merge
<1> QED
  BY <1>1, <1>2

LEMMA GateInit == G!Init => GateInv
<1> SUFFICES ASSUME G!Init PROVE GateInv
  OBVIOUS
<1>1. PICK n \in 1..Blocks : answer \in [1..n -> G!Kinds]
  BY DEF G!Init
<1>2. answer \in Seq(G!Kinds)
  BY <1>1
<1>3. G!DeliveredWhole
  BY DEF G!Init, G!DeliveredWhole
<1> QED
  BY <1>2, <1>3 DEF G!Init, GateInv

(* A new attempt has rewritten nothing; what gives up delivers the answer. *)
LEMMA AttemptKeeps ==
  ASSUME GateInv, stage # "done", NEW b \in {"external", "base"}, NEW a \in 1..2,
         G!Attempt(b, a)
  PROVE  GateInv'
<1>1. /\ answer' = answer /\ delivered' = delivered /\ stage' = "rewrite"
      /\ backend' = b /\ attempt' = a /\ rewritten' = <<>>
  BY DEF G!Attempt
<1>2. Segments(0)' = <<>> /\ 0 \in 0..Cardinality(TextBlocks)
  BY EntriesAreTextBlocks DEF Segments, GateInv
<1>3. TextBlocks' = TextBlocks
  BY <1>1 DEF TextBlocks
<1>4. G!DeliveredWhole'
  BY <1>1 DEF G!DeliveredWhole, GateInv
<1>5. \E n \in 0..Cardinality(TextBlocks)' : rewritten' = Segments(n)'
  BY <1>1, <1>2, <1>3
<1> QED
  BY <1>1, <1>4, <1>5 DEF GateInv

LEMMA DeliverKeeps ==
  ASSUME GateInv, NEW d, G!Deliver(d),
         (d = delivered /\ stage # "done") \/ G!DeliveredWhole'
  PROVE  GateInv'
<1>1. answer' = answer /\ stage' = "done" /\ delivered' = d
  BY DEF G!Deliver
<1>2. CASE d = delivered /\ stage # "done"
  <2>1. G!DeliveredWhole'
    BY <1>1, <1>2 DEF GateInv, G!DeliveredWhole
  <2> QED
    BY <1>1, <2>1 DEF GateInv
<1>3. CASE G!DeliveredWhole'
  BY <1>1, <1>3 DEF GateInv
<1> QED
  BY <1>2, <1>3

LEMMA GateStepKeeps == GateInv /\ [G!Next]_(G!vars) => GateInv'
<1> SUFFICES ASSUME GateInv, [G!Next]_(G!vars) PROVE GateInv'
  OBVIOUS
<1>0. /\ answer \in Seq(G!Kinds) /\ Len(answer) \in Nat
      /\ Cardinality(TextBlocks) \in Nat /\ Len(G!Entries) = Cardinality(TextBlocks)
  BY EntriesAreTextBlocks DEF GateInv
<1>1. CASE G!Judge
  <2>1. ASSUME G!Deliver(delivered) PROVE GateInv'
    BY <1>1, <2>1, DeliverKeeps DEF G!Judge
  <2>2. ASSUME NEW b \in {"external", "base"}, G!Attempt(b, 1) PROVE GateInv'
    BY <1>1, <2>2, AttemptKeeps DEF G!Judge
  <2> QED
    BY <1>1, <2>1, <2>2 DEF G!Judge
<1>2. CASE G!Segment
  <2>0. /\ stage = "rewrite" /\ backend \in {"external", "base"} /\ attempt \in 1..2
        /\ Len(rewritten) < Len(G!Entries)
        /\ UNCHANGED <<answer, delivered>>
    BY <1>2 DEF G!Segment, GateInv
  <2>1. CASE /\ rewritten' = Append(rewritten, <<backend, attempt, Len(rewritten) + 1>>)
             /\ UNCHANGED <<detected, stage, backend, attempt>>
    <3>1. PICK n \in 0..Cardinality(TextBlocks) : rewritten = Segments(n)
      BY <2>0 DEF GateInv
    <3>2. Len(rewritten) = n /\ n + 1 \in 0..Cardinality(TextBlocks)
      BY <1>0, <2>0, <3>1 DEF Segments
    <3>3. Append(Segments(n), <<backend, attempt, n + 1>>) = Segments(n + 1)
      BY <3>2 DEF Segments
    <3>4. Segments(n + 1)' = Segments(n + 1) /\ TextBlocks' = TextBlocks
      BY <2>0, <2>1 DEF Segments, TextBlocks
    <3>5. rewritten' = Segments(n + 1)'
      BY <2>1, <3>1, <3>2, <3>3, <3>4
    <3>6. \E m \in 0..Cardinality(TextBlocks)' : rewritten' = Segments(m)'
      BY <3>2, <3>4, <3>5
    <3>7. G!DeliveredWhole'
      BY <2>0 DEF G!DeliveredWhole, GateInv
    <3> QED
      BY <2>0, <2>1, <3>6, <3>7 DEF GateInv
  <2>2. CASE G!Attempt("base", 1)
    BY <2>0, <2>2, AttemptKeeps
  <2>3. CASE G!Deliver(delivered)
    BY <2>0, <2>3, DeliverKeeps
  <2> QED
    BY <1>2, <2>1, <2>2, <2>3 DEF G!Segment, G!Attempt, G!Deliver
<1>3. CASE G!Accept
  <2>0. /\ stage = "rewrite" /\ Len(rewritten) = Len(G!Entries)
        /\ backend \in {"external", "base"} /\ attempt \in 1..2
        /\ G!Deliver(G!Merge)
    BY <1>3 DEF G!Accept, G!Rewritten, GateInv
  <2>1. rewritten = Segments(Len(G!Entries))
    <3>1. PICK n \in 0..Cardinality(TextBlocks) : rewritten = Segments(n)
      BY <2>0 DEF GateInv
    <3>2. Len(rewritten) = n
      BY <1>0, <3>1 DEF Segments
    <3> QED
      BY <2>0, <3>1, <3>2
  <2>2. answer' = answer /\ delivered' = G!Merge
    BY <2>0 DEF G!Deliver
  <2>3. DOMAIN delivered' = 1..Len(answer)
    BY <2>2 DEF G!Merge
  <2>4. ASSUME NEW i \in 1..Len(answer)
        PROVE  delivered'[i] =
                 IF answer[i] = "text"
                   THEN <<backend, attempt, Cardinality({j \in 1..i : answer[j] = "text"})>>
                   ELSE G!Original
    <3>1. {j \in 1..i : answer[j] = "text"} = {j \in TextBlocks : j <= i}
      BY <1>0 DEF TextBlocks
    <3> QED
      BY <1>0, <2>1, <2>2, <3>1, MergeIsWhole DEF RankIn
  <2>5. ASSUME NEW i \in DOMAIN delivered'
        PROVE  delivered'[i] =
                 IF answer'[i] = "text"
                   THEN <<backend, attempt, G!Cardinality({j \in 1..i : answer'[j] = "text"})>>
                   ELSE G!Original
    BY <2>2, <2>3, <2>4, SameCardinality
  <2>6. \E b \in {"external", "base"}, a \in 1..2 : \A i \in DOMAIN delivered' :
          delivered'[i] =
            IF answer'[i] = "text"
              THEN <<b, a, G!Cardinality({j \in 1..i : answer'[j] = "text"})>>
              ELSE G!Original
    BY <2>0, <2>5
  <2>7. G!DeliveredWhole'
    BY <2>6 DEF G!DeliveredWhole
  <2> QED
    BY <2>0, <2>7, DeliverKeeps
<1>4. CASE G!Reject
  <2>0. stage = "rewrite" /\ backend \in {"external", "base"} /\ attempt \in 1..2
    BY <1>4 DEF G!Reject, G!Rewritten, GateInv
  <2>1. \/ G!Attempt(backend, 2)
        \/ G!Attempt("base", 1)
        \/ G!Deliver(delivered)
    BY <1>4 DEF G!Reject, G!GiveUp
  <2> QED
    BY <2>0, <2>1, AttemptKeeps, DeliverKeeps
<1>5. CASE UNCHANGED G!vars
  <2>1. UNCHANGED <<answer, stage, backend, attempt, rewritten, delivered>>
    BY <1>5 DEF G!vars
  <2>2. G!DeliveredWhole' = G!DeliveredWhole
    BY <2>1 DEF G!DeliveredWhole
  <2>3. TextBlocks' = TextBlocks /\ \A n : Segments(n)' = Segments(n)
    BY <2>1 DEF TextBlocks, Segments
  <2> QED
    BY <2>1, <2>2, <2>3 DEF GateInv
<1> QED
  BY <1>1, <1>2, <1>3, <1>4, <1>5 DEF G!Next

(* What is delivered is the answer or one whole rewriting of it, each text *)
(* in the place of its source, whatever the number of blocks and however   *)
(* the attempts fail (applyFinalLanguageGate, the merge by segment).       *)
THEOREM WholeIsDelivered == G!Spec => []DeliveredWhole
<1>1. GateInv => DeliveredWhole
  BY DEF GateInv, DeliveredWhole
<1> QED
  BY GateInit, GateStepKeeps, <1>1, PTL DEF G!Spec
-----------------------------------------------------------------------------
(* The request listener.  Where the files and the assets of the media may  *)
(* still be held, where the response may have a head already, and what the *)
(* end of a handler leaves behind.                                         *)
Analysing == {"lookup", "cached", "early", "transform", "plan", "perceive", "probe", "clean"}
Ending == {"catch", "finally", "cleanup", "returned"}
Piping == {"piping", "draining", "forwarded", "stuck"}

(* The handler holds what belongs to the place it has come to. *)
HeldWhere ==
  /\ at \notin Analysing \cup Ending => "media" \notin held /\ "assets" \notin held
  /\ "assets" \in held => req.media = "directed"
  /\ at = "cached" => req.media = "cached"
  /\ at = "cleanup" => held \subseteq {"media"}
  /\ at \in {"idle", "returned"} => held = {}

(* The base model's refusal is followed by the adapted messages, or ends   *)
(* the request.                                                            *)
Refusal == refused /\ native => at \in {"adapt"} \cup Ending

(* Before the stream opens there is no head, and a request without one has *)
(* none until its answer, a forward of raw bytes or the end.  A count has   *)
(* one before its answer only when its media opened the stream.            *)
HeadWhere ==
  /\ at \in {"idle", "route", "traced", "begin", "enrich", "child", "count", "compact",
             "managed", "prepare", "lookup", "cached", "early", "open"} => head = "none"
  /\ ~req.stream /\ at \notin Piping \cup Ending => head = "none"
  /\ progress = "none" /\ at \in {"transform", "plan", "perceive", "probe", "clean", "preflight"}
       => head = "none"
  /\ at \in {"count", "count_answer"} => req.kind = "count"
  /\ at = "early" => req.stream
  /\ at \in {"managed", "prepare", "lookup", "cached"} /\ req.kind = "count" => req.media # "none"
  /\ at \in {"early", "transform", "plan", "perceive", "probe", "clean", "preflight"}
       /\ req.kind = "count" => req.media \in {"fresh", "native", "directed"}
  /\ at = "count_answer" /\ head # "none" => H!StreamedCount
  /\ clash => H!StreamedCount

(* Whoever has neither left nor rejected has been answered at the end, and *)
(* only a client that left has raised the signal.                          *)
Answered ==
  /\ signal => left
  /\ at = "forwarded" => verdict # "none"
  /\ at \in {"finally", "cleanup", "returned"} /\ ~left /\ ~escaped => verdict # "none"

HandlerInv == H!TypeOK /\ HeldWhere /\ Refusal /\ HeadWhere /\ Answered

(* What the steps need to know of a request and of the flags. *)
LEMMA RequestTypes ==
  ASSUME HandlerInv
  PROVE  /\ req.loop => req.kind = "messages"
         /\ req.media \in {"none", "cached", "fresh", "native", "directed"}
         /\ {req.stream, left, signal, native, refused, clash, escaped} \subseteq BOOLEAN
<1>1. req \in H!Requests /\ {left, signal, native, refused, clash, escaped} \subseteq BOOLEAN
  BY DEF HandlerInv, H!TypeOK
<1>2. /\ req.loop => req.kind = "messages"
      /\ req.media \in {"none", "cached", "fresh", "native", "directed"}
      /\ req.stream \in BOOLEAN
  BY <1>1 DEF H!Requests
<1> QED
  BY <1>1, <1>2

LEMMA HandlerInit == H!Init => HandlerInv
<1> SUFFICES ASSUME H!Init PROVE HandlerInv
  OBVIOUS
<1> QED
  BY DEF H!Init, HandlerInv, H!TypeOK, HeldWhere, Refusal, HeadWhere, Answered,
         Analysing, Ending, Piping, H!Resources, H!StreamedCount

(* Authentication, the local routes and the OpenAI client. *)
LEMMA RoutesKeep ==
  ASSUME HandlerInv,
            H!Receive \/ H!Local \/ H!Tokenize \/ H!ChatOpens \/ H!ChatEnds
         \/ H!ChatFails
  PROVE  HandlerInv'
<1> USE DEF H!Go, H!Hold, H!Drop, H!Throw, H!SendJson, H!OpenProgress, H!WriteFails,
  H!Answer, H!Await, H!response, H!client, H!vision, H!same
<1>0. /\ req.loop => req.kind = "messages"
      /\ req.media \in {"none", "cached", "fresh", "native", "directed"}
      /\ {req.stream, left, signal, native, refused, clash, escaped} \subseteq BOOLEAN
  BY RequestTypes
<1>1. CASE H!Receive
  <2>1. H!TypeOK'
    BY <1>1 DEF H!Receive, HandlerInv, H!TypeOK, H!Resources
  <2>2. HeldWhere'
    BY <1>1 DEF H!Receive, HandlerInv, HeldWhere, Analysing, Ending
  <2>3. Refusal' /\ Answered'
    BY <1>0, <1>1 DEF H!Receive, HandlerInv, Refusal, Answered, Ending
  <2>4. HeadWhere'
    BY <1>0, <1>1 DEF H!Receive, HandlerInv, HeadWhere, Piping, Ending, H!StreamedCount
  <2> QED
    BY <2>1, <2>2, <2>3, <2>4 DEF HandlerInv
<1>2. CASE H!Local
  <2>1. H!TypeOK'
    BY <1>2 DEF H!Local, HandlerInv, H!TypeOK, H!Resources
  <2>2. HeldWhere'
    BY <1>2 DEF H!Local, HandlerInv, HeldWhere, Analysing, Ending
  <2>3. Refusal' /\ Answered'
    BY <1>0, <1>2 DEF H!Local, HandlerInv, Refusal, Answered, Ending
  <2>4. HeadWhere'
    BY <1>0, <1>2 DEF H!Local, HandlerInv, HeadWhere, Piping, Ending, H!StreamedCount
  <2> QED
    BY <2>1, <2>2, <2>3, <2>4 DEF HandlerInv
<1>3. CASE H!Tokenize
  <2>1. H!TypeOK'
    BY <1>3 DEF H!Tokenize, HandlerInv, H!TypeOK, H!Resources
  <2>2. HeldWhere'
    BY <1>3 DEF H!Tokenize, HandlerInv, HeldWhere, Analysing, Ending
  <2>3. Refusal' /\ Answered'
    BY <1>0, <1>3 DEF H!Tokenize, HandlerInv, Refusal, Answered, Ending
  <2>4. HeadWhere'
    BY <1>0, <1>3 DEF H!Tokenize, HandlerInv, HeadWhere, Piping, Ending, H!StreamedCount
  <2> QED
    BY <2>1, <2>2, <2>3, <2>4 DEF HandlerInv
<1>4. CASE H!ChatOpens
  <2>1. H!TypeOK'
    BY <1>4 DEF H!ChatOpens, HandlerInv, H!TypeOK, H!Resources
  <2>2. HeldWhere'
    BY <1>4 DEF H!ChatOpens, HandlerInv, HeldWhere, Analysing, Ending
  <2>3. Refusal' /\ Answered'
    BY <1>0, <1>4 DEF H!ChatOpens, HandlerInv, Refusal, Answered, Ending
  <2>4. HeadWhere'
    BY <1>0, <1>4 DEF H!ChatOpens, HandlerInv, HeadWhere, Piping, Ending, H!StreamedCount
  <2> QED
    BY <2>1, <2>2, <2>3, <2>4 DEF HandlerInv
<1>5. CASE H!ChatEnds
  <2>1. H!TypeOK'
    BY <1>5 DEF H!ChatEnds, HandlerInv, H!TypeOK, H!Resources
  <2>2. HeldWhere'
    BY <1>5 DEF H!ChatEnds, HandlerInv, HeldWhere, Analysing, Ending
  <2>3. Refusal' /\ Answered'
    BY <1>0, <1>5 DEF H!ChatEnds, HandlerInv, Refusal, Answered, Ending
  <2>4. HeadWhere'
    BY <1>0, <1>5 DEF H!ChatEnds, HandlerInv, HeadWhere, Piping, Ending, H!StreamedCount
  <2> QED
    BY <2>1, <2>2, <2>3, <2>4 DEF HandlerInv
<1>6. CASE H!ChatFails
  <2>1. H!TypeOK'
    BY <1>6 DEF H!ChatFails, HandlerInv, H!TypeOK, H!Resources
  <2>2. HeldWhere'
    BY <1>6 DEF H!ChatFails, HandlerInv, HeldWhere, Analysing, Ending
  <2>3. Refusal' /\ Answered'
    BY <1>0, <1>6 DEF H!ChatFails, HandlerInv, Refusal, Answered, Ending
  <2>4. HeadWhere'
    BY <1>0, <1>6 DEF H!ChatFails, HandlerInv, HeadWhere, Piping, Ending, H!StreamedCount
  <2> QED
    BY <2>1, <2>2, <2>3, <2>4 DEF HandlerInv
<1> QED
  BY <1>1, <1>2, <1>3, <1>4, <1>5, <1>6

(* The body and what is forwarded as it is. *)
LEMMA ForwardsKeep ==
  ASSUME HandlerInv,
            H!ReadBody \/ H!Traced \/ H!Forward \/ H!ForwardHead
         \/ H!ForwardEnds \/ H!ForwardFails \/ H!ForwardFinish \/ H!Forwarded
  PROVE  HandlerInv'
<1> USE DEF H!Go, H!Hold, H!Drop, H!Throw, H!SendJson, H!OpenProgress, H!WriteFails,
  H!Answer, H!Await, H!response, H!client, H!vision, H!same
<1>0. /\ req.loop => req.kind = "messages"
      /\ req.media \in {"none", "cached", "fresh", "native", "directed"}
      /\ {req.stream, left, signal, native, refused, clash, escaped} \subseteq BOOLEAN
  BY RequestTypes
<1>1. CASE H!ReadBody
  <2>1. H!TypeOK'
    BY <1>1 DEF H!ReadBody, HandlerInv, H!TypeOK, H!Resources
  <2>2. HeldWhere'
    BY <1>1 DEF H!ReadBody, HandlerInv, HeldWhere, Analysing, Ending
  <2>3. Refusal' /\ Answered'
    BY <1>0, <1>1 DEF H!ReadBody, HandlerInv, Refusal, Answered, Ending
  <2>4. HeadWhere'
    BY <1>0, <1>1 DEF H!ReadBody, HandlerInv, HeadWhere, Piping, Ending, H!StreamedCount
  <2> QED
    BY <2>1, <2>2, <2>3, <2>4 DEF HandlerInv
<1>2. CASE H!Traced
  <2>1. H!TypeOK'
    BY <1>2 DEF H!Traced, HandlerInv, H!TypeOK, H!Resources
  <2>2. HeldWhere'
    BY <1>2 DEF H!Traced, HandlerInv, HeldWhere, Analysing, Ending
  <2>3. Refusal' /\ Answered'
    BY <1>0, <1>2 DEF H!Traced, HandlerInv, Refusal, Answered, Ending
  <2>4. HeadWhere'
    BY <1>0, <1>2 DEF H!Traced, HandlerInv, HeadWhere, Piping, Ending, H!StreamedCount
  <2> QED
    BY <2>1, <2>2, <2>3, <2>4 DEF HandlerInv
<1>3. CASE H!Forward
  <2>1. H!TypeOK'
    BY <1>3 DEF H!Forward, HandlerInv, H!TypeOK, H!Resources
  <2>2. HeldWhere'
    BY <1>3 DEF H!Forward, HandlerInv, HeldWhere, Analysing, Ending
  <2>3. Refusal' /\ Answered'
    BY <1>0, <1>3 DEF H!Forward, HandlerInv, Refusal, Answered, Ending
  <2>4. HeadWhere'
    BY <1>0, <1>3 DEF H!Forward, HandlerInv, HeadWhere, Piping, Ending, H!StreamedCount
  <2> QED
    BY <2>1, <2>2, <2>3, <2>4 DEF HandlerInv
<1>4. CASE H!ForwardHead
  <2>1. H!TypeOK'
    BY <1>4 DEF H!ForwardHead, HandlerInv, H!TypeOK, H!Resources
  <2>2. HeldWhere'
    BY <1>4 DEF H!ForwardHead, HandlerInv, HeldWhere, Analysing, Ending
  <2>3. Refusal' /\ Answered'
    BY <1>0, <1>4 DEF H!ForwardHead, HandlerInv, Refusal, Answered, Ending
  <2>4. HeadWhere'
    BY <1>0, <1>4 DEF H!ForwardHead, HandlerInv, HeadWhere, Piping, Ending, H!StreamedCount
  <2> QED
    BY <2>1, <2>2, <2>3, <2>4 DEF HandlerInv
<1>5. CASE H!ForwardEnds
  <2>1. H!TypeOK'
    BY <1>5 DEF H!ForwardEnds, HandlerInv, H!TypeOK, H!Resources
  <2>2. HeldWhere'
    BY <1>5 DEF H!ForwardEnds, HandlerInv, HeldWhere, Analysing, Ending
  <2>3. Refusal' /\ Answered'
    BY <1>0, <1>5 DEF H!ForwardEnds, HandlerInv, Refusal, Answered, Ending
  <2>4. HeadWhere'
    BY <1>0, <1>5 DEF H!ForwardEnds, HandlerInv, HeadWhere, Piping, Ending, H!StreamedCount
  <2> QED
    BY <2>1, <2>2, <2>3, <2>4 DEF HandlerInv
<1>6. CASE H!ForwardFails
  <2>1. H!TypeOK'
    BY <1>6 DEF H!ForwardFails, HandlerInv, H!TypeOK, H!Resources
  <2>2. HeldWhere'
    BY <1>6 DEF H!ForwardFails, HandlerInv, HeldWhere, Analysing, Ending
  <2>3. Refusal' /\ Answered'
    BY <1>0, <1>6 DEF H!ForwardFails, HandlerInv, Refusal, Answered, Ending
  <2>4. HeadWhere'
    BY <1>0, <1>6 DEF H!ForwardFails, HandlerInv, HeadWhere, Piping, Ending, H!StreamedCount
  <2> QED
    BY <2>1, <2>2, <2>3, <2>4 DEF HandlerInv
<1>7. CASE H!ForwardFinish
  <2>1. H!TypeOK'
    BY <1>7 DEF H!ForwardFinish, HandlerInv, H!TypeOK, H!Resources
  <2>2. HeldWhere'
    BY <1>7 DEF H!ForwardFinish, HandlerInv, HeldWhere, Analysing, Ending
  <2>3. Refusal' /\ Answered'
    BY <1>0, <1>7 DEF H!ForwardFinish, HandlerInv, Refusal, Answered, Ending
  <2>4. HeadWhere'
    BY <1>0, <1>7 DEF H!ForwardFinish, HandlerInv, HeadWhere, Piping, Ending, H!StreamedCount
  <2> QED
    BY <2>1, <2>2, <2>3, <2>4 DEF HandlerInv
<1>8. CASE H!Forwarded
  <2>1. H!TypeOK'
    BY <1>8 DEF H!Forwarded, HandlerInv, H!TypeOK, H!Resources
  <2>2. HeldWhere'
    BY <1>8 DEF H!Forwarded, HandlerInv, HeldWhere, Analysing, Ending
  <2>3. Refusal' /\ Answered'
    BY <1>0, <1>8 DEF H!Forwarded, HandlerInv, Refusal, Answered, Ending
  <2>4. HeadWhere'
    BY <1>0, <1>8 DEF H!Forwarded, HandlerInv, HeadWhere, Piping, Ending, H!StreamedCount
  <2> QED
    BY <2>1, <2>2, <2>3, <2>4 DEF HandlerInv
<1> QED
  BY <1>1, <1>2, <1>3, <1>4, <1>5, <1>6, <1>7, <1>8

(* A registered request and the compaction of a context. *)
LEMMA CompactsKeep ==
  ASSUME HandlerInv,
            H!Begin \/ H!Child \/ H!Enrich \/ H!CountPlain \/ H!CompactRoute
         \/ H!OpenLiveness \/ H!RunContextCompact
         \/ H!SendContextCompactResult \/ H!CompactFallback \/ H!OpenSelected
         \/ H!RelaySelected
  PROVE  HandlerInv'
<1> USE DEF H!Go, H!Hold, H!Drop, H!Throw, H!SendJson, H!OpenProgress, H!WriteFails,
  H!Answer, H!Await, H!response, H!client, H!vision, H!same
<1>0. /\ req.loop => req.kind = "messages"
      /\ req.media \in {"none", "cached", "fresh", "native", "directed"}
      /\ {req.stream, left, signal, native, refused, clash, escaped} \subseteq BOOLEAN
  BY RequestTypes
<1>1. CASE H!Begin
  <2>1. H!TypeOK'
    BY <1>1 DEF H!Begin, H!Messages, HandlerInv, H!TypeOK, H!Resources
  <2>2. HeldWhere'
    BY <1>1 DEF H!Begin, H!Messages, HandlerInv, HeldWhere, Analysing, Ending
  <2>3. Refusal' /\ Answered'
    BY <1>0, <1>1 DEF H!Begin, H!Messages, HandlerInv, Refusal, Answered, Ending
  <2>4. HeadWhere'
    BY <1>0, <1>1 DEF H!Begin, H!Messages, HandlerInv, HeadWhere, Piping, Ending, H!StreamedCount
  <2> QED
    BY <2>1, <2>2, <2>3, <2>4 DEF HandlerInv
<1>2. CASE H!Child
  <2>1. H!TypeOK'
    BY <1>2 DEF H!Child, HandlerInv, H!TypeOK, H!Resources
  <2>2. HeldWhere'
    BY <1>2 DEF H!Child, HandlerInv, HeldWhere, Analysing, Ending
  <2>3. Refusal' /\ Answered'
    BY <1>0, <1>2 DEF H!Child, HandlerInv, Refusal, Answered, Ending
  <2>4. HeadWhere'
    BY <1>0, <1>2 DEF H!Child, HandlerInv, HeadWhere, Piping, Ending, H!StreamedCount
  <2> QED
    BY <2>1, <2>2, <2>3, <2>4 DEF HandlerInv
<1>3. CASE H!Enrich
  <2>1. H!TypeOK'
    BY <1>3 DEF H!Enrich, H!Classified, HandlerInv, H!TypeOK, H!Resources
  <2>2. HeldWhere'
    BY <1>3 DEF H!Enrich, H!Classified, HandlerInv, HeldWhere, Analysing, Ending
  <2>3. Refusal' /\ Answered'
    BY <1>0, <1>3 DEF H!Enrich, H!Classified, HandlerInv, Refusal, Answered, Ending
  <2>4. HeadWhere'
    BY <1>0, <1>3 DEF H!Enrich, H!Classified, HandlerInv, HeadWhere, Piping, Ending, H!StreamedCount
  <2> QED
    BY <2>1, <2>2, <2>3, <2>4 DEF HandlerInv
<1>4. CASE H!CountPlain
  <2>1. H!TypeOK'
    BY <1>4 DEF H!CountPlain, HandlerInv, H!TypeOK, H!Resources
  <2>2. HeldWhere'
    BY <1>4 DEF H!CountPlain, HandlerInv, HeldWhere, Analysing, Ending
  <2>3. Refusal' /\ Answered'
    BY <1>0, <1>4 DEF H!CountPlain, HandlerInv, Refusal, Answered, Ending
  <2>4. HeadWhere'
    BY <1>0, <1>4 DEF H!CountPlain, HandlerInv, HeadWhere, Piping, Ending, H!StreamedCount
  <2> QED
    BY <2>1, <2>2, <2>3, <2>4 DEF HandlerInv
<1>5. CASE H!CompactRoute
  <2>1. H!TypeOK'
    BY <1>5 DEF H!CompactRoute, H!External, HandlerInv, H!TypeOK, H!Resources
  <2>2. HeldWhere'
    BY <1>5 DEF H!CompactRoute, H!External, HandlerInv, HeldWhere, Analysing, Ending
  <2>3. Refusal' /\ Answered'
    BY <1>0, <1>5 DEF H!CompactRoute, H!External, HandlerInv, Refusal, Answered, Ending
  <2>4. HeadWhere'
    BY <1>0, <1>5 DEF H!CompactRoute, H!External, HandlerInv, HeadWhere, Piping, Ending, H!StreamedCount
  <2> QED
    BY <2>1, <2>2, <2>3, <2>4 DEF HandlerInv
<1>6. CASE H!OpenLiveness
  <2>1. H!TypeOK'
    BY <1>6 DEF H!OpenLiveness, H!External, HandlerInv, H!TypeOK, H!Resources
  <2>2. HeldWhere'
    BY <1>6 DEF H!OpenLiveness, H!External, HandlerInv, HeldWhere, Analysing, Ending
  <2>3. Refusal' /\ Answered'
    BY <1>0, <1>6 DEF H!OpenLiveness, H!External, HandlerInv, Refusal, Answered, Ending
  <2>4. HeadWhere'
    BY <1>0, <1>6 DEF H!OpenLiveness, H!External, HandlerInv, HeadWhere, Piping, Ending, H!StreamedCount
  <2> QED
    BY <2>1, <2>2, <2>3, <2>4 DEF HandlerInv
<1>7. CASE H!RunContextCompact
  <2>1. H!TypeOK'
    BY <1>7 DEF H!RunContextCompact, HandlerInv, H!TypeOK, H!Resources
  <2>2. HeldWhere'
    BY <1>7 DEF H!RunContextCompact, HandlerInv, HeldWhere, Analysing, Ending
  <2>3. Refusal' /\ Answered'
    BY <1>0, <1>7 DEF H!RunContextCompact, HandlerInv, Refusal, Answered, Ending
  <2>4. HeadWhere'
    BY <1>0, <1>7 DEF H!RunContextCompact, HandlerInv, HeadWhere, Piping, Ending, H!StreamedCount
  <2> QED
    BY <2>1, <2>2, <2>3, <2>4 DEF HandlerInv
<1>8. CASE H!SendContextCompactResult
  <2>1. H!TypeOK'
    BY <1>8 DEF H!SendContextCompactResult, HandlerInv, H!TypeOK, H!Resources
  <2>2. HeldWhere'
    BY <1>8 DEF H!SendContextCompactResult, HandlerInv, HeldWhere, Analysing, Ending
  <2>3. Refusal' /\ Answered'
    BY <1>0, <1>8 DEF H!SendContextCompactResult, HandlerInv, Refusal, Answered, Ending
  <2>4. HeadWhere'
    BY <1>0, <1>8 DEF H!SendContextCompactResult, HandlerInv, HeadWhere, Piping, Ending, H!StreamedCount
  <2> QED
    BY <2>1, <2>2, <2>3, <2>4 DEF HandlerInv
<1>9. CASE H!CompactFallback
  <2>1. H!TypeOK'
    BY <1>9 DEF H!CompactFallback, HandlerInv, H!TypeOK, H!Resources
  <2>2. HeldWhere'
    BY <1>9 DEF H!CompactFallback, HandlerInv, HeldWhere, Analysing, Ending
  <2>3. Refusal' /\ Answered'
    BY <1>0, <1>9 DEF H!CompactFallback, HandlerInv, Refusal, Answered, Ending
  <2>4. HeadWhere'
    BY <1>0, <1>9 DEF H!CompactFallback, HandlerInv, HeadWhere, Piping, Ending, H!StreamedCount
  <2> QED
    BY <2>1, <2>2, <2>3, <2>4 DEF HandlerInv
<1>10. CASE H!OpenSelected
  <2>1. H!TypeOK'
    BY <1>10 DEF H!OpenSelected, HandlerInv, H!TypeOK, H!Resources
  <2>2. HeldWhere'
    BY <1>10 DEF H!OpenSelected, HandlerInv, HeldWhere, Analysing, Ending
  <2>3. Refusal' /\ Answered'
    BY <1>0, <1>10 DEF H!OpenSelected, HandlerInv, Refusal, Answered, Ending
  <2>4. HeadWhere'
    BY <1>0, <1>10 DEF H!OpenSelected, HandlerInv, HeadWhere, Piping, Ending, H!StreamedCount
  <2> QED
    BY <2>1, <2>2, <2>3, <2>4 DEF HandlerInv
<1>11. CASE H!RelaySelected
  <2>1. H!TypeOK'
    BY <1>11 DEF H!RelaySelected, HandlerInv, H!TypeOK, H!Resources
  <2>2. HeldWhere'
    BY <1>11 DEF H!RelaySelected, HandlerInv, HeldWhere, Analysing, Ending
  <2>3. Refusal' /\ Answered'
    BY <1>0, <1>11 DEF H!RelaySelected, HandlerInv, Refusal, Answered, Ending
  <2>4. HeadWhere'
    BY <1>0, <1>11 DEF H!RelaySelected, HandlerInv, HeadWhere, Piping, Ending, H!StreamedCount
  <2> QED
    BY <2>1, <2>2, <2>3, <2>4 DEF HandlerInv
<1> QED
  BY <1>1, <1>2, <1>3, <1>4, <1>5, <1>6, <1>7, <1>8, <1>9, <1>10, <1>11

(* The media of a managed request. *)
LEMMA AnalysesKeep ==
  ASSUME HandlerInv,
            H!Validate \/ H!PrepareMedia \/ H!PrepareFails \/ H!LookUp
         \/ H!CachedTransform \/ H!OpenEarly \/ H!Transform \/ H!Plan
         \/ H!Perceive \/ H!Probe \/ H!Clean
  PROVE  HandlerInv'
<1> USE DEF H!Go, H!Hold, H!Drop, H!Throw, H!SendJson, H!OpenProgress, H!WriteFails,
  H!Answer, H!Await, H!response, H!client, H!vision, H!same
<1>0. /\ req.loop => req.kind = "messages"
      /\ req.media \in {"none", "cached", "fresh", "native", "directed"}
      /\ {req.stream, left, signal, native, refused, clash, escaped} \subseteq BOOLEAN
  BY RequestTypes
<1>1. CASE H!Validate
  <2>1. H!TypeOK'
    BY <1>1 DEF H!Validate, HandlerInv, H!TypeOK, H!Resources
  <2>2. HeldWhere'
    BY <1>1 DEF H!Validate, HandlerInv, HeldWhere, Analysing, Ending
  <2>3. Refusal' /\ Answered'
    BY <1>0, <1>1 DEF H!Validate, HandlerInv, Refusal, Answered, Ending
  <2>4. HeadWhere'
    BY <1>0, <1>1 DEF H!Validate, HandlerInv, HeadWhere, Piping, Ending, H!StreamedCount
  <2> QED
    BY <2>1, <2>2, <2>3, <2>4 DEF HandlerInv
<1>2. CASE H!PrepareMedia
  <2>1. H!TypeOK'
    BY <1>2 DEF H!PrepareMedia, H!Assets, HandlerInv, H!TypeOK, H!Resources
  <2>2. HeldWhere'
    BY <1>2 DEF H!PrepareMedia, H!Assets, HandlerInv, HeldWhere, Analysing, Ending
  <2>3. Refusal' /\ Answered'
    BY <1>0, <1>2 DEF H!PrepareMedia, H!Assets, HandlerInv, Refusal, Answered, Ending
  <2>4. HeadWhere'
    BY <1>0, <1>2 DEF H!PrepareMedia, H!Assets, HandlerInv, HeadWhere, Piping, Ending, H!StreamedCount
  <2> QED
    BY <2>1, <2>2, <2>3, <2>4 DEF HandlerInv
<1>3. CASE H!PrepareFails
  <2>1. H!TypeOK'
    BY <1>3 DEF H!PrepareFails, H!Assets, HandlerInv, H!TypeOK, H!Resources
  <2>2. HeldWhere'
    BY <1>3 DEF H!PrepareFails, H!Assets, HandlerInv, HeldWhere, Analysing, Ending
  <2>3. Refusal' /\ Answered'
    BY <1>0, <1>3 DEF H!PrepareFails, H!Assets, HandlerInv, Refusal, Answered, Ending
  <2>4. HeadWhere'
    BY <1>0, <1>3 DEF H!PrepareFails, H!Assets, HandlerInv, HeadWhere, Piping, Ending, H!StreamedCount
  <2> QED
    BY <2>1, <2>2, <2>3, <2>4 DEF HandlerInv
<1>4. CASE H!LookUp
  <2>1. H!TypeOK'
    BY <1>4 DEF H!LookUp, HandlerInv, H!TypeOK, H!Resources
  <2>2. HeldWhere'
    BY <1>4 DEF H!LookUp, HandlerInv, HeldWhere, Analysing, Ending
  <2>3. Refusal' /\ Answered'
    BY <1>0, <1>4 DEF H!LookUp, HandlerInv, Refusal, Answered, Ending
  <2>4. HeadWhere'
    BY <1>0, <1>4 DEF H!LookUp, HandlerInv, HeadWhere, Piping, Ending, H!StreamedCount
  <2> QED
    BY <2>1, <2>2, <2>3, <2>4 DEF HandlerInv
<1>5. CASE H!CachedTransform
  <2>1. H!TypeOK'
    BY <1>5 DEF H!CachedTransform, HandlerInv, H!TypeOK, H!Resources
  <2>2. HeldWhere'
    BY <1>5 DEF H!CachedTransform, HandlerInv, HeldWhere, Analysing, Ending
  <2>3. Refusal' /\ Answered'
    BY <1>0, <1>5 DEF H!CachedTransform, HandlerInv, Refusal, Answered, Ending
  <2>4. HeadWhere'
    BY <1>0, <1>5 DEF H!CachedTransform, HandlerInv, HeadWhere, Piping, Ending, H!StreamedCount
  <2> QED
    BY <2>1, <2>2, <2>3, <2>4 DEF HandlerInv
<1>6. CASE H!OpenEarly
  <2>1. H!TypeOK'
    BY <1>6 DEF H!OpenEarly, HandlerInv, H!TypeOK, H!Resources
  <2>2. HeldWhere'
    BY <1>6 DEF H!OpenEarly, HandlerInv, HeldWhere, Analysing, Ending
  <2>3. Refusal' /\ Answered'
    BY <1>0, <1>6 DEF H!OpenEarly, HandlerInv, Refusal, Answered, Ending
  <2>4. HeadWhere'
    BY <1>0, <1>6 DEF H!OpenEarly, HandlerInv, HeadWhere, Piping, Ending, H!StreamedCount
  <2> QED
    BY <2>1, <2>2, <2>3, <2>4 DEF HandlerInv
<1>7. CASE H!Transform
  <2>1. H!TypeOK'
    BY <1>7 DEF H!Transform, HandlerInv, H!TypeOK, H!Resources
  <2>2. HeldWhere'
    BY <1>7 DEF H!Transform, HandlerInv, HeldWhere, Analysing, Ending
  <2>3. Refusal' /\ Answered'
    BY <1>0, <1>7 DEF H!Transform, HandlerInv, Refusal, Answered, Ending
  <2>4. HeadWhere'
    BY <1>0, <1>7 DEF H!Transform, HandlerInv, HeadWhere, Piping, Ending, H!StreamedCount
  <2> QED
    BY <2>1, <2>2, <2>3, <2>4 DEF HandlerInv
<1>8. CASE H!Plan
  <2>1. H!TypeOK'
    BY <1>8 DEF H!Plan, HandlerInv, H!TypeOK, H!Resources
  <2>2. HeldWhere'
    BY <1>8 DEF H!Plan, HandlerInv, HeldWhere, Analysing, Ending
  <2>3. Refusal' /\ Answered'
    BY <1>0, <1>8 DEF H!Plan, HandlerInv, Refusal, Answered, Ending
  <2>4. HeadWhere'
    BY <1>0, <1>8 DEF H!Plan, HandlerInv, HeadWhere, Piping, Ending, H!StreamedCount
  <2> QED
    BY <2>1, <2>2, <2>3, <2>4 DEF HandlerInv
<1>9. CASE H!Perceive
  <2>1. H!TypeOK'
    BY <1>9 DEF H!Perceive, HandlerInv, H!TypeOK, H!Resources
  <2>2. HeldWhere'
    BY <1>9 DEF H!Perceive, HandlerInv, HeldWhere, Analysing, Ending
  <2>3. Refusal' /\ Answered'
    BY <1>0, <1>9 DEF H!Perceive, HandlerInv, Refusal, Answered, Ending
  <2>4. HeadWhere'
    BY <1>0, <1>9 DEF H!Perceive, HandlerInv, HeadWhere, Piping, Ending, H!StreamedCount
  <2> QED
    BY <2>1, <2>2, <2>3, <2>4 DEF HandlerInv
<1>10. CASE H!Probe
  <2>1. H!TypeOK'
    BY <1>10 DEF H!Probe, HandlerInv, H!TypeOK, H!Resources
  <2>2. HeldWhere'
    BY <1>10 DEF H!Probe, HandlerInv, HeldWhere, Analysing, Ending
  <2>3. Refusal' /\ Answered'
    BY <1>0, <1>10 DEF H!Probe, HandlerInv, Refusal, Answered, Ending
  <2>4. HeadWhere'
    BY <1>0, <1>10 DEF H!Probe, HandlerInv, HeadWhere, Piping, Ending, H!StreamedCount
  <2> QED
    BY <2>1, <2>2, <2>3, <2>4 DEF HandlerInv
<1>11. CASE H!Clean
  <2>1. H!TypeOK'
    BY <1>11 DEF H!Clean, HandlerInv, H!TypeOK, H!Resources
  <2>2. HeldWhere'
    BY <1>11 DEF H!Clean, HandlerInv, HeldWhere, Analysing, Ending
  <2>3. Refusal' /\ Answered'
    BY <1>0, <1>11 DEF H!Clean, HandlerInv, Refusal, Answered, Ending
  <2>4. HeadWhere'
    BY <1>0, <1>11 DEF H!Clean, HandlerInv, HeadWhere, Piping, Ending, H!StreamedCount
  <2> QED
    BY <2>1, <2>2, <2>3, <2>4 DEF HandlerInv
<1> QED
  BY <1>1, <1>2, <1>3, <1>4, <1>5, <1>6, <1>7, <1>8, <1>9, <1>10, <1>11

(* The base model, the answer, and the way out. *)
LEMMA AnswersKeep ==
  ASSUME HandlerInv,
            H!Preflight \/ H!CountAnswer \/ H!OpenDirect \/ H!RunLoop
         \/ H!CollectBase \/ H!BaseRefuses \/ H!Materialize \/ H!Language
         \/ H!Emit \/ H!Catch \/ H!Finally \/ H!Cleanup \/ H!Close
  PROVE  HandlerInv'
<1> USE DEF H!Go, H!Hold, H!Drop, H!Throw, H!SendJson, H!OpenProgress, H!WriteFails,
  H!Answer, H!Await, H!response, H!client, H!vision, H!same
<1>0. /\ req.loop => req.kind = "messages"
      /\ req.media \in {"none", "cached", "fresh", "native", "directed"}
      /\ {req.stream, left, signal, native, refused, clash, escaped} \subseteq BOOLEAN
  BY RequestTypes
<1>1. CASE H!Preflight
  <2>1. H!TypeOK'
    BY <1>1 DEF H!Preflight, HandlerInv, H!TypeOK, H!Resources
  <2>2. HeldWhere'
    BY <1>1 DEF H!Preflight, HandlerInv, HeldWhere, Analysing, Ending
  <2>3. Refusal' /\ Answered'
    BY <1>0, <1>1 DEF H!Preflight, HandlerInv, Refusal, Answered, Ending
  <2>4. HeadWhere'
    BY <1>0, <1>1 DEF H!Preflight, HandlerInv, HeadWhere, Piping, Ending, H!StreamedCount
  <2> QED
    BY <2>1, <2>2, <2>3, <2>4 DEF HandlerInv
<1>2. CASE H!CountAnswer
  <2>1. H!TypeOK'
    BY <1>2 DEF H!CountAnswer, HandlerInv, H!TypeOK, H!Resources
  <2>2. HeldWhere'
    BY <1>2 DEF H!CountAnswer, HandlerInv, HeldWhere, Analysing, Ending
  <2>3. Refusal' /\ Answered'
    BY <1>0, <1>2 DEF H!CountAnswer, HandlerInv, Refusal, Answered, Ending
  <2>4. HeadWhere'
    BY <1>0, <1>2 DEF H!CountAnswer, HandlerInv, HeadWhere, Piping, Ending, H!StreamedCount
  <2> QED
    BY <2>1, <2>2, <2>3, <2>4 DEF HandlerInv
<1>3. CASE H!OpenDirect
  <2>1. H!TypeOK'
    BY <1>3 DEF H!OpenDirect, HandlerInv, H!TypeOK, H!Resources
  <2>2. HeldWhere'
    BY <1>3 DEF H!OpenDirect, HandlerInv, HeldWhere, Analysing, Ending
  <2>3. Refusal' /\ Answered'
    BY <1>0, <1>3 DEF H!OpenDirect, HandlerInv, Refusal, Answered, Ending
  <2>4. HeadWhere'
    BY <1>0, <1>3 DEF H!OpenDirect, HandlerInv, HeadWhere, Piping, Ending, H!StreamedCount
  <2> QED
    BY <2>1, <2>2, <2>3, <2>4 DEF HandlerInv
<1>4. CASE H!RunLoop
  <2>1. H!TypeOK'
    BY <1>4 DEF H!RunLoop, H!Asked, HandlerInv, H!TypeOK, H!Resources
  <2>2. HeldWhere'
    BY <1>4 DEF H!RunLoop, H!Asked, HandlerInv, HeldWhere, Analysing, Ending
  <2>3. Refusal' /\ Answered'
    BY <1>0, <1>4 DEF H!RunLoop, H!Asked, HandlerInv, Refusal, Answered, Ending
  <2>4. HeadWhere'
    BY <1>0, <1>4 DEF H!RunLoop, H!Asked, HandlerInv, HeadWhere, Piping, Ending, H!StreamedCount
  <2> QED
    BY <2>1, <2>2, <2>3, <2>4 DEF HandlerInv
<1>5. CASE H!CollectBase
  <2>1. H!TypeOK'
    BY <1>5 DEF H!CollectBase, H!Asked, HandlerInv, H!TypeOK, H!Resources
  <2>2. HeldWhere'
    BY <1>5 DEF H!CollectBase, H!Asked, HandlerInv, HeldWhere, Analysing, Ending
  <2>3. Refusal' /\ Answered'
    BY <1>0, <1>5 DEF H!CollectBase, H!Asked, HandlerInv, Refusal, Answered, Ending
  <2>4. HeadWhere'
    BY <1>0, <1>5 DEF H!CollectBase, H!Asked, HandlerInv, HeadWhere, Piping, Ending, H!StreamedCount
  <2> QED
    BY <2>1, <2>2, <2>3, <2>4 DEF HandlerInv
<1>6. CASE H!BaseRefuses
  <2>1. H!TypeOK'
    BY <1>6 DEF H!BaseRefuses, HandlerInv, H!TypeOK, H!Resources
  <2>2. HeldWhere'
    BY <1>6 DEF H!BaseRefuses, HandlerInv, HeldWhere, Analysing, Ending
  <2>3. Refusal' /\ Answered'
    BY <1>0, <1>6 DEF H!BaseRefuses, HandlerInv, Refusal, Answered, Ending
  <2>4. HeadWhere'
    BY <1>0, <1>6 DEF H!BaseRefuses, HandlerInv, HeadWhere, Piping, Ending, H!StreamedCount
  <2> QED
    BY <2>1, <2>2, <2>3, <2>4 DEF HandlerInv
<1>7. CASE H!Materialize
  <2>1. H!TypeOK'
    BY <1>7 DEF H!Materialize, HandlerInv, H!TypeOK, H!Resources
  <2>2. HeldWhere'
    BY <1>7 DEF H!Materialize, HandlerInv, HeldWhere, Analysing, Ending
  <2>3. Refusal' /\ Answered'
    BY <1>0, <1>7 DEF H!Materialize, HandlerInv, Refusal, Answered, Ending
  <2>4. HeadWhere'
    BY <1>0, <1>7 DEF H!Materialize, HandlerInv, HeadWhere, Piping, Ending, H!StreamedCount
  <2> QED
    BY <2>1, <2>2, <2>3, <2>4 DEF HandlerInv
<1>8. CASE H!Language
  <2>1. H!TypeOK'
    BY <1>8 DEF H!Language, HandlerInv, H!TypeOK, H!Resources
  <2>2. HeldWhere'
    BY <1>8 DEF H!Language, HandlerInv, HeldWhere, Analysing, Ending
  <2>3. Refusal' /\ Answered'
    BY <1>0, <1>8 DEF H!Language, HandlerInv, Refusal, Answered, Ending
  <2>4. HeadWhere'
    BY <1>0, <1>8 DEF H!Language, HandlerInv, HeadWhere, Piping, Ending, H!StreamedCount
  <2> QED
    BY <2>1, <2>2, <2>3, <2>4 DEF HandlerInv
<1>9. CASE H!Emit
  <2>1. H!TypeOK'
    BY <1>9 DEF H!Emit, HandlerInv, H!TypeOK, H!Resources
  <2>2. HeldWhere'
    BY <1>9 DEF H!Emit, HandlerInv, HeldWhere, Analysing, Ending
  <2>3. Refusal' /\ Answered'
    BY <1>0, <1>9 DEF H!Emit, HandlerInv, Refusal, Answered, Ending
  <2>4. HeadWhere'
    BY <1>0, <1>9 DEF H!Emit, HandlerInv, HeadWhere, Piping, Ending, H!StreamedCount
  <2> QED
    BY <2>1, <2>2, <2>3, <2>4 DEF HandlerInv
<1>10. CASE H!Catch
  <2>1. H!TypeOK'
    BY <1>10 DEF H!Catch, HandlerInv, H!TypeOK, H!Resources
  <2>2. HeldWhere'
    BY <1>10 DEF H!Catch, HandlerInv, HeldWhere, Analysing, Ending
  <2>3. Refusal' /\ Answered'
    BY <1>0, <1>10 DEF H!Catch, HandlerInv, Refusal, Answered, Ending
  <2>4. HeadWhere'
    BY <1>0, <1>10 DEF H!Catch, HandlerInv, HeadWhere, Piping, Ending, H!StreamedCount
  <2> QED
    BY <2>1, <2>2, <2>3, <2>4 DEF HandlerInv
<1>11. CASE H!Finally
  <2>1. H!TypeOK'
    BY <1>11 DEF H!Finally, HandlerInv, H!TypeOK, H!Resources
  <2>2. HeldWhere'
    BY <1>11 DEF H!Finally, HandlerInv, HeldWhere, Analysing, Ending, H!TypeOK, H!Resources
  <2>3. Refusal' /\ Answered'
    BY <1>0, <1>11 DEF H!Finally, HandlerInv, Refusal, Answered, Ending
  <2>4. HeadWhere'
    BY <1>0, <1>11 DEF H!Finally, HandlerInv, HeadWhere, Piping, Ending, H!StreamedCount
  <2> QED
    BY <2>1, <2>2, <2>3, <2>4 DEF HandlerInv
<1>12. CASE H!Cleanup
  <2>1. H!TypeOK'
    BY <1>12 DEF H!Cleanup, HandlerInv, H!TypeOK, H!Resources
  <2>2. HeldWhere'
    BY <1>12 DEF H!Cleanup, HandlerInv, HeldWhere, Analysing, Ending
  <2>3. Refusal' /\ Answered'
    BY <1>0, <1>12 DEF H!Cleanup, HandlerInv, Refusal, Answered, Ending
  <2>4. HeadWhere'
    BY <1>0, <1>12 DEF H!Cleanup, HandlerInv, HeadWhere, Piping, Ending, H!StreamedCount
  <2> QED
    BY <2>1, <2>2, <2>3, <2>4 DEF HandlerInv
<1>13. CASE H!Close
  <2>1. H!TypeOK'
    BY <1>13 DEF H!Close, HandlerInv, H!TypeOK, H!Resources
  <2>2. HeldWhere'
    BY <1>13 DEF H!Close, HandlerInv, HeldWhere, Analysing, Ending
  <2>3. Refusal' /\ Answered'
    BY <1>0, <1>13 DEF H!Close, HandlerInv, Refusal, Answered, Ending
  <2>4. HeadWhere'
    BY <1>0, <1>13 DEF H!Close, HandlerInv, HeadWhere, Piping, Ending, H!StreamedCount
  <2> QED
    BY <2>1, <2>2, <2>3, <2>4 DEF HandlerInv
<1> QED
  BY <1>1, <1>2, <1>3, <1>4, <1>5, <1>6, <1>7, <1>8, <1>9, <1>10, <1>11, <1>12, <1>13

LEMMA HandlerStepKeeps == HandlerInv /\ [H!Next]_(H!vars) => HandlerInv'
<1> SUFFICES ASSUME HandlerInv, [H!Next]_(H!vars) PROVE HandlerInv'
  OBVIOUS
<1>1. CASE UNCHANGED H!vars
  BY <1>1 DEF H!vars, HandlerInv, H!TypeOK, HeldWhere, Refusal, HeadWhere, Answered,
              H!StreamedCount
<1> QED
  BY <1>1, RoutesKeep, ForwardsKeep, CompactsKeep, AnalysesKeep, AnswersKeep
     DEF H!Next, H!Step

(* The parts of the gateway rest while one of them is explored. *)
LEMMA PartsRest ==
  ASSUME [MCNext]_<<part, vars, handlerVars, gateVars>>
  PROVE  [Next]_vars /\ [H!Next]_(H!vars)
  BY DEF MCNext, HandlerStep, GateStep, handlerVars, H!Next, H!vars

(* On every way out the handler has given back its timers, its request,    *)
(* its files and its assets; the files and the assets go before the base   *)
(* model is asked, and it is not sent again the images it refused (the     *)
(* finally block, the cleanups before it, the runtime fallback).           *)
THEOREM ResourcesAreReleased == MCSpec => []ResourcesReleased
<1>1. IInv /\ HandlerInv => ResourcesReleased
  BY DEF IInv, HandlerInv, HeldWhere, Refusal, Analysing, Ending, ResourcesReleased,
         H!ResourcesReleased, H!NothingHeld, H!MediaGoneBeforeModel, H!RefusedImagesGone
<1>2. MCInit => Init /\ H!Init
  BY DEF MCInit
<1> QED
  BY <1>1, <1>2, InitInv, StepInv, HandlerInit, HandlerStepKeeps, PartsRest, PTL DEF MCSpec

(* One head is written onto a response, the streamed count of media alone  *)
(* excepted, and a client that stays is answered, unless the error event   *)
(* was rejected (sendJson, the stream that is opened late, the catch       *)
(* block).                                                                 *)
THEOREM EachIsAnsweredOnce == MCSpec => []AnsweredOnce
<1>1. HandlerInv => AnsweredOnce
  BY DEF HandlerInv, HeadWhere, Answered, AnsweredOnce, H!AnsweredOnce, H!OneHead,
         H!StayingIsAnswered
<1>2. MCInit => H!Init
  BY DEF MCInit
<1> QED
  BY <1>1, <1>2, HandlerInit, HandlerStepKeeps, PartsRest, PTL DEF MCSpec

=============================================================================
