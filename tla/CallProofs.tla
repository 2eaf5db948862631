----------------------------- MODULE CallProofs -----------------------------
(***************************************************************************)
(* Proofs about one call and about the body of one response. Whatever arms *)
(* an operation declares and whatever the handler answers, the client      *)
(* reads the answer by the arm that owns its status. For every delivery    *)
(* the transport may make and every limit, the reader never holds more     *)
(* than the limit, and what it calls whole was read to its end.            *)
(***************************************************************************)
EXTENDS Call, Body, WellFoundedInduction, TLAPS

BodyKinds == {"json", "text", "empty"}

\* The arms that own a status: exact ones, else ranges, else `default`.
Owners(status) == {k \in DOMAIN call.arms : call.arms[k].exact /\ call.arms[k].code = status}
Ranges(status) ==
    {k \in DOMAIN call.arms : ~call.arms[k].exact /\ call.arms[k].code = Class(status)}
OwnerOf(status) ==
    IF Owners(status) # {} THEN Owners(status)
    ELSE IF Ranges(status) # {} THEN Ranges(status) ELSE {0}

\* What the handler's answer is written as.
Sent == IF ~Covers(call.answer.arm, call.answer.status) \/ ~HttpStatus(call.answer.status) \/ Defective
        THEN Refusal
        ELSE [status |-> call.answer.status, headers |-> Attached,
              body |-> IF call.answer.status = 204 THEN "empty" ELSE Answered.body,
              from |-> call.answer.arm]

\* The call is one of those considered, its reply is what the answer is written
\* as, and the outcome is the arm the reply's status picks.
Answering ==
    /\ call \in Calls
    /\ pc \in {"dispatch", "done"} => reply = Sent
    /\ pc = "done" =>
          /\ outcome.arm = Pick(reply.status)
          /\ outcome.result = "decode" =>
                outcome.arm >= 0 /\ ~Decodes(ArmOf(outcome.arm), reply.body)

\* What is assumed of the arms of a call.
Arms(c) ==
    /\ Len(c.arms) \in Nat /\ DOMAIN c.arms = 1..Len(c.arms)
    /\ \A k, m \in DOMAIN c.arms : c.arms[k].exact /\ ~c.arms[m].exact => k < m
    /\ \A k \in DOMAIN c.arms : c.arms[k].exact \in BOOLEAN /\ c.arms[k].body \in BodyKinds
    /\ c.fallback # <<>> => c.fallback[1].body \in BodyKinds
    /\ c.answer.arm \in DOMAIN c.arms \/ (c.answer.arm = 0 /\ c.fallback # <<>>)

-----------------------------------------------------------------------------
\* A nonempty set of numbers has a first one.
LEMMA FirstOfNumbers ==
    ASSUME NEW S \in SUBSET Nat, S # {}
    PROVE  \E k \in S : \A m \in S : k <= m
  <1> DEFINE Below == {pair \in Nat \X Nat : pair[1] < pair[2]}
  <1>1. IsWellFoundedOn(Below, Nat) BY NatLessThanWellFounded DEF OpToRel
  <1>2. \A x, y \in Nat : x < y => <<x, y>> \in Below OBVIOUS
  <1> HIDE DEF Below
  <1>3. PICK k \in S : \A m \in S : <<m, k>> \notin Below BY <1>1, WFMin
  <1>4. \A m \in S : ~(m < k) BY <1>2, <1>3
  <1> QED BY <1>4

\* The calls considered have such arms (the assumption on Calls).
LEMMA CallsHaveArms == ASSUME NEW c \in Calls PROVE Arms(c)
  BY CallsAssumption DEF Arms, BodyKinds

-----------------------------------------------------------------------------
\* The client's first match is the first of the arms that own the status.
LEMMA PicksOwner ==
    ASSUME Arms(call), NEW status,
           OwnerOf(status) = {0} => call.fallback # None
    PROVE  /\ Pick(status) \in OwnerOf(status)
           /\ \A k \in OwnerOf(status) : Pick(status) <= k
  <1> DEFINE owner == OwnerOf(status)
             matching == Matching(status)
  <1>1. PICK n \in Nat : DOMAIN call.arms = 1..n BY DEF Arms
  <1>2. matching = Owners(status) \cup Ranges(status)
    BY DEF Matching, Owners, Ranges, Arms
  <1>3. matching \subseteq 1..n BY <1>1 DEF Matching
  <1>4. CASE matching # {}
    <2>1. PICK k \in matching : \A m \in matching : k <= m
      <3>1. matching \in SUBSET Nat BY <1>3
      <3> HIDE DEF matching
      <3> QED BY <1>4, <3>1, FirstOfNumbers
    <2>2. \A j \in matching : (\A m \in matching : j <= m) => j = k
      BY <1>3, <2>1
    <2>3. Pick(status) = k
      <3>1. Pick(status) = CHOOSE j \in matching : \A m \in matching : j <= m
        BY <1>4 DEF Pick
      <3> HIDE DEF matching
      <3> QED BY <2>1, <2>2, <3>1
    <2>4. owner \subseteq matching BY <1>2, <1>4 DEF OwnerOf
    <2>5. k \in owner
      <3>1. CASE Owners(status) = {}
        BY <1>2, <1>4, <2>1, <3>1 DEF OwnerOf
      <3>2. CASE Owners(status) # {}
        <4>1. PICK e \in Owners(status) : TRUE BY <3>2
        <4>2. k <= e /\ e \in 1..n /\ k \in 1..n BY <1>2, <1>3, <2>1
        <4>3. k \in Ranges(status) => FALSE
          <5> SUFFICES ASSUME k \in Ranges(status) PROVE FALSE OBVIOUS
          <5>1. e < k BY <1>1, <4>1, <4>2 DEF Arms, Owners, Ranges
          <5> QED BY <4>2, <5>1
        <4> QED BY <1>2, <2>1, <3>2, <4>3 DEF OwnerOf
      <3> QED BY <3>1, <3>2
    <2> QED BY <2>1, <2>3, <2>4, <2>5
  <1>5. CASE matching = {}
    <2>1. owner = {0} BY <1>2, <1>5 DEF OwnerOf
    <2>2. Pick(status) = 0 BY <1>5, <2>1 DEF Pick
    <2> QED BY <2>1, <2>2
  <1> QED BY <1>4, <1>5

\* The server lets an answer through exactly where its arm owns the status.
LEMMA CoversOwner ==
    ASSUME Arms(call), NEW status
    PROVE  Covers(call.answer.arm, status) <=> call.answer.arm \in OwnerOf(status)
  <1> DEFINE a == call.answer.arm
  <1>1. PICK n \in Nat : DOMAIN call.arms = 1..n BY DEF Arms
  <1>2. Exactly(status) <=> Owners(status) # {} BY DEF Exactly, Owners
  <1>3. InRange(status) <=> Ranges(status) # {} BY DEF InRange, Ranges
  <1>4. 0 \notin Owners(status) /\ 0 \notin Ranges(status) BY <1>1 DEF Owners, Ranges
  <1>5. CASE a = 0
    BY <1>2, <1>3, <1>4, <1>5 DEF Covers, OwnerOf
  <1>6. CASE a # 0
    <2>1. a \in DOMAIN call.arms BY <1>6 DEF Arms
    <2>2. ArmOf(a) = call.arms[a] BY <1>6 DEF ArmOf
    <2>3. CASE call.arms[a].exact
      <3>1. a \in Owners(status) <=> status = call.arms[a].code BY <2>1, <2>3 DEF Owners
      <3>2. a \notin Ranges(status) BY <2>3 DEF Ranges
      <3>3. Covers(a, status) <=> status = call.arms[a].code BY <1>6, <2>2, <2>3 DEF Covers
      <3> QED BY <1>6, <3>1, <3>2, <3>3 DEF OwnerOf
    <2>4. CASE ~call.arms[a].exact
      <3>1. a \notin Owners(status) BY <2>4 DEF Owners
      <3>2. a \in Ranges(status) <=> Class(status) = call.arms[a].code BY <2>1, <2>4 DEF Ranges
      <3>3. Covers(a, status) <=> Class(status) = call.arms[a].code /\ ~Exactly(status)
        BY <1>6, <2>2, <2>4 DEF Covers
      <3> QED BY <1>2, <1>6, <3>1, <3>2, <3>3 DEF OwnerOf
    <2> QED BY <2>3, <2>4
  <1> QED BY <1>5, <1>6

-----------------------------------------------------------------------------
\* Nothing is answered yet at the first step.
LEMMA InitAnswering == Init => Answering
  BY DEF Init, Answering

\* While the request is assembled and read, nothing is written.
LEMMA AskingAnswering ==
    ASSUME Answering, call' = call, pc' \notin {"dispatch", "done"} PROVE Answering'
  BY DEF Answering

\* What is sent depends on the call alone.
LEMMA SentStays == ASSUME call' = call PROVE Sent' = Sent
  <1>1. Answered' = Answered BY DEF Answered, ArmOf
  <1>2. Own' = Own BY <1>1 DEF Own
  <1>3. Defective' = Defective BY <1>1, <1>2 DEF Defective
  <1>4. TypedHeaders' = TypedHeaders
    BY <1>1, <1>2 DEF TypedHeaders
  <1>5. MediaHeaders' = MediaHeaders BY <1>1 DEF MediaHeaders
  <1>6. Attached' = Attached BY <1>4, <1>5 DEF Attached
  <1>7. Covers(call.answer.arm, call.answer.status)' = Covers(call.answer.arm, call.answer.status)
    BY DEF Covers, Exactly, InRange, ArmOf
  <1> QED BY <1>1, <1>3, <1>6, <1>7 DEF Sent

\* The handler's answer is written as it is sent.
LEMMA WriteAnswering == ASSUME Answering, WriteReply PROVE Answering'
  <1>1. reply' = Sent BY DEF WriteReply, Sent
  <1>2. Sent' = Sent BY SentStays DEF WriteReply
  <1> QED BY <1>1, <1>2 DEF Answering, WriteReply

\* The client reads the arm its match picks.
LEMMA DispatchAnswering == ASSUME Answering, Dispatch PROVE Answering'
  <1>1. reply' = Sent' BY SentStays DEF Answering, Dispatch
  <1> DEFINE n == Pick(reply.status)
  <1>2. call' = call /\ reply' = reply /\ pc' = "done" BY DEF Dispatch
  <1>3. Pick(reply.status)' = n BY <1>2 DEF Pick, Matching
  <1>4. ArmOf(n)' = ArmOf(n) BY <1>2, <1>3 DEF ArmOf
  <1>5. outcome'.arm = n BY DEF Dispatch
  <1>6. outcome'.result = "decode" => n >= 0 /\ ~Decodes(ArmOf(n), reply.body)
    BY DEF Dispatch
  <1> QED BY <1>1, <1>2, <1>3, <1>4, <1>5, <1>6 DEF Answering

\* Every step of a call keeps what is known of its answer.
LEMMA NextAnswering == Answering /\ [Next]_vars => Answering'
  <1> SUFFICES ASSUME Answering, [Next]_vars PROVE Answering' OBVIOUS
  <1>1. CASE Send
    BY <1>1, AskingAnswering
    DEF Send, WritePath, WriteQuery, WriteHeaders, WriteBody, SetOwn, Execute
  <1>2. CASE Serve
    BY <1>2, AskingAnswering
    DEF Serve, ExtractContext, ReadParam, RefuseParam, PassGate, ReadBody, Reject
  <1>3. CASE WriteReply BY <1>3, WriteAnswering
  <1>4. CASE Dispatch BY <1>4, DispatchAnswering
  <1>5. CASE UNCHANGED vars
    <2>1. call' = call /\ pc' = pc /\ reply' = reply /\ outcome' = outcome BY <1>5 DEF vars
    <2> QED BY <2>1, SentStays DEF Answering, Pick, Matching, ArmOf
  <1> QED BY <1>1, <1>2, <1>3, <1>4, <1>5 DEF Next, Answer

\* A reply is the server's own failure only where the handler's answer is refused.
LEMMA RefusedIsRefusal ==
    ASSUME Arms(call), Sent = Refusal
    PROVE  \/ ~Covers(call.answer.arm, call.answer.status)
           \/ ~HttpStatus(call.answer.status)
           \/ Defective
  <1>1. Refusal.body = "message" BY DEF Refusal
  <1>2. Answered.body \in BodyKinds
    BY DEF Arms, Answered, ArmOf
  <1> QED BY <1>1, <1>2 DEF Sent, BodyKinds

\* The reply's status picks the first owner of the answer's, and its arm decodes
\* what the answered arm wrote.
LEMMA AnsweredIsSameArm == Answering => SameArm
  <1> SUFFICES ASSUME Answering, pc = "done" PROVE SameArm BY DEF SameArm
  <1> DEFINE status == call.answer.status
             owner == OwnerOf(status)
  <1>1. Arms(call) BY CallsHaveArms DEF Answering
  <1>2. reply = Sent BY DEF Answering
  <1>3. ASSUME reply # Refusal
        PROVE  /\ call.answer.arm \in owner
               /\ reply.status = status
               /\ outcome.arm \in owner
               /\ \A k \in owner : outcome.arm <= k
               /\ outcome.arm = call.answer.arm /\ outcome.result = "decode" => status = 204
    <2>1. Covers(call.answer.arm, status) BY <1>2, <1>3 DEF Sent
    <2>2. call.answer.arm \in owner BY <1>1, <2>1, CoversOwner
    <2>3. reply.status = status /\ reply.body = IF status = 204 THEN "empty" ELSE Answered.body
      BY <1>2, <1>3 DEF Sent
    <2>4. owner = {0} => call.fallback # None
      <3> SUFFICES ASSUME owner = {0} PROVE call.fallback # None OBVIOUS
      <3>1. call.answer.arm = 0 BY <2>2
      <3> QED BY <1>1, <3>1 DEF Arms, None
    <2>5. outcome.arm = Pick(status) BY <2>3 DEF Answering
    <2>6. outcome.arm \in owner /\ \A k \in owner : outcome.arm <= k
      BY <1>1, <2>4, <2>5, PicksOwner
    <2>7. ASSUME outcome.arm = call.answer.arm, outcome.result = "decode" PROVE status = 204
      <3>1. ~Decodes(Answered, reply.body) BY <2>7 DEF Answering, Answered
      <3>2. Answered.body \in BodyKinds BY <1>1 DEF Arms, Answered, ArmOf
      <3> QED BY <2>3, <3>1, <3>2 DEF Decodes, BodyKinds
    <2> QED BY <2>2, <2>3, <2>6, <2>7
  <1>4. ASSUME reply = Refusal
        PROVE  call.answer.arm \notin owner \/ ~HttpStatus(status) \/ Defective
    BY <1>1, <1>2, <1>4, RefusedIsRefusal, CoversOwner
  <1> QED BY <1>3, <1>4 DEF SameArm, OwnerOf, Owners, Ranges

\* In every reachable state the reply is what the handler's answer is written as and
\* the outcome is read by the arm the client's match picks (render/server.rs,
\* arm_match; render/client.rs, dispatch).
THEOREM AlwaysAnswering == Spec => []Answering
  BY InitAnswering, NextAnswering, PTL DEF Spec

\* Whatever arms an operation declares, in ranges, exact or by default, and whatever
\* the handler answers, the client decodes the answer by the first arm that owns the
\* status the handler answered with, and an answer in an arm that does not own its
\* status is the server's 500 (render/server.rs and render/client.rs decide
\* ownership in code of their own).
THEOREM AnswersKeepTheirArm == Spec => []SameArm
  BY AlwaysAnswering, AnsweredIsSameArm, PTL

-----------------------------------------------------------------------------
(***************************************************************************)
(* Bodies.                                                                 *)
(***************************************************************************)

Delivery == [declared : Nat \cup {Undeclared}, ends : {e \in Seq(Nat) : Increasing(e)}]

\* The reading at hand: a delivery, a limit and the chunks taken of it.
Accounted ==
    /\ delivery \in Delivery
    /\ limit \in Nat \cup {Unlimited}
    /\ taken \in 0..Len(delivery.ends)
    /\ held = Upto(delivery, taken)

\* BodyBounded alone does not survive a chunk: that what is held is where the
\* last taken chunk ended is what makes the end of the body the whole of it.
Counted == Accounted /\ BodyBounded

-----------------------------------------------------------------------------
\* Every delivery of the transport is one (the assumption on Deliveries).
LEMMA DeliveriesTyped == ASSUME NEW d \in Deliveries PROVE d \in Delivery
  <1>1. /\ d = [declared |-> d.declared, ends |-> d.ends]
        /\ d.declared \in Nat \cup {Undeclared}
        /\ d.ends \in Seq(Nat) /\ Increasing(d.ends)
    BY DeliveriesAssumption
  <1>2. d.ends \in {e \in Seq(Nat) : Increasing(e)} BY <1>1
  <1>3. [declared |-> d.declared, ends |-> d.ends] \in Delivery BY <1>1, <1>2 DEF Delivery
  <1> QED BY <1>1, <1>3

\* Where a prefix of a delivery ends is a number.
LEMMA UptoNat == ASSUME NEW d \in Delivery, NEW k \in 0..Len(d.ends) PROVE Upto(d, k) \in Nat
  <1>1. d.ends \in Seq(Nat) BY DEF Delivery
  <1>2. CASE k = 0 BY <1>2 DEF Upto
  <1>3. CASE k # 0
    <2>1. k \in 1..Len(d.ends) BY <1>3, <1>1
    <2> QED BY <2>1, <1>1, <1>3 DEF Upto
  <1> QED BY <1>2, <1>3

\* A chunk takes the reader from where one prefix ends to where the next does.
LEMMA ChunkEnds ==
    ASSUME NEW d \in Delivery, NEW k \in 0..Len(d.ends), k < Len(d.ends)
    PROVE  Upto(d, k) + Size(d, k + 1) = Upto(d, k + 1)
  <1>1. d.ends \in Seq(Nat) BY DEF Delivery
  <1>2. k + 1 \in 0..Len(d.ends) /\ k + 1 - 1 = k BY <1>1
  <1>3. Upto(d, k) \in Nat /\ Upto(d, k + 1) \in Nat BY <1>2, UptoNat
  <1>4. Size(d, k + 1) = Upto(d, k + 1) - Upto(d, k) BY <1>2 DEF Size
  <1> QED BY <1>3, <1>4

\* Before anything arrives nothing is held and nothing is limited.
LEMMA IdleCounted == BodyIdle => Counted
  <1> SUFFICES ASSUME BodyIdle PROVE Counted OBVIOUS
  <1>1. <<>> \in Seq(Nat) /\ Len(<<>>) = 0 OBVIOUS
  <1>2. Increasing(<<>>) BY DEF Increasing
  <1>3. NoDelivery \in Delivery BY <1>1, <1>2 DEF NoDelivery, Delivery
  <1>4. Len(NoDelivery.ends) = 0 BY DEF NoDelivery
  <1>5. Accounted BY <1>3, <1>4 DEF Accounted, BodyIdle, Upto
  <1>6. BodyBounded BY DEF BodyBounded, BodyIdle
  <1> QED BY <1>5, <1>6 DEF Counted

\* A response that arrives starts the count again.
LEMMA ReceiveCounted ==
    ASSUME Counted, NEW d \in Deliveries, NEW l \in Limits, Receive(d, l)
    PROVE  Counted'
  <1>1. d \in Delivery BY DeliveriesTyped
  <1>2. l \in Nat \cup {Unlimited} BY LimitsAssumption
  <1>3. Len(d.ends) \in Nat BY <1>1 DEF Delivery
  <1>4. Accounted' BY <1>1, <1>2, <1>3 DEF Receive, Accounted, Upto
  <1>5. BodyBounded' BY <1>2 DEF Receive, BodyBounded, Unlimited
  <1> QED BY <1>4, <1>5 DEF Counted

\* A reading settled without holding more changes nothing that is counted.
LEMMA SettleCounted ==
    ASSUME Counted, NEW how, Settle(how), how # "whole" PROVE Counted'
  <1>1. Accounted' BY DEF Counted, Accounted, Settle, Upto
  <1>2. BodyBounded' BY DEF Counted, BodyBounded, Settle, Total, Upto
  <1> QED BY <1>1, <1>2 DEF Counted

\* A chunk is taken only when the limit leaves room for it.
LEMMA TakeChunkCounted == ASSUME Counted, TakeChunk PROVE Counted'
  <1>1. delivery \in Delivery /\ taken \in 0..Len(delivery.ends) /\ taken < Len(delivery.ends)
    BY DEF Counted, Accounted, TakeChunk
  <1>2. delivery.ends \in Seq(Nat) BY <1>1 DEF Delivery
  <1>3. taken + 1 \in 0..Len(delivery.ends) BY <1>1, <1>2
  <1>4. held' = Upto(delivery, taken + 1)
    BY <1>1, ChunkEnds DEF Counted, Accounted, TakeChunk, Coming
  <1>5. Accounted' BY <1>3, <1>4 DEF Counted, Accounted, TakeChunk, Upto
  <1>6. held' <= limit BY DEF TakeChunk, FitsLimit, Coming
  <1>7. read' # "whole" BY DEF TakeChunk, Streaming
  <1>8. BodyBounded' BY <1>6, <1>7 DEF BodyBounded, TakeChunk
  <1> QED BY <1>5, <1>8 DEF Counted

\* The transport says there is no more: every chunk was taken.
LEMMA FinishCounted == ASSUME Counted, Finish PROVE Counted'
  <1>1. Accounted' BY DEF Counted, Accounted, Finish, Settle, Upto
  <1>2. held = Total(delivery) BY DEF Counted, Accounted, Finish, Total
  <1>3. BodyBounded' BY <1>2 DEF Counted, BodyBounded, Finish, Settle, Total, Upto
  <1> QED BY <1>1, <1>3 DEF Counted

\* Without a limit there is nothing to stay within, and all of it is held.
LEMMA ReadWholeCounted == ASSUME Counted, ReadWhole PROVE Counted'
  <1>1. delivery.ends \in Seq(Nat) BY DEF Counted, Accounted, Delivery
  <1>2. Len(delivery.ends) \in 0..Len(delivery.ends) BY <1>1
  <1>3. Accounted' BY <1>2 DEF Counted, Accounted, ReadWhole, Total, Upto
  <1>4. BodyBounded' BY DEF BodyBounded, ReadWhole, Total, Upto
  <1> QED BY <1>3, <1>4 DEF Counted

\* Every step of the reader keeps the count, whatever the transport does.
LEMMA NextCounted == Counted /\ [BodyNext]_bodyVars => Counted'
  <1> SUFFICES ASSUME Counted, [BodyNext]_bodyVars PROVE Counted' OBVIOUS
  <1>1. CASE RefuseUnread BY <1>1, SettleCounted DEF RefuseUnread
  <1>2. CASE TakeChunk BY <1>2, TakeChunkCounted
  <1>3. CASE Overrun BY <1>3, SettleCounted DEF Overrun
  <1>4. CASE Finish BY <1>4, FinishCounted
  <1>5. CASE ReadWhole BY <1>5, ReadWholeCounted
  <1>6. CASE BreakOff BY <1>6, SettleCounted DEF BreakOff
  <1>7. CASE \E d \in Deliveries, l \in Limits : Receive(d, l)
    <2>1. PICK d \in Deliveries, l \in Limits : Receive(d, l) BY <1>7
    <2> QED BY <2>1, ReceiveCounted
  <1>8. CASE UNCHANGED bodyVars
    BY <1>8 DEF bodyVars, Counted, Accounted, BodyBounded, Total, Upto
  <1> QED BY <1>1, <1>2, <1>3, <1>4, <1>5, <1>6, <1>7, <1>8 DEF BodyNext, BodyStep

\* What the reader of a response body holds is counted exactly, in every
\* reachable state (support/http.rs, read_body).
THEOREM AlwaysCounted == BodySpec => []Counted
  BY IdleCounted, NextCounted, PTL DEF BodySpec

\* A body under a limit never grows past it, whatever length was declared and
\* however the body is cut, and one that is handed on was read to its end
\* (support/http.rs, read_body).
THEOREM BodyAlwaysBounded == BodySpec => []BodyBounded
  <1>1. Counted => BodyBounded BY DEF Counted
  <1> QED BY <1>1, AlwaysCounted, PTL

=============================================================================
