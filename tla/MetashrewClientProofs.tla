----------------------- MODULE MetashrewClientProofs -----------------------
(***************************************************************************)
(* The safety properties of MetashrewClients, and that the clients         *)
(* implement MetashrewCalls, for any heights, reorgs, data and width.      *)
(***************************************************************************)
EXTENDS MetashrewClients, TLAPS

(***************************************************************************)
(* The strengthening: what is held for the question asked has been seen,   *)
(* a stand-in or an idle client has nothing on a connection, and a reply   *)
(* on it says what was seen or follows a mishap.                           *)
(***************************************************************************)
Justified(reply) ==
  /\ reply.value # Absent => reply.value \in seen
  /\ reply.value = Absent => faulty \/ (Absent \in seen /\ reply.says # {})
  /\ reply.kind # "result" => faulty \/ (Absent \in seen /\ reply.kind = "error")
  /\ reply.kind # "result" /\ reply.kind # "status" => reply.value = Absent
  /\ reply.kind \in {"result", "status"} => reply.says = {}

Counting(q) == q[1] \in {"height", "count", "healthy"}

PipeOK ==
  /\ pipe # << >> => call # NoCall /\ backend = "rpc"
  /\ pipe # << >> /\ pipe[1].kind # "request" => Justified(pipe[1])

SeenOK ==
  /\ call # NoCall => Held[call] \in seen
  /\ call # NoCall /\ Counting(call) => \A v \in seen : v[1] = "number"
  /\ call = NoCall => seen = {}

IInv == TypeOK /\ PipeOK /\ SeenOK

-----------------------------------------------------------------------------
\* The bounds are numbers, the questions are pairs.
LEMMA Constants ==
  /\ MaxHeight \in Nat /\ Width \in Nat /\ Width > 1
  /\ HashKey \subseteq Nat
  /\ \A k \in ViewKey \ {Latest} : k \in HashKey
  /\ NoCall \notin Question
  /\ Absent \in Value
  /\ \A n \in Nat : Number(n) \in Value /\ Number(n) # Absent
  BY ClientsAssumption
     DEF HashKey, ViewKey, Question, NoCall, Absent, Value, Number, Latest

\* What is held for a question is a value, and a number where one is asked for.
LEMMA HeldType ==
  ASSUME NEW n \in HashKey, NEW hs \in [HashKey -> Value],
         NEW vs \in [ViewKey -> Value], NEW q \in Question
  PROVE  /\ HeldIn(n, hs, vs)[q] \in Value
         /\ Counting(q) => HeldIn(n, hs, vs)[q] = Number(n)
<1>1. HeldIn(n, hs, vs)[q] =
        IF q[1] = "hash" THEN hs[q[2]]
        ELSE IF q[1] = "view" THEN ViewOf(hs, vs, n, q[2])
        ELSE Number(n)
  BY DEF HeldIn
<1>2. CASE q \in {"hash"} \X HashKey
  BY <1>1, <1>2 DEF Counting
<1>3. CASE q \in {"view"} \X ViewKey
  <2>1. q[2] \in ViewKey /\ q[1] = "view"
    BY <1>3
  <2>2. ViewOf(hs, vs, n, q[2]) \in Value
    BY <2>1, Constants DEF ViewOf
  <2> QED BY <1>1, <2>1, <2>2 DEF Counting
<1>4. CASE q \in {"height", "count", "healthy"} \X {0}
  BY <1>1, <1>4, Constants DEF Counting
<1> QED BY <1>2, <1>3, <1>4 DEF Question

\* The steps of the world have one shape.
WorldStep ==
  /\ height' \in HashKey
  /\ hashes' \in [HashKey -> Value]
  /\ views' \in [ViewKey -> Value]
  /\ branch' \in 0 .. MaxReorgs
  /\ direct' \in BOOLEAN
  /\ UNCHANGED <<backend, pipe, callVars>>
  /\ Witnessed

\* Every hash a node or a stand-in can hold is a value.
LEMMA HashesAreValues ==
  /\ \A d \in Data : DataHash(d) \in Value /\ Result(d) \in Value
  /\ \A d \in Data, i \in Nat : ForkHash(d, i) \in Value
  /\ \A b \in Nat : NodeHash(b) \in Value
  /\ PlainHash \in Value
  BY ClientsAssumption DEF DataHash, Result, ForkHash, NodeHash, PlainHash, Value

\* A block or a reorg of the node changes what the world holds, and no call.
LEMMA NodeSteps ==
  ASSUME TypeOK, NodeMines \/ NodeReorgs
  PROVE  WorldStep
<1> USE Constants, HashesAreValues DEF TypeOK
<1>1. CASE NodeMines
  <2>1. height' \in HashKey /\ NodeHash(branch) \in Value
    BY <1>1, ClientsAssumption DEF NodeMines, HashKey
  <2>2. hashes' \in [HashKey -> Value]
    BY <1>1, <2>1 DEF NodeMines
  <2> QED BY <1>1, <2>1, <2>2 DEF NodeMines, WorldStep
<1>2. CASE NodeReorgs
  <2>1. height' \in HashKey /\ branch' \in 0 .. MaxReorgs
    BY <1>2, ClientsAssumption DEF NodeReorgs, HashKey
  <2>2. hashes' \in [HashKey -> Value]
    BY <1>2 DEF NodeReorgs
  <2> QED BY <1>2, <2>1, <2>2 DEF NodeReorgs, WorldStep
<1> QED BY <1>1, <1>2

\* simulate_reorg's new chain, for a fork and blocks within the bounds.
LEMMA ReorgStep ==
  ASSUME TypeOK, NEW fork \in HashKey, NEW blocks \in Seq(Data),
         fork + Len(blocks) <= MaxHeight, SimulateReorg(fork, blocks)
  PROVE  WorldStep
<1>1. height' \in HashKey
  BY ClientsAssumption DEF SimulateReorg, HashKey
<1>2. ASSUME NEW k \in HashKey, ~ k <= fork, k <= fork + Len(blocks)
      PROVE  ForkHash(blocks[k - fork], k - fork - 1) \in Value
  <2>1. k - fork \in 1 .. Len(blocks) /\ k - fork - 1 \in Nat
    BY <1>2, ClientsAssumption DEF HashKey
  <2>2. blocks[k - fork] \in Data
    BY <2>1
  <2> QED BY <2>1, <2>2, HashesAreValues
<1>3. hashes' \in [HashKey -> Value]
  BY <1>2, Constants DEF SimulateReorg, TypeOK
<1> QED BY <1>1, <1>3 DEF SimulateReorg, WorldStep, TypeOK

\* What the simulator may be given is a sequence of block data.
LEMMA BoundedSeqIsSeq ==
  ASSUME NEW blocks \in BoundedSeq(Data, MaxBlocks)
  PROVE  blocks \in Seq(Data)
<1>1. PICK n \in 0 .. MaxBlocks : blocks \in [1 .. n -> Data]
  BY ClientsAssumption DEF BoundedSeq, SeqOf
<1> QED BY <1>1, ClientsAssumption

\* A test that drives a stand-in changes what the world holds, and no call.
LEMMA DriveStep ==
  ASSUME TypeOK, Drive
  PROVE  WorldStep
<1> USE Constants, HashesAreValues DEF TypeOK
<1>1. CASE AdvanceBlock
  <2>1. height' \in HashKey
    BY <1>1, ClientsAssumption DEF AdvanceBlock, HashKey
  <2>2. hashes' \in [HashKey -> Value]
    BY <1>1, <2>1 DEF AdvanceBlock
  <2> QED BY <1>1, <2>1, <2>2 DEF AdvanceBlock, WorldStep
<1>2. CASE \E fork \in HashKey, blocks \in BoundedSeq(Data, MaxBlocks) :
             fork + Len(blocks) <= MaxHeight /\ fork + Len(blocks) < Width
             /\ SimulateReorg(fork, blocks)
  BY <1>2, ReorgStep, BoundedSeqIsSeq
<1>3. CASE SetHeight
  BY <1>3 DEF SetHeight, WorldStep
<1>4. CASE SetBlockHash
  <2>1. hashes' \in [HashKey -> Value]
    BY <1>4 DEF SetBlockHash
  <2> QED BY <1>4, <2>1 DEF SetBlockHash, WorldStep
<1>5. CASE SetViewResult
  <2>1. views' \in [ViewKey -> Value]
    BY <1>5 DEF SetViewResult
  <2> QED BY <1>5, <2>1 DEF SetViewResult, WorldStep
<1>6. CASE Clear
  <2>1. /\ height' \in HashKey /\ hashes' \in [HashKey -> Value]
        /\ views' \in [ViewKey -> Value]
    BY <1>6, ClientsAssumption DEF Clear, Empty, HashKey
  <2> QED BY <1>6, <2>1 DEF Clear, WorldStep
<1> QED BY <1>1, <1>2, <1>3, <1>4, <1>5, <1>6 DEF Drive

-----------------------------------------------------------------------------
(***************************************************************************)
(* The invariant.                                                          *)
(***************************************************************************)
LEMMA InitHolds == Init => IInv
<1> SUFFICES ASSUME Init PROVE IInv
  OBVIOUS
<1> USE Constants, HashesAreValues DEF Init
<1>1. hashes \in [HashKey -> Value]
  <2>1. NodeHash(0) \in Value
    BY ClientsAssumption
  <2> QED BY <2>1 DEF Empty
<1>2. TypeOK
  <2>1. height \in HashKey /\ branch \in 0 .. MaxReorgs
    BY ClientsAssumption DEF HashKey
  <2>2. pipe \in Seq(Reply \cup {Request(q) : q \in Question}) /\ Len(pipe) <= 1
    OBVIOUS
  <2>3. answer \in {"ok", "unavailable", "failed", "none"} \X Value
    BY DEF NoAnswer
  <2>4. seen \subseteq Value /\ views \in [ViewKey -> Value]
    OBVIOUS
  <2> QED BY <1>1, <2>1, <2>2, <2>3, <2>4 DEF TypeOK
<1>3. PipeOK /\ SeenOK
  BY DEF PipeOK, SeenOK
<1> QED BY <1>2, <1>3 DEF IInv

\* What was seen stays seen, and what is held now is seen.
LEMMA WorldKeepsInv ==
  ASSUME IInv, WorldStep
  PROVE  IInv'
<1> USE DEF IInv, WorldStep, callVars
<1>1. ASSUME call # NoCall
      PROVE  /\ Held'[call] \in Value /\ Held'[call] \in seen'
             /\ Counting(call) => Held'[call][1] = "number"
             /\ seen' = seen \cup {Held'[call]}
  <2>1. call \in Question
    BY <1>1 DEF TypeOK
  <2>2. /\ HeldIn(height', hashes', views')[call] \in Value
        /\ Counting(call) => HeldIn(height', hashes', views')[call] = Number(height')
    BY <2>1, HeldType
  <2>3. Held' = HeldIn(height', hashes', views')
    BY DEF Held, HeldIn, ViewOf
  <2> QED BY <1>1, <2>2, <2>3 DEF Witnessed, Number
<1>2. seen' \subseteq Value /\ seen \subseteq seen'
  BY <1>1 DEF Witnessed, TypeOK
<1>3. TypeOK'
  BY <1>2 DEF TypeOK
<1>4. SeenOK'
  BY <1>1 DEF SeenOK, Witnessed, Counting
<1>5. PipeOK'
  BY <1>2 DEF PipeOK, Justified
<1> QED BY <1>3, <1>4, <1>5

\* One element makes a sequence of length 1.
LEMMA Singleton ==
  ASSUME NEW S, NEW e \in S
  PROVE  <<e>> \in Seq(S) /\ Len(<<e>>) = 1
  OBVIOUS

\* A connection with nothing or one thing on it carries one call at most.
LEMMA AtMostOne ==
  ASSUME NEW S, NEW e \in S, NEW s, s = << >> \/ s = <<e>>
  PROVE  s \in Seq(S) /\ Len(s) <= 1
<1>1. CASE s = << >>
  BY <1>1
<1>2. CASE s = <<e>>
  <2>1. s \in Seq(S)
    BY <1>2, Singleton
  <2>2. Len(s) = 1
    BY <1>2, Singleton
  <2> QED BY <2>1, <2>2
<1> QED BY <1>1, <1>2

\* A question is put on an empty connection, or to a stand-in.
LEMMA AskKeepsInv ==
  ASSUME IInv, NEW q \in Question, Ask(q)
  PROVE  IInv'
<1> USE DEF IInv, Ask, worldVars
<1>1. pipe = << >> /\ call' = q /\ q # NoCall /\ call' # NoCall
  BY Constants DEF PipeOK, TypeOK
<1>2. /\ Held[q] \in Value
      /\ Counting(q) => Held[q] = Number(height)
  BY HeldType DEF TypeOK, Held
<1>3. pipe' = << >> \/ (backend = "rpc" /\ pipe' = <<Request(q)>>)
  BY <1>1
<1>4. TypeOK'
  <2>1. pipe' \in Seq(Reply \cup {Request(p) : p \in Question}) /\ Len(pipe') <= 1
    <3> DEFINE S == Reply \cup {Request(p) : p \in Question}
    <3>1. Request(q) \in S
      OBVIOUS
    <3> HIDE DEF S
    <3>2. pipe' = << >> \/ pipe' = <<Request(q)>>
      BY <1>3
    <3>3. pipe' \in Seq(S) /\ Len(pipe') <= 1
      BY <3>1, <3>2, AtMostOne
    <3> QED BY <3>3 DEF S
  <2>2. seen' \subseteq Value /\ answer' \in {"ok", "unavailable", "failed", "none"} \X Value
    BY <1>2, Constants DEF NoAnswer
  <2>3. UNCHANGED <<backend, height, hashes, views, branch, direct>>
    OBVIOUS
  <2> QED BY <1>1, <2>1, <2>2, <2>3 DEF TypeOK
<1>5. Held' = Held
  BY DEF Held, HeldIn, ViewOf
<1>6. SeenOK'
  BY <1>1, <1>2, <1>5 DEF SeenOK, Number
<1>7. PipeOK'
  BY <1>1, <1>3 DEF PipeOK, Request
<1> QED BY <1>4, <1>6, <1>7

\* The one request on the connection is the one that is replied to.
LEMMA ReplyOnPipe ==
  ASSUME TypeOK, NEW i \in Unanswered, NEW reply \in Reply,
         pipe' = [pipe EXCEPT ![i] = reply]
  PROVE  pipe' = <<reply>> /\ pipe' \in Seq(Reply \cup {Request(q) : q \in Question})
<1>1. i \in DOMAIN pipe /\ Len(pipe) <= 1 /\ pipe \in Seq(Reply \cup {Request(q) : q \in Question})
  BY DEF Unanswered, TypeOK
<1>2. i = 1 /\ Len(pipe) = 1
  BY <1>1
<1>3. pipe' = <<reply>>
  BY <1>1, <1>2
<1> DEFINE S == Reply \cup {Request(q) : q \in Question}
<1>4. reply \in S
  OBVIOUS
<1> HIDE DEF S
<1>5. pipe' \in Seq(S)
  BY <1>3, <1>4, Singleton
<1> QED BY <1>3, <1>5 DEF S

\* A truthful reply shows what the node holds at that moment.
LEMMA NodeRepliesKeepsInv ==
  ASSUME IInv, NodeReplies
  PROVE  IInv'
<1> USE DEF IInv, worldVars, callVars
<1>1. PICK i \in Unanswered, reply \in Truth(Held[call]) : pipe' = [pipe EXCEPT ![i] = reply]
  BY DEF NodeReplies
<1>2. call \in Question /\ call # NoCall
  BY DEF NodeReplies, TypeOK
<1>3. Held[call] \in Value /\ Held[call] \in seen
  BY <1>2, HeldType DEF TypeOK, SeenOK, Held
<1>4. reply \in Reply /\ Justified(reply)
  <2>1. CASE Held[call] # Absent
    BY <2>1, <1>1, <1>3 DEF Truth, Reply, Justified
  <2>2. CASE Held[call] = Absent
    <3>1. reply \in [kind : {"error"}, says : (SUBSET Phrases) \ {{}}, value : {Absent}]
      BY <2>2, <1>1 DEF Truth
    <3>2. /\ reply \in Reply /\ reply.kind = "error" /\ reply.says # {}
          /\ reply.value = Absent
      BY <3>1, Constants DEF Reply
    <3> QED BY <2>2, <1>3, <3>2 DEF Justified
  <2> QED BY <2>1, <2>2
<1>5. pipe' = <<reply>> /\ pipe' \in Seq(Reply \cup {Request(q) : q \in Question})
  BY <1>1, <1>4, ReplyOnPipe
<1>6. backend = "rpc"
  BY <1>1 DEF Unanswered, PipeOK, TypeOK
<1>7. UNCHANGED <<worldVars, seen, callVars>>
  BY DEF NodeReplies
<1>8. TypeOK'
  BY <1>5, <1>7 DEF TypeOK
<1>9. PipeOK' /\ SeenOK'
  <2>1. Held' = Held
    BY <1>7 DEF Held, HeldIn, ViewOf
  <2>2. pipe'[1] = reply
    BY <1>5
  <2> QED BY <1>2, <1>4, <1>6, <1>7, <2>1, <2>2 DEF PipeOK, SeenOK, Justified, Counting
<1> QED BY <1>8, <1>9

\* Any other reply is a reason for an error or a default.
LEMMA NodeErrsKeepsInv ==
  ASSUME IInv, NodeErrs
  PROVE  IInv'
<1> USE DEF IInv, worldVars, callVars
<1>1. PICK i \in Unanswered, reply \in Trouble : pipe' = [pipe EXCEPT ![i] = reply]
  BY DEF NodeErrs
<1>2. call \in Question /\ call # NoCall
  BY DEF NodeErrs, TypeOK
<1>3. Held[call] \in Value /\ Held[call] \in seen
  BY <1>2, HeldType DEF TypeOK, SeenOK, Held
<1>4. reply \in Reply
  BY <1>1, <1>3, Constants DEF Trouble, Reply
<1>5. pipe' = <<reply>> /\ pipe' \in Seq(Reply \cup {Request(q) : q \in Question})
  BY <1>1, <1>4, ReplyOnPipe
<1>6. backend = "rpc"
  BY <1>1 DEF Unanswered, PipeOK, TypeOK
<1>7. UNCHANGED <<worldVars, call, seen, answer>> /\ faulty' = TRUE
  BY DEF NodeErrs
<1>8. TypeOK'
  BY <1>5, <1>7 DEF TypeOK
<1>9. Justified(reply)'
  BY <1>1, <1>3, <1>7 DEF Trouble, Justified
<1>10. PipeOK' /\ SeenOK'
  <2>1. Held' = Held
    BY <1>7 DEF Held, HeldIn, ViewOf
  <2>2. pipe'[1] = reply
    BY <1>5
  <2> QED BY <1>2, <1>6, <1>7, <1>9, <2>1, <2>2 DEF PipeOK, SeenOK, Justified, Counting
<1> QED BY <1>8, <1>10

\* The reply a stand-in makes up.
LocalReply == IF Held[call] = Absent
              THEN [kind  |-> "error",
                    says  |-> IF call[1] = "hash" THEN {"block_hash_not_found"} ELSE {},
                    value |-> Absent]
              ELSE [kind |-> "result", says |-> {}, value |-> Held[call]]

(***************************************************************************)
(* What a call can end with: with the reply read, with none, or locally.   *)
(***************************************************************************)
Ends == Receive \/ ConnectionLost \/ AnswerLocally

(***************************************************************************)
(* A call ends in an answer MetashrewCalls allows, and leaves nothing on   *)
(* the connection.                                                         *)
(***************************************************************************)
LEMMA NumbersAreNotAbsent ==
  ASSUME IInv, call # NoCall, Counting(call)
  PROVE  Absent \notin seen
  BY DEF IInv, SeenOK, Absent

\* From a reply that tells the truth or follows a mishap.
LEMMA OutcomeAllowed ==
  ASSUME IInv, call \in Question, NEW reply, NEW wrong \in BOOLEAN,
         reply.value \in Value,
         reply.value # Absent => reply.value \in seen,
         reply.kind # "result" \/ reply.value = Absent =>
           wrong \/ (Absent \in seen /\ (call[1] = "hash" => reply.says # {}))
  PROVE  Outcome(reply) \in Calls!Answers(wrong)
<1> USE DEF Outcome, Calls!Answers, Calls!Usable, Calls!Shown, Calls!Fallback,
            Calls!Answered, Calls!Absent, Calls!Failed, Calls!Unavailable,
            Calls!Number, Answered, Absent, Failed, Unavailable, Number
<1>0. call # NoCall
  BY Constants
<1>1. CASE call[1] = "hash"
  BY <1>1 DEF BlockHash, IsResult
<1>2. CASE call[1] = "view"
  BY <1>2 DEF IsResult
<1>3. CASE call[1] = "height"
  <2>1. Absent \notin seen
    BY <1>0, <1>3, NumbersAreNotAbsent DEF Counting
  <2>2. CASE IsHeight(reply)
    BY <1>3, <2>2 DEF IsHeight, IsResult
  <2>3. CASE ~ IsHeight(reply)
    <3>1. Outcome(reply) = Failed
      BY <1>3, <2>3
    <3>2. wrong \/ \E v \in seen : ~ v[2] < Width
      BY <2>1, <2>3 DEF IsHeight, IsResult
    <3> QED BY <1>3, <3>1, <3>2
  <2> QED BY <2>2, <2>3
<1>4. CASE call[1] = "healthy"
  <2>1. Absent \notin seen
    BY <1>0, <1>4, NumbersAreNotAbsent DEF Counting
  <2>2. CASE IsHeight(reply)
    BY <1>4, <2>2 DEF IsHeight, IsResult
  <2>3. CASE ~ IsHeight(reply)
    <3>1. Outcome(reply) = Answered(Number(0))
      BY <1>4, <2>3
    <3>2. wrong \/ \E v \in seen : ~ v[2] < Width
      BY <2>1, <2>3 DEF IsHeight, IsResult
    <3> QED BY <1>4, <3>1, <3>2
  <2> QED BY <2>2, <2>3
<1>5. CASE call[1] = "count"
  <2>1. Absent \notin seen
    BY <1>0, <1>5, NumbersAreNotAbsent DEF Counting
  <2>2. CASE reply.kind \in {"result", "status"} /\ reply.value # Absent
    BY <1>5, <2>2 DEF CountOf
  <2>3. CASE ~ (reply.kind \in {"result", "status"} /\ reply.value # Absent)
    <3>1. Outcome(reply) = Answered(Number(1))
      BY <1>5, <2>3 DEF CountOf
    <3>2. wrong
      BY <2>1, <2>3
    <3> QED BY <1>5, <3>1, <3>2
  <2> QED BY <2>2, <2>3
<1> QED BY <1>1, <1>2, <1>3, <1>4, <1>5 DEF Question

\* What a call ends with is one of the answers the abstract call may end with.
LEMMA EndAllowed ==
  ASSUME IInv, Ends
  PROVE  /\ call \in Question
         /\ faulty' \in {faulty, TRUE}
         /\ answer' \in Calls!Answers(faulty')
         /\ call' = NoCall /\ seen' = {} /\ pipe' = << >>
         /\ UNCHANGED worldVars
<1> USE DEF IInv
<1>1. call \in Question
  BY DEF Ends, Receive, ConnectionLost, AnswerLocally, TypeOK
<1>2. CASE Receive
  <2>1. /\ pipe # << >> /\ Head(pipe).kind # "request" /\ pipe \in Seq(Reply \cup {Request(q) : q \in Question})
        /\ Len(pipe) <= 1
    BY <1>2 DEF Receive, TypeOK
  <2>2. Head(pipe) = pipe[1] /\ Tail(pipe) = << >> /\ 1 \in DOMAIN pipe
    BY <2>1
  <2>3. pipe[1] \in Reply /\ Justified(pipe[1])
    BY <2>1, <2>2 DEF PipeOK, Request
  <2>4. Outcome(pipe[1]) \in Calls!Answers(faulty)
    BY <1>1, <2>3, OutcomeAllowed DEF Reply, Justified, TypeOK
  <2> QED BY <1>1, <1>2, <2>2, <2>4 DEF Receive, Return
<1>3. CASE ConnectionLost
  <2>1. Outcome(NoReply) \in Calls!Answers(TRUE)
    BY <1>1, OutcomeAllowed, Constants DEF NoReply
  <2> QED BY <1>1, <1>3, <2>1 DEF ConnectionLost, Return
<1>4. CASE AnswerLocally
  <2>1. Held[call] \in Value /\ Held[call] \in seen
    BY <1>1, Constants, HeldType DEF TypeOK, SeenOK, Held
  <2>2. Outcome(LocalReply) \in Calls!Answers(faulty)
    BY <1>1, <2>1, OutcomeAllowed, Constants DEF LocalReply, TypeOK
  <2>3. pipe = << >>
    BY <1>4 DEF AnswerLocally, PipeOK
  <2> QED BY <1>1, <1>4, <2>2, <2>3 DEF AnswerLocally, Return, LocalReply
<1> QED BY <1>2, <1>3, <1>4 DEF Ends

\* The end of a call leaves no call under way, and an empty connection.
LEMMA EndKeepsInv ==
  ASSUME IInv, Ends
  PROVE  IInv'
<1>1. /\ faulty' \in {faulty, TRUE} /\ answer' \in Calls!Answers(faulty')
      /\ call' = NoCall /\ seen' = {} /\ pipe' = << >> /\ UNCHANGED worldVars
      /\ call \in Question
  BY EndAllowed
<1>2. answer' \in {"ok", "unavailable", "failed", "none"} \X Value
  <2>1. \A v \in seen : v \in Value /\ v[2] % Width \in Nat
    <3>1. \A v \in seen : v \in Value /\ v[2] \in Nat
      BY DEF IInv, TypeOK, Value
    <3>2. \A n \in Nat : n % Width \in Nat
      BY Constants
    <3> QED BY <3>1, <3>2
  <2>2. \A v \in seen : Calls!Usable(v) => Calls!Shown(v) \in Value
    <3>1. Number(1) \in Value
      BY Constants
    <3>2. \A v \in seen : Number(v[2] % Width) \in Value
      BY <2>1, Constants
    <3> QED BY <1>1, <2>1, <3>1, <3>2 DEF Calls!Shown, Calls!Number, Number, Question
  <2>3. \A w \in BOOLEAN : Calls!Fallback(w) \subseteq {"ok", "unavailable", "failed", "none"} \X Value
    <3>1. Number(0) \in Value /\ Number(1) \in Value /\ Absent \in Value
      BY Constants
    <3> QED BY <1>1, <3>1 DEF Calls!Fallback, Calls!Answered, Calls!Number, Number, Calls!Failed,
                             Calls!Unavailable, Calls!Absent, Absent, Question
  <2>4. CASE answer' \in Calls!Fallback(faulty')
    BY <1>1, <2>3, <2>4 DEF IInv, TypeOK
  <2>5. CASE \E v \in seen : Calls!Usable(v) /\ answer' = Calls!Answered(Calls!Shown(v))
    BY <2>2, <2>5 DEF Calls!Answered
  <2> QED BY <1>1, <2>4, <2>5 DEF Calls!Answers
<1>3. TypeOK'
  <2>1. pipe' \in Seq(Reply \cup {Request(q) : q \in Question}) /\ Len(pipe') <= 1
    BY <1>1
  <2> QED BY <1>1, <1>2, <2>1 DEF IInv, TypeOK, worldVars
<1>4. PipeOK' /\ SeenOK'
  BY <1>1 DEF PipeOK, SeenOK
<1> QED BY <1>3, <1>4 DEF IInv

\* The invariant is inductive.
LEMMA NextKeepsInv == IInv /\ [Next]_vars => IInv'
<1> SUFFICES ASSUME IInv, [Next]_vars PROVE IInv'
  OBVIOUS
<1>1. CASE NodeMines \/ NodeReorgs
  BY <1>1, NodeSteps, WorldKeepsInv DEF IInv
<1>2. CASE Drive
  BY <1>2, DriveStep, WorldKeepsInv DEF IInv
<1>3. CASE NodeReplies
  BY <1>3, NodeRepliesKeepsInv
<1>4. CASE NodeErrs
  BY <1>4, NodeErrsKeepsInv
<1>5. CASE \E q \in Question : Ask(q)
  BY <1>5, AskKeepsInv
<1>6. CASE Receive \/ ConnectionLost \/ AnswerLocally
  BY <1>6, EndKeepsInv DEF Ends
<1>7. CASE UNCHANGED vars
  <2>1. Held' = Held
    BY <1>7 DEF vars, worldVars, Held, HeldIn, ViewOf
  <2> QED BY <1>7, <2>1
          DEF IInv, TypeOK, PipeOK, SeenOK, Justified, vars, worldVars, Counting
<1> QED BY <1>1, <1>2, <1>3, <1>4, <1>5, <1>6, <1>7 DEF Next

(***************************************************************************)
(* Every variable of MetashrewClients keeps its type, and a connection     *)
(* never carries more than the one call it was opened for.                 *)
(***************************************************************************)
THEOREM TypesCorrect == Spec => []TypeOK
<1>1. IInv => TypeOK
  BY DEF IInv
<1> QED BY InitHolds, NextKeepsInv, <1>1, PTL DEF Spec

-----------------------------------------------------------------------------
(***************************************************************************)
(* The refinement.                                                         *)
(***************************************************************************)
LEMMA InitRefines == Init => Calls!Init
<1> SUFFICES ASSUME Init PROVE Calls!Init
  OBVIOUS
<1>1. IInv
  BY InitHolds
<1>2. Held \in [Question -> Value]
  <2>1. \A q \in Question : Held[q] \in Value
    BY <1>1, HeldType DEF IInv, TypeOK, Held
  <2> QED BY <2>1 DEF Held, HeldIn
<1>3. Held \in [Calls!Question -> Value]
  BY <1>2 DEF Question, Calls!Question
<1> QED BY <1>3 DEF Init, Calls!Init, NoCall, Calls!NoCall, NoAnswer, Calls!NoAnswer,
                    Absent, Calls!Absent

\* The values of MetashrewClients are values of MetashrewCalls.
LEMMA HeldRefines ==
  ASSUME TypeOK
  PROVE  Held \in [Calls!Question -> Value]
<1>1. \A q \in Question : Held[q] \in Value
  BY HeldType DEF TypeOK, Held
<1> QED BY <1>1 DEF Held, HeldIn, Question, Calls!Question

\* Every step is one of MetashrewCalls, or a stutter of it.
LEMMA StepRefines ==
  ASSUME IInv, [Next]_vars
  PROVE  [Calls!Next]_Calls!vars
<1> USE DEF Calls!vars
<1>0. TypeOK /\ TypeOK'
  BY NextKeepsInv DEF IInv
<1>1. ASSUME WorldStep PROVE Calls!Change
  <2>1. Held' \in [Calls!Question -> Value]
    <3>1. \A q \in Question : HeldIn(height', hashes', views')[q] \in Value
      BY <1>1, HeldType DEF WorldStep
    <3>2. Held' = HeldIn(height', hashes', views')
      BY <1>1 DEF WorldStep, Held, HeldIn, ViewOf
    <3> QED BY <3>1, <3>2 DEF HeldIn, Question, Calls!Question
  <2>2. Held' = HeldIn(height', hashes', views')
    BY <1>1 DEF WorldStep, Held, HeldIn, ViewOf
  <2> QED BY <1>1, <2>1, <2>2
          DEF WorldStep, Witnessed, callVars, Calls!Change, NoCall, Calls!NoCall
<1>2. CASE NodeMines \/ NodeReorgs
  BY <1>0, <1>1, <1>2, NodeSteps DEF Calls!Next
<1>3. CASE Drive
  BY <1>0, <1>1, <1>3, DriveStep DEF Calls!Next
<1>4. ASSUME UNCHANGED worldVars PROVE Held' = Held
  BY <1>4 DEF worldVars, Held, HeldIn, ViewOf
<1>5. CASE NodeReplies
  BY <1>4, <1>5 DEF NodeReplies, callVars
<1>6. CASE NodeErrs
  BY <1>4, <1>6 DEF NodeErrs, Calls!Next, Calls!Mishap, NoCall, Calls!NoCall
<1>7. ASSUME NEW q \in Question, Ask(q) PROVE Calls!Ask
  BY <1>4, <1>7 DEF Ask, Calls!Ask, NoCall, Calls!NoCall, Question, Calls!Question,
                    NoAnswer, Calls!NoAnswer, Absent, Calls!Absent
<1>8. CASE Receive \/ ConnectionLost \/ AnswerLocally
  <2>1. Ends
    BY <1>8 DEF Ends
  <2>2. call # NoCall
    BY <2>1, EndAllowed, Constants
  <2>3. Calls!Return
    BY <1>4, <2>1, <2>2, EndAllowed DEF Calls!Return, NoCall, Calls!NoCall
  <2> QED BY <2>3 DEF Calls!Next
<1>9. CASE UNCHANGED vars
  BY <1>4, <1>9 DEF vars
<1> QED BY <1>2, <1>3, <1>5, <1>6, <1>7, <1>8, <1>9 DEF Next, Calls!Next

(***************************************************************************)
(* The clients, and the stand-ins the tests use for them, answer as        *)
(* MetashrewCalls says, for every chain, width and order of mishaps.       *)
(***************************************************************************)
THEOREM ClientsImplementCalls == Spec => ImplementsCalls
<1>1. IInv /\ [Next]_vars => [Calls!Next]_Calls!vars
  BY StepRefines
<1>2. Spec => Calls!Spec
  BY InitHolds, NextKeepsInv, InitRefines, <1>1, PTL DEF Spec, Calls!Spec
<1> QED BY <1>2 DEF ImplementsCalls

-----------------------------------------------------------------------------
\* A simulated reorg leaves hashes at exactly the heights of the chain.
LEMMA ReorgKeepsChain ==
  ASSUME TypeOK, SimulatorIsAChain, NEW fork \in HashKey, NEW blocks \in Seq(Data),
         fork + Len(blocks) <= MaxHeight, SimulateReorg(fork, blocks)
  PROVE  SimulatorIsAChain'
<1> SUFFICES ASSUME ~ direct, NEW k \in HashKey
             PROVE  hashes'[k] # Absent <=> k \in 1 .. height'
  BY DEF SimulateReorg, SimulatorIsAChain
<1>1. backend = "memory" /\ fork <= height /\ height' = fork + Len(blocks)
  BY DEF SimulateReorg
<1>2. hashes[k] # Absent <=> k \in 1 .. height
  BY <1>1 DEF SimulatorIsAChain
<1>3. k \in Nat /\ fork \in Nat /\ height \in Nat
  BY Constants DEF TypeOK
<1>4. CASE k <= fork
  BY <1>1, <1>2, <1>3, <1>4 DEF SimulateReorg
<1>5. CASE ~ k <= fork /\ k <= fork + Len(blocks)
  <2>1. hashes'[k] = ForkHash(blocks[k - fork], k - fork - 1)
    BY <1>5 DEF SimulateReorg
  <2>2. hashes'[k] # Absent
    BY <2>1 DEF ForkHash, Absent
  <2> QED BY <1>1, <1>3, <1>5, <2>2
<1>6. CASE ~ k <= fork + Len(blocks)
  <2>1. hashes'[k] = Absent
    BY <1>3, <1>6 DEF SimulateReorg
  <2> QED BY <1>1, <1>3, <1>6, <2>1
<1> QED BY <1>4, <1>5, <1>6

\* So does whatever else drives the simulator.
LEMMA DriveKeepsChain ==
  ASSUME TypeOK, SimulatorIsAChain, Drive
  PROVE  SimulatorIsAChain'
<1>1. CASE AdvanceBlock
  <2> SUFFICES ASSUME ~ direct, NEW k \in HashKey
               PROVE  hashes'[k] # Absent <=> k \in 1 .. height'
    BY <1>1 DEF AdvanceBlock, SimulatorIsAChain
  <2>1. PICK new \in {PlainHash} \cup {DataHash(d) : d \in Data} :
          hashes' = [hashes EXCEPT ![height + 1] = new]
    BY <1>1 DEF AdvanceBlock
  <2>2. new # Absent
    BY <2>1 DEF PlainHash, DataHash, Absent
  <2>3. hashes[k] # Absent <=> k \in 1 .. height
    BY <1>1 DEF AdvanceBlock, SimulatorIsAChain
  <2>4. k \in Nat /\ height \in Nat /\ height' = height + 1
    BY <1>1, Constants DEF TypeOK, AdvanceBlock
  <2> QED BY <2>1, <2>2, <2>3, <2>4 DEF TypeOK
<1>2. CASE \E fork \in HashKey, blocks \in BoundedSeq(Data, MaxBlocks) :
             fork + Len(blocks) <= MaxHeight /\ fork + Len(blocks) < Width
             /\ SimulateReorg(fork, blocks)
  BY <1>2, ReorgKeepsChain, BoundedSeqIsSeq
<1>3. CASE SetHeight
  BY <1>3 DEF SetHeight, SimulatorIsAChain
<1>4. CASE SetBlockHash
  BY <1>4 DEF SetBlockHash, SimulatorIsAChain
<1>5. CASE SetViewResult
  BY <1>5 DEF SetViewResult, SimulatorIsAChain
<1>6. CASE Clear
  BY <1>6, Constants DEF Clear, SimulatorIsAChain, Empty
<1> QED BY <1>1, <1>2, <1>3, <1>4, <1>5, <1>6 DEF Drive

(***************************************************************************)
(* What advance_block and simulate_reorg make of an adapter is a chain,    *)
(* after any number of forks of any length.                                *)
(***************************************************************************)
THEOREM SimulatorWhole == Spec => []SimulatorIsAChain
<1>1. Init => SimulatorIsAChain
  BY Constants DEF Init, SimulatorIsAChain, Empty
<1>2. IInv /\ SimulatorIsAChain /\ [Next]_vars => SimulatorIsAChain'
  <2> SUFFICES ASSUME IInv, SimulatorIsAChain, [Next]_vars PROVE SimulatorIsAChain'
    OBVIOUS
  <2>1. CASE Drive
    BY <2>1, DriveKeepsChain DEF IInv
  <2>2. CASE NodeMines \/ NodeReorgs
    BY <2>2 DEF NodeMines, NodeReorgs, SimulatorIsAChain
  <2>3. CASE NodeReplies \/ NodeErrs \/ UNCHANGED vars \/ \E q \in Question : Ask(q)
    BY <2>3 DEF NodeReplies, NodeErrs, Ask, vars, worldVars, SimulatorIsAChain
  <2>4. CASE Receive \/ ConnectionLost \/ AnswerLocally
    BY <2>4 DEF Receive, ConnectionLost, AnswerLocally, Return, worldVars, SimulatorIsAChain
  <2> QED BY <2>1, <2>2, <2>3, <2>4 DEF Next
<1> QED BY InitHolds, NextKeepsInv, <1>1, <1>2, PTL DEF Spec

=============================================================================
