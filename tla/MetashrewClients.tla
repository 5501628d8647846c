-------------------------- MODULE MetashrewClients --------------------------
(***************************************************************************)
(* The clients of metashrew: JsonRpcClient (debshrew/src/client.rs), which *)
(* sends a request over HTTP and takes the reply apart, and the block      *)
(* synchronizer's own request for the block count; and two stand-ins that  *)
(* keep what they answer in memory: MockMetashrewClient, which tests give  *)
(* to a BlockSynchronizer, and MemoryMetashrewAdapter (adapters.rs), which *)
(* has the same questions in traits of its own but is no MetashrewClient,  *)
(* so that no synchronizer asks it.  The service itself (main.rs) is built *)
(* with JsonRpcClient and nothing else.                                    *)
(*                                                                         *)
(* `height`, `hashes` and `views` are what metashrew, or the stand-in,     *)
(* holds.  A view is asked for by height only (one name, one input), or    *)
(* without height ("latest").  `pipe` is the connection the request and    *)
(* its reply travel on: every call has request id 0, since it clones the   *)
(* client before it counts, and no reply's id is looked at, so it is the   *)
(* connection alone that says which reply belongs to which call.           *)
(***************************************************************************)
EXTENDS Integers, Sequences, SequencesExt

CONSTANTS
  MaxHeight,   \* bound: the highest block
  MaxReorgs,   \* bound: reorgs of the metashrew server
  MaxBlocks,   \* bound: the new blocks of one simulate_reorg
  ViewHeights, \* bound: the heights a view is asked for
  Data,        \* block data the tests pass to the simulator
  Width        \* one more than the largest u32

ASSUME ClientsAssumption ==
  /\ MaxHeight \in Nat \ {0}
  /\ MaxReorgs \in Nat /\ MaxBlocks \in Nat
  /\ ViewHeights \subseteq 0 .. MaxHeight
  /\ Data \subseteq Nat
  /\ Width \in Nat \ {0, 1}

HashKey == 0 .. MaxHeight
Latest == -1
ViewKey == {Latest} \cup ViewHeights

VARIABLES
  backend,   \* which client is asked
  height,    \* the height held
  hashes,    \* the block hash held for each height
  views,     \* a stand-in's view results
  branch,    \* metashrew: the branch new blocks are mined on
  direct,    \* has a test set a height or a hash past the simulator?
  pipe,      \* the connection: the request, then its reply
  call, seen, faulty, answer   \* as in MetashrewCalls

worldVars == <<backend, height, hashes, views, branch, direct>>
callVars == <<call, faulty, answer>>
vars == <<worldVars, pipe, call, seen, faulty, answer>>

Question == ({"height", "count", "healthy"} \X {0})
            \cup ({"hash"} \X HashKey) \cup ({"view"} \X ViewKey)
NoCall == <<"none", 0>>

Number(n) == <<"number", n, 0>>
Absent == <<"absent", 0, 0>>
Answered(v) == <<"ok", v>>
Unavailable == <<"unavailable", Absent>>
Failed == <<"failed", Absent>>
NoAnswer == <<"none", Absent>>

\* Block hashes: metashrew's name the branch, the simulator's depend on the
\* data it is given and nothing before it; `height` is hashed with them.
NodeHash(b) == <<"node", b, 0>>
PlainHash == <<"plain", 0, 0>>
DataHash(d) == <<"data", d, 0>>
ForkHash(d, i) == <<"fork", d, i>>
Result(d) == <<"set", d, 0>>

Value == {"absent", "number", "node", "plain", "data", "fork", "set"} \X Nat \X Nat

\* A view of metashrew shows the block; a stand-in's the result that was set.
ViewOf(hs, vs, n, key) ==
  IF backend # "rpc" THEN vs[key] ELSE hs[IF key = Latest THEN n ELSE key]

HeldIn(n, hs, vs) ==
  [q \in Question |-> IF q[1] = "hash" THEN hs[q[2]]
                      ELSE IF q[1] = "view" THEN ViewOf(hs, vs, n, q[2])
                      ELSE Number(n)]

Held == HeldIn(height, hashes, views)

\* What a change of the world adds to `seen`.
Witnessed ==
  seen' = IF call = NoCall THEN seen
          ELSE seen \cup {HeldIn(height', hashes', views')[call]}

Empty == [k \in HashKey |-> Absent]

Init ==
  /\ backend \in {"rpc", "memory", "mock"}
  /\ height = 0
  /\ hashes = IF backend = "rpc" THEN [Empty EXCEPT ![0] = NodeHash(0)] ELSE Empty
  /\ views = [k \in ViewKey |-> Absent]
  /\ branch = 0
  /\ direct = FALSE
  /\ pipe = << >>
  /\ call = NoCall
  /\ seen = {}
  /\ faulty = FALSE
  /\ answer = NoAnswer

-----------------------------------------------------------------------------
(***************************************************************************)
(* metashrew: its chain grows and reorganises under the calls.             *)
(***************************************************************************)
NodeMines ==
  /\ backend = "rpc"
  /\ height < MaxHeight
  /\ height' = height + 1
  /\ hashes' = [hashes EXCEPT ![height + 1] = NodeHash(branch)]
  /\ UNCHANGED <<backend, views, branch, direct, pipe, callVars>>
  /\ Witnessed

NodeReorgs ==
  /\ backend = "rpc"
  /\ branch < MaxReorgs
  /\ branch' = branch + 1
  /\ height' \in 0 .. height - 1
  /\ hashes' = [k \in HashKey |-> IF k <= height' THEN hashes[k] ELSE Absent]
  /\ UNCHANGED <<backend, views, direct, pipe, callVars>>
  /\ Witnessed

-----------------------------------------------------------------------------
(***************************************************************************)
(* MemoryMetashrewAdapter: clones share one state behind a mutex, which    *)
(* each operation holds from its start to its end, so that one clone may   *)
(* be driven before another answers.  MockMetashrewClient is driven only   *)
(* between calls: its setters take &mut self.                              *)
(***************************************************************************)
MayDrive == backend = "memory" \/ (backend = "mock" /\ call = NoCall)

AdvanceBlock ==
  /\ backend = "memory"
  /\ height < MaxHeight /\ height + 1 < Width
  /\ height' = height + 1
  /\ \E new \in {PlainHash} \cup {DataHash(d) : d \in Data} :
       hashes' = [hashes EXCEPT ![height + 1] = new]
  /\ UNCHANGED <<backend, views, branch, direct, pipe, callVars>>
  /\ Witnessed

\* A slip the runs must notice: the old chain's hashes are left in place.
SimulateReorgKeepingOld(fork, blocks) ==
  /\ backend = "memory"
  /\ fork <= height
  /\ height' = fork + Len(blocks)
  /\ hashes' = [k \in HashKey |->
                  IF k \in fork + 1 .. fork + Len(blocks)
                  THEN ForkHash(blocks[k - fork], k - fork - 1)
                  ELSE hashes[k]]
  /\ UNCHANGED <<backend, views, branch, direct, pipe, callVars>>
  /\ Witnessed

\* The view results stay: a view of a replaced block answers as before.
SimulateReorg(fork, blocks) ==
  /\ backend = "memory"
  /\ fork <= height
  /\ height' = fork + Len(blocks)
  /\ hashes' = [k \in HashKey |->
                  IF k <= fork THEN hashes[k]
                  ELSE IF k <= fork + Len(blocks)
                       THEN ForkHash(blocks[k - fork], k - fork - 1)
                       ELSE Absent]
  /\ UNCHANGED <<backend, views, branch, direct, pipe, callVars>>
  /\ Witnessed

SetHeight ==
  /\ MayDrive
  /\ height' \in {k \in HashKey : k < Width}
  /\ direct' = TRUE
  /\ UNCHANGED <<backend, hashes, views, branch, pipe, callVars>>
  /\ Witnessed

\* An empty hash stands for none in the mock's vector.
SetBlockHash ==
  /\ MayDrive
  /\ \E k \in HashKey, new \in {Result(d) : d \in Data}
                               \cup IF backend = "mock" THEN {Absent} ELSE {} :
       hashes' = [hashes EXCEPT ![k] = new]
  /\ direct' = TRUE
  /\ UNCHANGED <<backend, height, views, branch, pipe, callVars>>
  /\ Witnessed

\* The adapter's map takes the new result; the mock's list finds the first.
SetViewResult ==
  /\ MayDrive
  /\ \E key \in ViewKey, d \in Data :
       views' = IF backend = "mock" /\ views[key] # Absent THEN views
                ELSE [views EXCEPT ![key] = Result(d)]
  /\ UNCHANGED <<backend, height, hashes, branch, direct, pipe, callVars>>
  /\ Witnessed

Clear ==
  /\ backend = "memory"
  /\ height' = 0
  /\ hashes' = Empty
  /\ views' = [k \in ViewKey |-> Absent]
  /\ direct' = FALSE
  /\ UNCHANGED <<backend, branch, pipe, callVars>>
  /\ Witnessed

-----------------------------------------------------------------------------
(***************************************************************************)
(* A call.  process_block tells a missing block from a failure by looking  *)
(* for two phrases in the text of the error: what a reply makes the text   *)
(* say is kept as the set of those phrases.                                *)
(***************************************************************************)
Phrases == {"block_hash_not_found", "code_32000"}

Request(q) == [kind |-> "request", says |-> {}, value |-> <<q[1], 0, 0>>]

Reply == [kind : {"result", "error", "status", "malformed"},
          says : SUBSET Phrases, value : Value]

\* is_healthy asks for the height; the count goes to the same server.
Ask(q) ==
  /\ call = NoCall
  /\ q[1] = "count" => backend = "rpc"
  /\ call' = q
  /\ pipe' = IF backend = "rpc" THEN Append(pipe, Request(q)) ELSE pipe
  /\ seen' = {Held[q]}
  /\ faulty' = FALSE
  /\ answer' = NoAnswer
  /\ UNCHANGED worldVars

\* The first request on the connection that has no reply yet.
Unanswered == {i \in DOMAIN pipe : pipe[i].kind = "request"
                                   /\ \A j \in 1 .. i - 1 : pipe[j].kind # "request"}

\* A result, with or without 0x; an error that names what is missing.
Truth(v) ==
  IF v # Absent THEN {[kind |-> "result", says |-> {}, value |-> v]}
  ELSE [kind : {"error"}, says : (SUBSET Phrases) \ {{}}, value : {Absent}]

NodeReplies ==
  /\ call # NoCall
  /\ \E i \in Unanswered, reply \in Truth(Held[call]) :
       pipe' = [pipe EXCEPT ![i] = reply]
  /\ UNCHANGED <<worldVars, seen, callVars>>

\* An HTTP error (whose body may hold a result all the same), an error that
\* has nothing to do with the question, a body that is not JSON-RPC, a result
\* that is none or not hex.
Trouble ==
  [kind : {"status"}, says : {{}}, value : {Absent, Held[call]}]
  \cup [kind : {"error", "malformed"}, says : SUBSET Phrases, value : {Absent}]
  \cup [kind : {"result"}, says : {{}}, value : {Absent}]

NodeErrs ==
  /\ call # NoCall
  /\ \E i \in Unanswered, reply \in Trouble : pipe' = [pipe EXCEPT ![i] = reply]
  /\ faulty' = TRUE
  /\ UNCHANGED <<worldVars, call, seen, answer>>

-----------------------------------------------------------------------------
\* send_request returns a result that get_block_hash or call_view can decode.
IsResult(reply) == reply.kind = "result" /\ reply.value # Absent

\* get_height: the text of the height as a u32.
IsHeight(reply) == IsResult(reply) /\ reply.value[2] < Width

\* A slip the runs must notice: the count is not cut.
CountUncut(reply) ==
  IF reply.kind \in {"result", "status"} /\ reply.value # Absent
  THEN reply.value[2] ELSE 1

\* get_actual_block_count looks neither at the status nor at the error field,
\* cuts the count to 32 bits, and has a default for everything else.
CountOf(reply) ==
  IF reply.kind \in {"result", "status"} /\ reply.value # Absent
  THEN reply.value[2] % Width ELSE 1

BlockHash(reply) ==
  IF IsResult(reply) THEN Answered(reply.value)
  ELSE IF reply.says # {} THEN Unavailable ELSE Failed

Outcome(reply) ==
  CASE call[1] = "hash"    -> BlockHash(reply)
    [] call[1] = "view"    -> IF IsResult(reply) THEN Answered(reply.value) ELSE Failed
    [] call[1] = "height"  -> IF IsHeight(reply) THEN Answered(reply.value) ELSE Failed
    [] call[1] = "healthy" -> Answered(Number(IF IsHeight(reply) THEN 1 ELSE 0))
    [] call[1] = "count"   -> Answered(Number(CountOf(reply)))

Return(reply) ==
  /\ answer' = Outcome(reply)
  /\ call' = NoCall
  /\ seen' = {}
  /\ UNCHANGED worldVars

Receive ==
  /\ call # NoCall
  /\ pipe # << >> /\ Head(pipe).kind # "request"
  /\ Return(Head(pipe))
  /\ pipe' = Tail(pipe)
  /\ UNCHANGED faulty

\* No reply: "Failed to send request: ..".
NoReply == [kind |-> "status", says |-> {}, value |-> Absent]

\* A slip the runs must notice: a call that is given up keeps its connection.
ConnectionKept ==
  /\ backend = "rpc"
  /\ call # NoCall
  /\ Return(NoReply)
  /\ faulty' = TRUE
  /\ UNCHANGED pipe

\* The connection fails, and whatever was on it is lost.
ConnectionLost ==
  /\ backend = "rpc"
  /\ call # NoCall
  /\ Return(NoReply)
  /\ faulty' = TRUE
  /\ pipe' = << >>

\* A slip the runs must notice: the client is built without a timeout.
TimeoutForViewsOnly == call[1] = "view" /\ ConnectionLost

\* The client was built with the configured timeout; the one that asks for
\* the block count, in get_actual_block_count, without any.
Timeout == call[1] # "count" /\ ConnectionLost

\* A stand-in answers from its own state, and names a missing block hash.
AnswerLocally ==
  /\ backend # "rpc"
  /\ call # NoCall
  /\ Return(IF Held[call] = Absent
            THEN [kind  |-> "error",
                  says  |-> IF call[1] = "hash" THEN {"block_hash_not_found"} ELSE {},
                  value |-> Absent]
            ELSE [kind |-> "result", says |-> {}, value |-> Held[call]])
  /\ UNCHANGED <<faulty, pipe>>

-----------------------------------------------------------------------------
Drive ==
  \/ AdvanceBlock
  \/ \E fork \in HashKey, blocks \in BoundedSeq(Data, MaxBlocks) :
       fork + Len(blocks) <= MaxHeight /\ fork + Len(blocks) < Width /\ SimulateReorg(fork, blocks)
  \/ SetHeight \/ SetBlockHash \/ SetViewResult \/ Clear

Next ==
  \/ NodeMines \/ NodeReorgs \/ NodeReplies \/ NodeErrs
  \/ Drive
  \/ \E q \in Question : Ask(q)
  \/ Receive \/ ConnectionLost \/ AnswerLocally

Spec == Init /\ [][Next]_vars

\* The client's own steps: a reply that came is read, the timer fires, a
\* stand-in answers at once.  Nothing makes metashrew reply.
FairSpec == Spec /\ WF_vars(Receive) /\ WF_vars(Timeout) /\ WF_vars(AnswerLocally)

-----------------------------------------------------------------------------
(***************************************************************************)
(* Properties.                                                             *)
(***************************************************************************)

\* Every variable has its type, and a connection carries one call at most.
TypeOK ==
  /\ backend \in {"rpc", "memory", "mock"}
  /\ height \in HashKey
  /\ hashes \in [HashKey -> Value]
  /\ views \in [ViewKey -> Value]
  /\ branch \in 0 .. MaxReorgs
  /\ direct \in BOOLEAN
  /\ pipe \in Seq(Reply \cup {Request(q) : q \in Question}) /\ Len(pipe) <= 1
  /\ call \in Question \cup {NoCall}
  /\ seen \subseteq Value
  /\ faulty \in BOOLEAN
  /\ answer \in {"ok", "unavailable", "failed", "none"} \X Value

Calls == INSTANCE MetashrewCalls
         WITH held <- Held

(***************************************************************************)
(* Whatever metashrew, the network and the timer do, a call ends with what *)
(* metashrew held for this very question while it was asked, or with the   *)
(* default or error the caller expects, and not without a reason; so does  *)
(* a call of a stand-in.                                                   *)
(***************************************************************************)
ImplementsCalls == Calls!Spec

(***************************************************************************)
(* Every call made through a client that has a timeout returns, even if    *)
(* metashrew never replies.                                                *)
(***************************************************************************)
CallReturns == (call # NoCall /\ call[1] # "count") ~> (call = NoCall)

(***************************************************************************)
(* A chain that a test makes with advance_block and simulate_reorg alone   *)
(* has a hash at each height from 1 to its own and at no other, so that    *)
(* get_height and get_block_hash agree on it.                              *)
(***************************************************************************)
SimulatorIsAChain ==
  backend = "memory" /\ ~ direct =>
    \A k \in HashKey : hashes[k] # Absent <=> k \in 1 .. height

=============================================================================
