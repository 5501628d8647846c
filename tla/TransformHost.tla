--------------------------- MODULE TransformHost ---------------------------
(***************************************************************************)
(* Runs of a transform: WasmRuntime::process_block and rollback with their *)
(* host functions (debshrew/src/runtime.rs), and the guest library through *)
(* which the transform calls them and declare_transform!'s entry points    *)
(* (debshrew-runtime/src/lib.rs).                                          *)
(*                                                                         *)
(* Guest and host share one buffer, view_result: __view leaves an answer   *)
(* there and returns its length, __load copies ALL of it to an address the *)
(* guest chooses.  A call of the guest library (view, get_block_hash) is   *)
(* one step: nothing runs between its two host calls.                      *)
(*                                                                         *)
(* A byte is known by where it came from: <<r, c>> is a byte of what the   *)
(* c-th call of run r was answered, <<r, 0>> a byte of the hash of the     *)
(* block of run r, Zero a byte of a fresh guest buffer.                    *)
(***************************************************************************)
EXTENDS Integers, Sequences

CONSTANTS
  MaxRuns,      \* bound: calls of process_block and rollback
  MaxCalls,     \* bound: guest library calls of one run
  MaxAnswer,    \* bound: bytes of a view's answer
  MaxLength,    \* the largest number of an i32: the largest length __view can announce
  HashLength,   \* bytes of a block hash
  MaxHeight     \* bound: heights

ASSUME HostAssumption ==
  /\ MaxRuns \in Nat /\ MaxCalls \in Nat /\ MaxAnswer \in Nat
  /\ MaxLength \in Nat
  /\ HashLength \in 1 .. MaxLength
  /\ MaxHeight \in Nat \ {0}

Height == 1 .. MaxHeight

\* How many numbers an i32 has, 2^32, and how many bytes a guest's memory.
Width == 2 * (MaxLength + 1)

Byte == (0 .. MaxRuns) \X (0 .. MaxCalls)

Zero == <<0, 0>>

Bytes(byte, n) == [i \in 1 .. n |-> byte]

\* What serde_json makes of the messages: within the length the host reads, or not.
Emission == {"empty", "messages", "too_long"}

\* cdc_cache has no entry for a height, a transform has emitted nothing for it.
NotCached == "not_cached"

VARIABLES
  status,      \* "idle", "running" (a transform runs) or "stopped" (an error)
  mode,        \* the function that runs, or ran last
  runs,        \* how many runs so far: the number of this one
  calls,       \* guest library calls of this run
  height,      \* current_height
  memory,      \* the runs whose transform the guest's INSTANCE keeps
  viewResult,  \* view_result of this run's store
  answer,      \* what metashrew answered this run's last view call
  result,      \* what the last guest library call returned
  corrupt,     \* __load has written past a guest buffer in this run
  cdcCache,    \* cdc_cache
  emitted,     \* what the transform last emitted for a height, as it sees it
  origins      \* the runs whose answers this run was given bytes of

vars == <<status, mode, runs, calls, height, memory, viewResult, answer, result,
          corrupt, cdcCache, emitted, origins>>

NoResult == [call |-> "none", ok |-> FALSE, bytes |-> << >>]

Init ==
  /\ status = "idle"
  /\ mode = "block"
  /\ runs = 0
  /\ calls = 0
  /\ height = 1
  /\ memory = {}
  /\ viewResult = << >>
  /\ answer = << >>
  /\ result = NoResult
  /\ corrupt = FALSE
  /\ cdcCache = [k \in Height |-> NotCached]
  /\ emitted = [k \in Height |-> NotCached]
  /\ origins = {}

\* process_block and rollback alike: the same host functions, a new instance.
\* The same height may come again, after a reorg.
Begin(m, k) ==
  /\ status = "idle"
  /\ runs < MaxRuns
  /\ status' = "running"
  /\ mode' = m
  /\ runs' = runs + 1
  /\ calls' = 0
  /\ height' = k
  /\ result' = NoResult
  /\ corrupt' = FALSE
  /\ UNCHANGED <<cdcCache, emitted>>

\* The new store's shared buffer and the new instance's INSTANCE are empty:
\* load() gives the transform its default.
NewStore ==
  /\ viewResult' = << >>
  /\ answer' = << >>
  /\ memory' = {}
  /\ origins' = {}

\* Slips the runs must notice: the height handed on is one too many, and the
\* shared buffer is kept by the runtime, which nobody clears.
StartRunOneAbove(k) == Begin("block", k + 1) /\ NewStore

StartRunKeepingView(k) ==
  /\ Begin("block", k)
  /\ answer' = << >>
  /\ memory' = {}
  /\ origins' = {}
  /\ UNCHANGED viewResult

StartRun(k) == Begin("block", k) /\ NewStore

StartRollback(k) == Begin("rollback", k) /\ NewStore

-----------------------------------------------------------------------------
(***************************************************************************)
(* The guest library.                                                      *)
(***************************************************************************)
Calls ==
  /\ status = "running"
  /\ ~ corrupt
  /\ calls < MaxCalls
  /\ calls' = calls + 1
  /\ UNCHANGED <<status, mode, runs, height, memory, cdcCache, emitted>>

Return(call, ok, bytes) ==
  /\ result' = [call |-> call, ok |-> ok, bytes |-> bytes]
  /\ origins' = origins \cup {bytes[i][1] : i \in DOMAIN bytes}

Fails(call) ==
  /\ Return(call, FALSE, << >>)
  /\ UNCHANGED corrupt

\* A zeroed buffer of n bytes, with what __load wrote of data into it.
Loaded(data, n) == [i \in 1 .. n |-> IF i <= Len(data) THEN data[i] ELSE Zero]

(***************************************************************************)
(* __load into a fresh buffer of n bytes, and the buffer as the result.    *)
(* Data longer than the buffer goes beyond it, or, where that is beyond    *)
(* the guest's memory, is not written at all; data of Width bytes or more  *)
(* always is beyond it.                                                    *)
(***************************************************************************)
LoadAndReturn(call, data, n) ==
  \/ /\ Len(data) < Width
     /\ Return(call, TRUE, Loaded(data, n))
     /\ corrupt' = (Len(data) > n)
  \/ /\ Len(data) > n
     /\ Return(call, TRUE, Bytes(Zero, n))
     /\ UNCHANGED corrupt

\* `data.len() as i32`: the low bits, read as a signed number.
Announced(n) ==
  LET low == n % Width
  IN  IF low <= MaxLength THEN low ELSE low - Width

\* A slip the runs must notice: the first answer stays in the shared buffer.
ViewKeepsFirst ==
  /\ Calls
  /\ \E n \in 0 .. MaxAnswer :
       /\ answer' = Bytes(<<runs, calls + 1>>, n)
       /\ viewResult' = IF viewResult = << >> THEN answer' ELSE viewResult
       /\ \/ Announced(n) <= 0 /\ Fails("view")
          \/ Announced(n) > 0 /\ LoadAndReturn("view", viewResult', Announced(n))

\* view: the answer is stored and its length announced; it is loaded unless the
\* guest reads an error in the length, zero or negative.
View ==
  /\ Calls
  /\ \E n \in 0 .. MaxAnswer :
       /\ answer' = Bytes(<<runs, calls + 1>>, n)
       /\ viewResult' = answer'
       /\ \/ Announced(n) <= 0 /\ Fails("view")
          \/ Announced(n) > 0 /\ LoadAndReturn("view", viewResult', Announced(n))

\* view, when its arguments cannot be read or metashrew gives no answer: the
\* shared buffer stays as it was.
ViewFails ==
  /\ Calls
  /\ Fails("view")
  /\ UNCHANGED <<viewResult, answer>>

\* get_block_hash: __block_hash announces a length and stores nothing.
GetBlockHash ==
  /\ Calls
  /\ LoadAndReturn("hash", viewResult, HashLength)
  /\ UNCHANGED <<viewResult, answer>>

\* get_state, set_state, delete_state: the host has no state to give or take.
StateCall ==
  /\ Calls
  /\ Fails("state")
  /\ UNCHANGED <<viewResult, answer>>

-----------------------------------------------------------------------------
(***************************************************************************)
(* The end of a run.                                                       *)
(***************************************************************************)

\* declare_transform!: the transform returned Ok, and INSTANCE keeps it.
Saved ==
  /\ status = "running"
  /\ status' = "idle"
  /\ memory' = memory \cup {runs}
  /\ UNCHANGED <<mode, runs, calls, height, viewResult, answer, result, corrupt, origins>>

\* What the host takes from guest memory: too long a list is taken as empty.
Decoded(emission) == IF emission = "too_long" THEN "empty" ELSE emission

\* A slip the runs must notice: an empty list is not cached.
FinishCachingSome(emission) ==
  /\ mode = "block"
  /\ Saved
  /\ emitted' = [emitted EXCEPT ![height] = emission]
  /\ cdcCache' = IF Decoded(emission) = "empty" THEN cdcCache
                 ELSE [cdcCache EXCEPT ![height] = Decoded(emission)]

\* process_block returns the messages, which lie at an address below 2^31.
Finish(emission) ==
  /\ mode = "block"
  /\ Saved
  /\ emitted' = [emitted EXCEPT ![height] = emission]
  /\ cdcCache' = [cdcCache EXCEPT ![height] = Decoded(emission)]

\* rollback returns its messages, of whatever length, and caches nothing.
FinishRollback ==
  /\ mode = "rollback"
  /\ Saved
  /\ UNCHANGED <<cdcCache, emitted>>

(***************************************************************************)
(* process_block or rollback returns Err, and the service ends: the        *)
(* transform returned Err (-1) or trapped, its messages lie at an address  *)
(* that is negative as an i32, or what lies there is no list of messages.  *)
(***************************************************************************)
FinishFails ==
  /\ status = "running"
  /\ status' = "stopped"
  /\ UNCHANGED <<mode, runs, calls, height, memory, viewResult, answer, result,
                 corrupt, cdcCache, emitted, origins>>

Next ==
  \/ \E k \in Height : StartRun(k) \/ StartRollback(k)
  \/ View \/ ViewFails \/ GetBlockHash \/ StateCall
  \/ \E emission \in Emission : Finish(emission)
  \/ FinishRollback \/ FinishFails

Spec == Init /\ [][Next]_vars

-----------------------------------------------------------------------------
(***************************************************************************)
(* Properties.                                                             *)
(***************************************************************************)
CacheEntry == Emission \cup {NotCached}

\* Every variable has its type.
TypeOK ==
  /\ status \in {"idle", "running", "stopped"}
  /\ mode \in {"block", "rollback"}
  /\ memory \subseteq 0 .. MaxRuns
  /\ runs \in 0 .. MaxRuns /\ calls \in 0 .. MaxCalls
  /\ height \in Height
  /\ viewResult \in Seq(Byte) /\ answer \in Seq(Byte)
  /\ result \in [call : {"none", "view", "hash", "state"}, ok : BOOLEAN, bytes : Seq(Byte)]
  /\ corrupt \in BOOLEAN
  /\ cdcCache \in [Height -> CacheEntry]
  /\ emitted \in [Height -> CacheEntry]
  /\ origins \subseteq 0 .. MaxRuns

(***************************************************************************)
(* A view that returns Ok writes nothing past the guest's buffer, and, if  *)
(* the answer is shorter than Width bytes, returns the whole answer of     *)
(* that very call, whatever the calls before left in the shared buffer.    *)
(* Of a longer answer the guest gets as many zeros as the cut length says, *)
(* and no error.                                                           *)
(***************************************************************************)
ViewReturnsAnswer ==
  result.call = "view" /\ result.ok =>
    /\ ~ corrupt
    /\ Len(answer) < Width => result.bytes = answer

(***************************************************************************)
(* docs/cdc-concepts.md:155-161: a block gives the same messages when it   *)
(* is processed again.  So no byte an earlier run, of any block, was       *)
(* answered may reach a transform through the shared buffer, which         *)
(* get_block_hash loads without a view before it.                          *)
(***************************************************************************)
NothingFromEarlierRuns == origins \subseteq {0, runs}

(***************************************************************************)
(* cdc_cache holds, for every height, what the transform emitted when it   *)
(* last processed that height, also when a later run failed, emitted       *)
(* nothing, or was a rollback; but nothing of a list that was too long.    *)
(***************************************************************************)
CachedIsLatest ==
  \A k \in Height :
    cdcCache[k] = IF emitted[k] = "too_long" THEN "empty" ELSE emitted[k]

\* The strengthening: the shared buffer holds bytes of this run only.
OwnBytes == \A i \in DOMAIN viewResult : viewResult[i][1] = runs

IInv ==
  /\ TypeOK
  /\ ViewReturnsAnswer
  /\ NothingFromEarlierRuns
  /\ CachedIsLatest
  /\ OwnBytes

-----------------------------------------------------------------------------
(***************************************************************************)
(* docs/wasm-transform-guide.md:165: get_block_hash gets "the current      *)
(* block hash".  It returns what the last view left in the shared buffer.  *)
(***************************************************************************)
BlockHashIsCurrent ==
  result.call = "hash" => result.bytes = Bytes(<<runs, 0>>, HashLength)

(***************************************************************************)
(* docs/wasm-transform-guide.md:197: the state of a transform is           *)
(* "Persisted between block processing", and declare_transform! saves it   *)
(* after every run (debshrew-runtime/src/lib.rs:192).  So a transform      *)
(* finds in INSTANCE what every run before it saved there.  It finds       *)
(* nothing: each run has a store, and so a guest memory, of its own.       *)
(***************************************************************************)
StateLasts == status = "running" => 1 .. runs - 1 \subseteq memory

=============================================================================
