------------------------ MODULE TransformHostProofs ------------------------
(***************************************************************************)
(* The safety properties of TransformHost, for any number of runs, calls   *)
(* and heights, and any lengths of answers, those an i32 cannot count      *)
(* among them.                                                             *)
(***************************************************************************)
EXTENDS TransformHost, TLAPS

\* The bounds are numbers.
LEMMA Constants ==
  /\ MaxRuns \in Nat /\ MaxCalls \in Nat /\ MaxAnswer \in Nat
  /\ MaxLength \in Nat /\ Width \in Nat /\ Width = 2 * (MaxLength + 1)
  /\ HashLength \in Nat /\ 0 < HashLength /\ HashLength < Width
  /\ MaxHeight \in Nat /\ 1 \in Height
  BY HostAssumption DEF Height, Width

\* The announced length is a number; below Width, if positive, it is the length.
LEMMA AnnouncedIs ==
  ASSUME NEW n \in Nat
  PROVE  /\ Announced(n) \in Int
         /\ n < Width /\ Announced(n) > 0 => Announced(n) = n
<1>1. n % Width \in Int /\ (n < Width => n % Width = n)
  BY Constants
<1> QED BY <1>1, Constants DEF Announced

\* A run of one byte is a byte string of that length.
LEMMA BytesType ==
  ASSUME NEW byte \in Byte, NEW n \in Nat
  PROVE  /\ Bytes(byte, n) \in Seq(Byte) /\ Len(Bytes(byte, n)) = n
         /\ \A i \in DOMAIN Bytes(byte, n) : Bytes(byte, n)[i] = byte
<1>1. Bytes(byte, n) \in [1 .. n -> Byte]
  BY DEF Bytes
<1> QED BY <1>1 DEF Bytes

\* What a guest buffer holds after __load is a byte string of its length, made
\* of zeros and of the data's bytes; of a buffer as long as the data, the data.
LEMMA LoadedType ==
  ASSUME NEW data \in Seq(Byte), NEW n \in Nat
  PROVE  /\ Loaded(data, n) \in Seq(Byte)
         /\ \A i \in DOMAIN Loaded(data, n) :
              \/ Loaded(data, n)[i] = Zero
              \/ i \in DOMAIN data /\ Loaded(data, n)[i] = data[i]
         /\ Len(data) = n => Loaded(data, n) = data
<1>1. Zero \in Byte
  BY Constants DEF Zero, Byte
<1>2. \A i \in 1 .. n : i <= Len(data) => i \in DOMAIN data /\ data[i] \in Byte
  OBVIOUS
<1>3. Loaded(data, n) \in [1 .. n -> Byte]
  BY <1>1, <1>2 DEF Loaded
<1>4. Loaded(data, n) \in Seq(Byte)
  BY <1>3
<1>5. \A i \in DOMAIN Loaded(data, n) :
        \/ Loaded(data, n)[i] = Zero
        \/ i \in DOMAIN data /\ Loaded(data, n)[i] = data[i]
  BY <1>2 DEF Loaded
<1>6. ASSUME Len(data) = n PROVE Loaded(data, n) = data
  <2>1. Loaded(data, n) = [i \in 1 .. n |-> data[i]]
    BY <1>6 DEF Loaded
  <2> QED BY <2>1, <1>6
<1> QED BY <1>4, <1>5, <1>6

(***************************************************************************)
(* What LoadAndReturn does with data of this run: the result has its type  *)
(* and its bytes come from this run or are zero; when the buffer is as     *)
(* long as the data, the result is the data and nothing is overwritten,    *)
(* and nothing is by data too long for the guest's memory.                 *)
(***************************************************************************)
LEMMA LoadReturns ==
  ASSUME TypeOK, NothingFromEarlierRuns, runs' = runs,
         NEW call \in {"view", "hash"}, NEW data \in Seq(Byte), NEW n \in Nat,
         \A i \in DOMAIN data : data[i][1] = runs,
         LoadAndReturn(call, data, n)
  PROVE  /\ result' \in [call : {"none", "view", "hash", "state"}, ok : BOOLEAN, bytes : Seq(Byte)]
         /\ result'.call = call
         /\ corrupt' \in BOOLEAN
         /\ origins' \subseteq {0, runs}
         /\ Len(data) = n => result'.bytes = data /\ corrupt' = FALSE
         /\ ~ (Len(data) < Width) => corrupt' = corrupt
<1>0. runs \in 0 .. MaxRuns /\ corrupt \in BOOLEAN /\ origins \subseteq {0, runs}
  BY DEF TypeOK, NothingFromEarlierRuns
<1>1. Zero \in Byte /\ Zero[1] = 0
  BY Constants DEF Zero, Byte
<1>2. ASSUME NEW bytes \in Seq(Byte), Return(call, TRUE, bytes),
             \A i \in DOMAIN bytes : bytes[i][1] \in {0, runs}
      PROVE  /\ result' \in [call : {"none", "view", "hash", "state"}, ok : BOOLEAN, bytes : Seq(Byte)]
             /\ result'.call = call /\ result'.bytes = bytes
             /\ origins' \subseteq {0, runs}
  BY <1>2, <1>0 DEF Return
<1>3. CASE /\ Len(data) < Width
           /\ Return(call, TRUE, Loaded(data, n))
           /\ corrupt' = (Len(data) > n)
  <2>1. ASSUME NEW i \in DOMAIN Loaded(data, n)
        PROVE  Loaded(data, n)[i][1] \in {0, runs}
    <3>1. CASE Loaded(data, n)[i] = Zero
      BY <3>1, <1>1
    <3>2. CASE i \in DOMAIN data /\ Loaded(data, n)[i] = data[i]
      BY <3>2
    <3> QED BY <3>1, <3>2, LoadedType
  <2>2. Loaded(data, n) \in Seq(Byte) /\ (Len(data) = n => Loaded(data, n) = data)
    BY LoadedType
  <2>3. corrupt' \in BOOLEAN /\ (corrupt' <=> Len(data) > n)
    <3> DEFINE past == Len(data) > n
    <3>1. past \in BOOLEAN
      OBVIOUS
    <3>2. corrupt' = past
      BY <1>3
    <3> HIDE DEF past
    <3>3. corrupt' \in BOOLEAN /\ (corrupt' <=> past)
      BY <3>1, <3>2
    <3> QED BY <3>3 DEF past
  <2>4. Len(data) = n => ~ (Len(data) > n)
    OBVIOUS
  <2>5. Len(data) = n => corrupt' = FALSE
    BY <2>3, <2>4, Zenon
  <2>6. /\ result' \in [call : {"none", "view", "hash", "state"}, ok : BOOLEAN, bytes : Seq(Byte)]
        /\ result'.call = call /\ result'.bytes = Loaded(data, n)
        /\ origins' \subseteq {0, runs}
    BY <1>2, <1>3, <2>1, <2>2
  <2> QED BY <1>3, <2>2, <2>3, <2>5, <2>6
<1>4. CASE Len(data) > n /\ Return(call, TRUE, Bytes(Zero, n)) /\ UNCHANGED corrupt
  <2>1. /\ Bytes(Zero, n) \in Seq(Byte)
        /\ \A i \in DOMAIN Bytes(Zero, n) : Bytes(Zero, n)[i][1] = 0
    BY <1>1, BytesType
  <2>2. Len(data) # n
    BY <1>4
  <2> QED BY <1>0, <1>2, <1>4, <2>1, <2>2
<1> QED BY <1>3, <1>4 DEF LoadAndReturn

-----------------------------------------------------------------------------
\* The runtime starts in the invariant.
LEMMA InitInductive == Init => IInv
<1>. SUFFICES ASSUME Init PROVE IInv
  OBVIOUS
<1>1. TypeOK
  <2>1. << >> \in Seq(Byte)
    OBVIOUS
  <2>2. NoResult \in [call : {"none", "view", "hash", "state"}, ok : BOOLEAN, bytes : Seq(Byte)]
    BY <2>1 DEF NoResult
  <2>3. [k \in Height |-> NotCached] \in [Height -> CacheEntry]
    BY DEF CacheEntry
  <2>4. status \in {"idle", "running", "stopped"} /\ corrupt \in BOOLEAN
        /\ mode \in {"block", "rollback"} /\ memory \subseteq 0 .. MaxRuns
    BY DEF Init
  <2>5. runs \in 0 .. MaxRuns /\ calls \in 0 .. MaxCalls /\ height \in Height
    BY Constants DEF Init
  <2>6. origins \subseteq 0 .. MaxRuns
    BY DEF Init
  <2>7. cdcCache \in [Height -> CacheEntry] /\ emitted \in [Height -> CacheEntry]
    BY <2>3, Zenon DEF Init
  <2>8. viewResult \in Seq(Byte) /\ answer \in Seq(Byte)
    BY <2>1 DEF Init
  <2>9. result \in [call : {"none", "view", "hash", "state"}, ok : BOOLEAN, bytes : Seq(Byte)]
    BY <2>2 DEF Init
  <2> QED BY <2>4, <2>5, <2>6, <2>7, <2>8, <2>9 DEF TypeOK
<1>2. ViewReturnsAnswer /\ NothingFromEarlierRuns /\ CachedIsLatest /\ OwnBytes
  BY DEF Init, ViewReturnsAnswer, NothingFromEarlierRuns, CachedIsLatest, OwnBytes,
         NoResult, NotCached
<1> QED BY <1>1, <1>2 DEF IInv

\* A new run, forward or back, starts with nothing of the runs before.
LEMMA StartInductive ==
  ASSUME NEW k \in Height, NEW m \in {"block", "rollback"}, IInv, Begin(m, k), NewStore
  PROVE  IInv'
<1>1. TypeOK'
  <2>1. << >> \in Seq(Byte)
    OBVIOUS
  <2>2. NoResult \in [call : {"none", "view", "hash", "state"}, ok : BOOLEAN, bytes : Seq(Byte)]
    BY <2>1 DEF NoResult
  <2>3. runs' \in 0 .. MaxRuns /\ calls' \in 0 .. MaxCalls
    BY Constants DEF IInv, TypeOK, Begin
  <2>4. /\ origins' = {} /\ memory' = {} /\ viewResult' = << >> /\ answer' = << >>
    BY DEF NewStore
  <2> QED BY <2>1, <2>2, <2>3, <2>4 DEF IInv, TypeOK, Begin
<1>2. (ViewReturnsAnswer /\ NothingFromEarlierRuns /\ CachedIsLatest /\ OwnBytes)'
  BY DEF IInv, Begin, NewStore, ViewReturnsAnswer, NothingFromEarlierRuns,
         CachedIsLatest, OwnBytes, NoResult
<1> QED BY <1>1, <1>2 DEF IInv

\* A view that is answered returns its answer whole.
LEMMA ViewInductive == IInv /\ View => IInv'
<1>. SUFFICES ASSUME IInv, View PROVE IInv'
  OBVIOUS
<1>1. TypeOK /\ NothingFromEarlierRuns /\ CachedIsLatest
  BY DEF IInv
<1>2. /\ UNCHANGED <<status, mode, runs, height, memory, cdcCache, emitted>>
      /\ ~ corrupt /\ calls < MaxCalls /\ calls' = calls + 1
  BY DEF View, Calls
<1>3. PICK n \in 0 .. MaxAnswer :
        /\ answer' = Bytes(<<runs, calls + 1>>, n)
        /\ viewResult' = answer'
        /\ \/ Fails("view")
           \/ Announced(n) > 0 /\ LoadAndReturn("view", viewResult', Announced(n))
  BY DEF View
<1>4. <<runs, calls + 1>> \in Byte /\ n \in Nat /\ calls' \in 0 .. MaxCalls
  BY <1>1, <1>2, Constants DEF TypeOK, Byte
<1>5. /\ answer' \in Seq(Byte) /\ Len(answer') = n
      /\ \A i \in DOMAIN answer' : answer'[i][1] = runs
  <2>1. /\ Bytes(<<runs, calls + 1>>, n) \in Seq(Byte) /\ Len(Bytes(<<runs, calls + 1>>, n)) = n
        /\ \A i \in DOMAIN Bytes(<<runs, calls + 1>>, n) :
              Bytes(<<runs, calls + 1>>, n)[i] = <<runs, calls + 1>>
    BY <1>4, BytesType, Zenon
  <2> QED BY <1>3, <2>1
<1>6. /\ result' \in [call : {"none", "view", "hash", "state"}, ok : BOOLEAN, bytes : Seq(Byte)]
      /\ corrupt' \in BOOLEAN /\ origins' \subseteq {0, runs}
      /\ result'.ok => ~ corrupt' /\ (Len(answer') < Width => result'.bytes = answer')
  <2>1. CASE Fails("view")
    <3>1. result' = [call |-> "view", ok |-> FALSE, bytes |-> << >>]
      BY <2>1 DEF Fails, Return
    <3>2. origins' = origins /\ corrupt' = corrupt
      BY <2>1 DEF Fails, Return
    <3>3. << >> \in Seq(Byte)
      OBVIOUS
    <3> QED BY <1>1, <3>1, <3>2, <3>3 DEF NothingFromEarlierRuns, TypeOK
  <2>2. CASE Announced(n) > 0 /\ LoadAndReturn("view", viewResult', Announced(n))
    <3>0. Announced(n) \in Nat
      BY <1>4, <2>2, AnnouncedIs
    <3>1. /\ result' \in [call : {"none", "view", "hash", "state"}, ok : BOOLEAN, bytes : Seq(Byte)]
          /\ corrupt' \in BOOLEAN /\ origins' \subseteq {0, runs}
          /\ n = Announced(n) => result'.bytes = answer' /\ corrupt' = FALSE
          /\ ~ (n < Width) => corrupt' = corrupt
      BY <1>1, <1>2, <1>3, <1>5, <2>2, <3>0, LoadReturns
    <3>2. n < Width => n = Announced(n)
      BY <1>4, <2>2, AnnouncedIs
    <3> QED BY <1>2, <1>5, <3>1, <3>2
  <2> QED BY <1>3, <2>1, <2>2
<1>7. TypeOK'
  <2>1. viewResult' = answer'
    BY <1>3
  <2>2. origins' \subseteq 0 .. MaxRuns
    BY <1>1, <1>6, Constants DEF TypeOK
  <2>3. status' \in {"idle", "running", "stopped"} /\ mode' \in {"block", "rollback"}
        /\ memory' \subseteq 0 .. MaxRuns /\ runs' \in 0 .. MaxRuns
        /\ height' \in Height
    BY <1>1, <1>2 DEF TypeOK
  <2>4. cdcCache' \in [Height -> CacheEntry] /\ emitted' \in [Height -> CacheEntry]
    BY <1>1, <1>2, Zenon DEF TypeOK
  <2> QED BY <1>4, <1>5, <1>6, <2>1, <2>2, <2>3, <2>4 DEF TypeOK
<1>8. (ViewReturnsAnswer /\ NothingFromEarlierRuns /\ CachedIsLatest /\ OwnBytes)'
  BY <1>1, <1>2, <1>3, <1>5, <1>6
     DEF ViewReturnsAnswer, NothingFromEarlierRuns, CachedIsLatest, OwnBytes
<1> QED BY <1>7, <1>8 DEF IInv

\* A view that cannot be asked returns an error and nothing else.
LEMMA ViewFailsInductive == IInv /\ ViewFails => IInv'
<1>. SUFFICES ASSUME IInv, ViewFails PROVE IInv'
  OBVIOUS
<1>1. /\ UNCHANGED <<status, mode, runs, height, memory, viewResult, answer, corrupt,
                     cdcCache, emitted>>
      /\ calls < MaxCalls /\ calls' = calls + 1
      /\ result' = [call |-> "view", ok |-> FALSE, bytes |-> << >>]
      /\ origins' = origins
  BY DEF ViewFails, Calls, Fails, Return
<1>2. TypeOK'
  BY <1>1, Constants DEF IInv, TypeOK
<1>3. (ViewReturnsAnswer /\ NothingFromEarlierRuns /\ CachedIsLatest /\ OwnBytes)'
  BY <1>1 DEF IInv, ViewReturnsAnswer, NothingFromEarlierRuns, CachedIsLatest, OwnBytes
<1> QED BY <1>2, <1>3 DEF IInv

\* get_block_hash returns bytes of this run, whatever they are.
LEMMA GetBlockHashInductive == IInv /\ GetBlockHash => IInv'
<1>. SUFFICES ASSUME IInv, GetBlockHash PROVE IInv'
  OBVIOUS
<1>1. TypeOK /\ NothingFromEarlierRuns /\ CachedIsLatest /\ OwnBytes
  BY DEF IInv
<1>2. /\ UNCHANGED <<status, mode, runs, height, memory, viewResult, answer, cdcCache,
                     emitted>>
      /\ calls < MaxCalls /\ calls' = calls + 1
      /\ LoadAndReturn("hash", viewResult, HashLength)
  BY DEF GetBlockHash, Calls
<1>3. viewResult \in Seq(Byte) /\ HashLength \in Nat
  BY <1>1, Constants DEF TypeOK
<1>4. /\ result' \in [call : {"none", "view", "hash", "state"}, ok : BOOLEAN, bytes : Seq(Byte)]
      /\ result'.call = "hash"
      /\ corrupt' \in BOOLEAN /\ origins' \subseteq {0, runs}
  BY <1>1, <1>2, <1>3, LoadReturns DEF OwnBytes
<1>5. TypeOK'
  BY <1>1, <1>2, <1>4, Constants DEF TypeOK
<1>6. (ViewReturnsAnswer /\ NothingFromEarlierRuns /\ CachedIsLatest /\ OwnBytes)'
  BY <1>1, <1>2, <1>4
     DEF ViewReturnsAnswer, NothingFromEarlierRuns, CachedIsLatest, OwnBytes
<1> QED BY <1>5, <1>6 DEF IInv

\* A call for the state returns nothing.
LEMMA StateCallInductive == IInv /\ StateCall => IInv'
<1>. SUFFICES ASSUME IInv, StateCall PROVE IInv'
  OBVIOUS
<1>1. /\ UNCHANGED <<status, mode, runs, height, memory, viewResult, answer, corrupt,
                     cdcCache, emitted>>
      /\ calls < MaxCalls /\ calls' = calls + 1
      /\ result' = [call |-> "state", ok |-> FALSE, bytes |-> << >>]
      /\ origins' = origins
  BY DEF StateCall, Calls, Fails, Return
<1>2. TypeOK'
  BY <1>1, Constants DEF IInv, TypeOK
<1>3. (ViewReturnsAnswer /\ NothingFromEarlierRuns /\ CachedIsLatest /\ OwnBytes)'
  BY <1>1 DEF IInv, ViewReturnsAnswer, NothingFromEarlierRuns, CachedIsLatest, OwnBytes
<1> QED BY <1>2, <1>3 DEF IInv

\* A finished run's messages replace those of the height.
LEMMA FinishInductive == \A e \in Emission : IInv /\ Finish(e) => IInv'
<1>. SUFFICES ASSUME NEW e \in Emission, IInv, Finish(e) PROVE IInv'
  OBVIOUS
<1>1. Decoded(e) \in Emission
  BY DEF Decoded, Emission
<1>2. TypeOK'
  <2>1. UNCHANGED <<mode, runs, calls, height, viewResult, answer, result, corrupt, origins>>
    BY DEF Finish, Saved
  <2>2. status' = "idle" /\ memory' \subseteq 0 .. MaxRuns
    BY DEF IInv, TypeOK, Finish, Saved
  <2>3. cdcCache' \in [Height -> CacheEntry] /\ emitted' \in [Height -> CacheEntry]
    BY <1>1 DEF IInv, TypeOK, Finish, CacheEntry
  <2>4. TypeOK
    BY DEF IInv
  <2> QED BY <2>1, <2>2, <2>3, <2>4 DEF TypeOK
<1>3. CachedIsLatest'
  BY DEF IInv, TypeOK, Finish, CachedIsLatest, Decoded
<1>4. (ViewReturnsAnswer /\ NothingFromEarlierRuns /\ OwnBytes)'
  BY DEF IInv, Finish, Saved, ViewReturnsAnswer, NothingFromEarlierRuns, OwnBytes
<1> QED BY <1>2, <1>3, <1>4 DEF IInv

\* A finished rollback leaves the messages of every height.
LEMMA FinishRollbackInductive == IInv /\ FinishRollback => IInv'
<1>. SUFFICES ASSUME IInv, FinishRollback PROVE IInv'
  OBVIOUS
<1>1. UNCHANGED <<mode, runs, calls, height, viewResult, answer, result, corrupt,
                  cdcCache, emitted, origins>>
  BY DEF FinishRollback, Saved
<1>2. TypeOK'
  <2>1. status' = "idle" /\ memory' \subseteq 0 .. MaxRuns
    BY DEF IInv, TypeOK, FinishRollback, Saved
  <2>2. TypeOK
    BY DEF IInv
  <2> QED BY <1>1, <2>1, <2>2 DEF TypeOK
<1>3. (ViewReturnsAnswer /\ NothingFromEarlierRuns /\ CachedIsLatest /\ OwnBytes)'
  BY <1>1 DEF IInv, FinishRollback, Saved, ViewReturnsAnswer, NothingFromEarlierRuns,
              CachedIsLatest, OwnBytes
<1> QED BY <1>2, <1>3 DEF IInv

\* Every step, and none, keeps the invariant.
LEMMA StepInductive == IInv /\ [Next]_vars => IInv'
<1>. SUFFICES ASSUME IInv, [Next]_vars PROVE IInv'
  OBVIOUS
<1>1. CASE FinishFails
  BY <1>1 DEF IInv, FinishFails, TypeOK, ViewReturnsAnswer, NothingFromEarlierRuns,
              CachedIsLatest, OwnBytes
<1>2. CASE UNCHANGED vars
  BY <1>2 DEF IInv, vars, TypeOK, ViewReturnsAnswer, NothingFromEarlierRuns,
              CachedIsLatest, OwnBytes
<1>3. CASE \E k \in Height : StartRun(k) \/ StartRollback(k)
  BY <1>3, StartInductive DEF StartRun, StartRollback
<1> QED
  BY <1>1, <1>2, <1>3, ViewInductive, ViewFailsInductive, GetBlockHashInductive,
     StateCallInductive, FinishInductive, FinishRollbackInductive DEF Next

\* The inductive invariant holds in every reachable state.
THEOREM InvariantHolds == Spec => []IInv
  BY InitInductive, StepInductive, PTL DEF Spec

\* Every variable keeps its type: lengths, runs and cached lists among them.
THEOREM TypesCorrect == Spec => []TypeOK
<1>1. IInv => TypeOK
  BY DEF IInv
<1> QED BY <1>1, InvariantHolds, PTL

(***************************************************************************)
(* A view that returns Ok returns the whole answer of that very call, if   *)
(* it is shorter than 2^32 bytes, whatever was in the buffer guest and     *)
(* host share; and it writes nothing past the guest's buffer, whatever the *)
(* length.                                                                 *)
(***************************************************************************)
THEOREM ViewsAreWhole == Spec => []ViewReturnsAnswer
<1>1. IInv => ViewReturnsAnswer
  BY DEF IInv
<1> QED BY <1>1, InvariantHolds, PTL

(***************************************************************************)
(* No byte that an earlier run was answered reaches a transform, though    *)
(* get_block_hash loads the shared buffer with no view before it.          *)
(***************************************************************************)
THEOREM RunsAreIsolated == Spec => []NothingFromEarlierRuns
<1>1. IInv => NothingFromEarlierRuns
  BY DEF IInv
<1> QED BY <1>1, InvariantHolds, PTL

\* cdc_cache holds what the last completed run of each height emitted.
THEOREM CacheIsLatest == Spec => []CachedIsLatest
<1>1. IInv => CachedIsLatest
  BY DEF IInv
<1> QED BY <1>1, InvariantHolds, PTL

=============================================================================
