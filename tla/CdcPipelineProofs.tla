-------------------------- MODULE CdcPipelineProofs --------------------------
(***************************************************************************)
(* The pipeline's invariants, for chains of any height, blocks of any      *)
(* number of any messages, any batch size and any number of reorgs and     *)
(* faults.  What they say of the records ends where `astray` begins.       *)
(***************************************************************************)
EXTENDS CdcPipeline, PostgresTableProofs

\* What the sink has to do with.
SinkOK ==
  /\ stream \in Table /\ direct \in Transactions /\ edges \subseteq [Ids -> Record]
  /\ buffer \in Seq(Message) /\ Len(buffer) < BatchSize
  /\ rows \in [Ids -> Record]
  /\ faults \in 0 .. MaxFaults
  /\ status \in {"running", "failed", "rejected", "disconnected"}
  /\ NothingLost /\ WholeBlocks /\ NothingRejected
  /\ ~ direct.failed => direct.rows \in edges
  /\ RowsAreRecords

\* The invariant has a part that is about the sink alone.
LEMMA SinkOKFromIInv ==
  ASSUME IInv
  PROVE  SinkOK
BY DEF IInv, SinkOK, TypeOK, Transactions

(***************************************************************************)
(* send, whatever becomes of it and whatever it is given, keeps the sink   *)
(* in step with what was sent; and the rows with the stream, if what it is *)
(* given fits.                                                             *)
(***************************************************************************)
LEMMA SendKeeps ==
  ASSUME SinkOK, status = "running", NEW ms \in Seq(Message), Send(ms),
         astray => astray',
         ~ astray' => FitsAll(stream, ms) /\ AllAddressed(ms)
  PROVE  SinkOK' /\ stream' = Replay(stream, ms)
<1> DEFINE all == buffer \o ms
<1>1. /\ stream \in Table /\ direct \in Transactions /\ edges \subseteq [Ids -> Record]
      /\ buffer \in Seq(Message) /\ rows \in [Ids -> Record] /\ faults \in 0 .. MaxFaults
      /\ rows \in edges /\ Transaction(rows, buffer) = direct
  BY DEF SinkOK, WholeBlocks, NothingLost
<1>2. /\ stream' = Replay(stream, ms) /\ direct' = ExecuteAll(direct, ms)
      /\ edges' = IF direct'.failed THEN edges ELSE edges \cup {direct'.rows}
  BY DEF Send
<1>3. stream' \in Table /\ direct' \in Transactions
  BY <1>1, <1>2, ReplayType, ExecuteAllType
<1>4. all \in Seq(Message) /\ Transaction(rows, all) = direct'
  BY <1>1, <1>2, BeginType, ExecuteAllConcat DEF Transaction
<1>5. /\ edges \subseteq edges' /\ edges' \subseteq [Ids -> Record]
      /\ ~ direct'.failed => direct'.rows \in edges'
  BY <1>1, <1>2, <1>3 DEF Transactions
<1>6. RowsAreRecords'
  <2> SUFFICES ASSUME ~ astray'
               PROVE  ~ direct'.failed /\ Holds(direct'.rows, stream')
    BY DEF RowsAreRecords
  <2>1. ~ direct.failed /\ Holds(direct.rows, stream)
    BY DEF SinkOK, RowsAreRecords
  <2>2. FitsAll(stream, ms) /\ \A i \in 1 .. Len(ms) : Addressed(ms[i])
    BY DEF AllAddressed
  <2> QED BY <1>1, <1>2, <2>1, <2>2, TransactionReplays
<1>7. << >> \in Seq(Message) /\ Len(<< >>) < BatchSize
  BY PipelineAssumption
<1> HIDE DEF all
<1>8. CASE Buffered(ms)
  <2>1. /\ buffer' = all /\ Len(all) < BatchSize
        /\ UNCHANGED <<rows, status, faults>>
    BY <1>8 DEF Buffered, all
  <2>2. NothingLost' /\ WholeBlocks' /\ NothingRejected'
    BY <1>1, <1>4, <1>5, <1>6, <2>1 DEF NothingLost, WholeBlocks, NothingRejected
  <2> QED BY <1>1, <1>2, <1>3, <1>4, <1>5, <1>6, <2>1, <2>2 DEF SinkOK
<1>9. CASE Committed(ms)
  <2>1. /\ buffer' = << >> /\ rows' = direct'.rows /\ ~ direct'.failed
        /\ UNCHANGED <<status, faults>>
    BY <1>4, <1>9 DEF Committed, all
  <2>2. rows' \in [Ids -> Record] /\ Begin(rows') = direct'
    BY <1>3, <2>1 DEF Begin, Transactions
  <2>3. Transaction(rows', << >>) = direct'
    BY <2>2, TransactionEmpty
  <2>4. NothingLost' /\ WholeBlocks' /\ NothingRejected'
    BY <1>5, <1>6, <2>1, <2>3 DEF NothingLost, WholeBlocks, NothingRejected
  <2> QED BY <1>1, <1>2, <1>3, <1>5, <1>6, <1>7, <2>1, <2>2, <2>4 DEF SinkOK
<1>10. CASE Rejected(ms)
  <2>1. /\ buffer' = << >> /\ status' = "rejected" /\ direct'.failed
        /\ UNCHANGED <<rows, faults>>
    BY <1>4, <1>10 DEF Rejected, all
  <2>2. NothingLost' /\ WholeBlocks' /\ NothingRejected'
    BY <1>1, <1>5, <1>6, <2>1
       DEF NothingLost, WholeBlocks, NothingRejected, RowsAreRecords
  <2> QED BY <1>1, <1>2, <1>3, <1>5, <1>6, <1>7, <2>1, <2>2 DEF SinkOK
<1>11. CASE Disconnected(ms)
  <2>1. /\ buffer' = << >> /\ status' = "disconnected"
        /\ faults' = faults + 1 /\ faults < MaxFaults
        /\ \/ rows' = rows
           \/ ~ direct'.failed /\ rows' = direct'.rows
    BY <1>4, <1>11 DEF Disconnected, all
  <2>2. faults' \in 0 .. MaxFaults
    BY <1>1, <2>1, PipelineAssumption
  <2>3. rows' \in edges' /\ rows' \in [Ids -> Record]
    BY <1>1, <1>5, <2>1
  <2>4. NothingLost' /\ WholeBlocks' /\ NothingRejected'
    BY <2>1, <2>3 DEF NothingLost, WholeBlocks, NothingRejected
  <2> QED BY <1>1, <1>2, <1>3, <1>5, <1>6, <1>7, <2>1, <2>2, <2>3, <2>4 DEF SinkOK
<1>12. SinkOK'
  BY <1>8, <1>9, <1>10, <1>11 DEF Send
<1> QED BY <1>2, <1>12

-----------------------------------------------------------------------------
(***************************************************************************)
(* The inverse messages of a reorg.                                        *)
(***************************************************************************)

(***************************************************************************)
(* What the cache has of the heights to undo is messages, in force or not. *)
(***************************************************************************)
LEMMA InverseRangeStages ==
  ASSUME IInv, NEW a \in Nat, a < current,
         \A k \in a + 1 .. current : cdcCache[k] # NotCached
  PROVE  \E d : DownTo(d, cdcCache, a, current) /\ InverseRange(a) = d[current]
<1>1. current \in Nat /\ current <= MaxHeight
      /\ cdcCache \in [Height -> {NotCached} \cup Seq(Message)]
  BY PipelineAssumption DEF IInv, TypeOK
<1>2. ASSUME NEW k \in a + 1 .. current
      PROVE  InverseMessages(cdcCache[k]) \in Seq(Message)
  <2>1. k \in Height
    BY <1>1, PipelineAssumption DEF Height
  <2>2. cdcCache[k] \in Seq(Message)
    BY <1>1, <2>1
  <2> QED BY <2>2, InverseMessagesType
<1>3. a <= current
  BY <1>1
<1> QED BY <1>1, <1>2, <1>3, InverseBlocksStages DEF InverseRange

LEMMA InverseRangeType ==
  ASSUME IInv, NEW a \in Nat, a < current,
         \A k \in a + 1 .. current : cdcCache[k] # NotCached
  PROVE  InverseRange(a) \in Seq(Message)
<1>1. PICK d : DownTo(d, cdcCache, a, current) /\ InverseRange(a) = d[current]
  BY InverseRangeStages
<1>2. current \in a .. current
  BY DEF IInv, TypeOK
<1> QED BY <1>1, <1>2 DEF DownTo

(***************************************************************************)
(* As long as everything fitted, what the cache has of a height in force   *)
(* fitted the records before that height.                                  *)
(***************************************************************************)
LEMMA CachedInverses ==
  ASSUME IInv, ~ astray, NEW k \in live
  PROVE  /\ k \in Height /\ before[k] \in Table /\ After(k) \in Table
         /\ cdcCache[k] \in Seq(Message) /\ FitsAll(before[k], cdcCache[k])
<1>1. k \in Height /\ before[k] \in Table
  BY DEF IInv, TypeOK
<1>2. cdcCache[k] \in Seq(Message) /\ FitsAll(before[k], cdcCache[k])
  BY DEF IInv, CacheIsWhatWasSent
<1>3. After(k) \in Table
  BY <1>1, <1>2, ReplayType DEF After
<1> QED BY <1>1, <1>2, <1>3

(***************************************************************************)
(* The inverse messages of the heights above a, all in force, fit the      *)
(* records one after the other, and take them back to what they were       *)
(* before height a + 1.                                                    *)
(***************************************************************************)
LEMMA UndoneInOrder ==
  ASSUME IInv, ~ astray, redo = << >>,
         NEW a \in Nat, a < current, a + 1 .. current \subseteq live,
         \A k \in a + 1 .. current : cdcCache[k] # NotCached
  PROVE  /\ FitsAll(stream, InverseRange(a))
         /\ Replay(stream, InverseRange(a)) = before[a + 1]
<1> DEFINE n == current - (a + 1)
<1>1. a \in Nat /\ current \in Nat /\ n \in Nat /\ a < current
  BY DEF IInv, TypeOK
<1>2. PICK d : DownTo(d, cdcCache, a, current) /\ InverseRange(a) = d[current]
  BY InverseRangeStages
<1>3. /\ \A k \in a .. current : d[k] \in Seq(Message)
      /\ d[a] = << >>
      /\ \A k \in a + 1 .. current : d[k] = InverseMessages(cdcCache[k]) \o d[k - 1]
  BY <1>2 DEF DownTo
<1> DEFINE Restores(k) ==
             FitsAll(After(k), d[k]) /\ Replay(After(k), d[k]) = before[a + 1]
           S == {i \in 0 .. n : Restores(a + 1 + i)}
<1>4. ASSUME NEW k \in a + 1 .. current, NEW found \in Table, before[k] = found,
             FitsAll(found, d[k - 1]), Replay(found, d[k - 1]) = before[a + 1]
      PROVE  Restores(k)
  <2>1. k \in live /\ k - 1 \in a .. current
    BY <1>1
  <2> DEFINE inv == InverseMessages(cdcCache[k])
  <2>2. /\ inv \in Seq(Message) /\ After(k) \in Table
        /\ cdcCache[k] \in Seq(Message) /\ FitsAll(before[k], cdcCache[k])
    BY <2>1, CachedInverses, InverseMessagesType
  <2>3. FitsAll(After(k), inv) /\ Replay(After(k), inv) = found
    BY <1>4, <2>2, InverseMessagesRestore DEF After
  <2>4. d[k] = inv \o d[k - 1] /\ d[k - 1] \in Seq(Message)
    BY <1>3, <2>1
  <2> HIDE DEF inv
  <2>5. FitsAll(After(k), inv \o d[k - 1])
    BY <1>4, <2>2, <2>3, <2>4, FitsConcat
  <2>6. Replay(After(k), inv \o d[k - 1]) = Replay(Replay(After(k), inv), d[k - 1])
    BY <2>2, <2>4, ReplayConcat
  <2> QED BY <1>4, <2>3, <2>4, <2>5, <2>6
<1>5. 0 \in S
  <2>1. a + 1 \in a + 1 .. current /\ (a + 1) - 1 = a /\ a + 1 + 0 = a + 1
    BY <1>1
  <2>2. before[a + 1] \in Table
    BY <2>1, CachedInverses
  <2>3. FitsAll(before[a + 1], d[a]) /\ Replay(before[a + 1], d[a]) = before[a + 1]
    BY <1>3, <2>2, ReplayEmpty
  <2> HIDE DEF Restores
  <2>4. Restores(a + 1)
    BY <1>4, <2>1, <2>2, <2>3
  <2>5. 0 \in 0 .. n
    BY <1>1
  <2> QED BY <2>1, <2>4, <2>5
<1>6. ASSUME NEW i \in 0 .. n - 1, i \in S PROVE i + 1 \in S
  <2> DEFINE k == a + 1 + (i + 1)
  <2>1. /\ k \in a + 1 .. current /\ k - 1 = a + 1 + i
        /\ k - 1 \in a + 1 .. current /\ (k - 1) + 1 = k /\ i + 1 \in 0 .. n
    BY <1>1
  <2>2. k \in live /\ k - 1 \in live
    BY <2>1
  <2> HIDE DEF k
  <2>3. before[k] = After(k - 1)
    <3>1. (k - 1) + 1 \in live => before[(k - 1) + 1] = After(k - 1)
      BY <2>2 DEF IInv, CacheIsWhatWasSent
    <3> QED BY <2>1, <2>2, <3>1
  <2>4. After(k - 1) \in Table
    BY <2>2, CachedInverses
  <2>5. FitsAll(After(k - 1), d[k - 1]) /\ Replay(After(k - 1), d[k - 1]) = before[a + 1]
    BY <1>6, <2>1
  <2> HIDE DEF Restores
  <2>6. Restores(k)
    BY <1>4, <2>1, <2>3, <2>4, <2>5
  <2> QED BY <2>1, <2>6 DEF k
<1>7. n \in S
  <2> HIDE DEF S, n
  <2>1. 0 .. n \subseteq S
    BY <1>1, <1>5, <1>6, SetInduction
  <2> QED BY <1>1, <2>1
<1>8. Restores(current)
  <2>1. a + 1 + n = current
    BY <1>1
  <2> HIDE DEF n, Restores
  <2> QED BY <1>7, <2>1
<1>9. stream = After(current)
  <2>1. current \in a + 1 .. current
    BY <1>1
  <2> QED BY <2>1 DEF IInv, TopIsLast
<1>10. current \in a .. current
  BY <1>1
<1> QED BY <1>2, <1>3, <1>8, <1>9, <1>10

-----------------------------------------------------------------------------
(***************************************************************************)
(* The steps.                                                              *)
(***************************************************************************)

\* What the runtime and the heights have to do with.
CacheOK ==
  /\ cdcCache \in [Height -> {NotCached} \cup Seq(Message)]
  /\ before \in [Height -> Table]
  /\ live \subseteq Height /\ astray \in BOOLEAN
  /\ CacheIsWhatWasSent

(***************************************************************************)
(* A block processed upon the last height in force keeps the cache in step *)
(* with what was sent, process_block caching what it sends; a block passed *)
(* over changes nothing.                                                   *)
(***************************************************************************)
LEMMA ProcessBlockKeeps ==
  ASSUME IInv, status = "running",
         NEW k \in Height, ProcessBlock(k), k \notin live, k + 1 \notin live,
         k - 1 \in live /\ ~ astray => stream = After(k - 1)
  PROVE  /\ SinkOK' /\ CacheOK'
         /\ UNCHANGED reorgs
         /\ \/ /\ live' = live \cup {k}
               /\ ~ astray' => stream' = After(k)'
            \/ UNCHANGED <<cdcCache, before, live, astray, sinkVars>>
<1>1. CASE UNCHANGED <<cdcCache, before, live, astray, sinkVars>>
  <2>1. SinkOK'
    BY <1>1, SinkOKFromIInv
       DEF SinkOK, sinkVars, NothingLost, WholeBlocks, NothingRejected, RowsAreRecords
  <2>2. CacheOK'
    BY <1>1 DEF CacheOK, CacheIsWhatWasSent, After, IInv, TypeOK, sinkVars
  <2> QED BY <1>1, <2>1, <2>2 DEF ProcessBlock
<1>2. CASE ~ UNCHANGED <<cdcCache, before, live, astray, sinkVars>>
  <2>1. PICK ms \in BoundedSeq(Emits, MaxMessages) :
          /\ cdcCache' = [cdcCache EXCEPT ![k] = ms]
          /\ Send(ms)
          /\ before' = [before EXCEPT ![k] = stream]
          /\ live' = live \cup {k}
          /\ astray' = (astray \/ ~ FitsAll(stream, ms) \/ ~ AllAddressed(ms))
    BY <1>2 DEF ProcessBlock
  <2>2. ms \in Seq(Message)
    <3>1. ms \in UNION {[1 .. m -> Emits] : m \in 0 .. MaxMessages}
      BY DEF BoundedSeq, SeqOf
    <3>2. PICK m \in 0 .. MaxMessages : ms \in [1 .. m -> Emits]
      BY <3>1
    <3>3. m \in Nat /\ ms \in [1 .. m -> Message]
      BY <3>2, PipelineAssumption
    <3> QED BY <3>3
  <2>3. /\ astray => astray'
        /\ ~ astray' => FitsAll(stream, ms) /\ AllAddressed(ms)
    BY <2>1
  <2>4. SinkOK' /\ stream' = Replay(stream, ms)
    BY <2>1, <2>2, <2>3, SinkOKFromIInv, SendKeeps
  <2>5. /\ cdcCache \in [Height -> {NotCached} \cup Seq(Message)]
        /\ before \in [Height -> Table] /\ live \subseteq Height /\ stream \in Table
    BY DEF IInv, TypeOK
  <2>6. /\ cdcCache' \in [Height -> {NotCached} \cup Seq(Message)]
        /\ before' \in [Height -> Table] /\ live' \subseteq Height
        /\ astray' \in BOOLEAN
    BY <2>1, <2>2, <2>5 DEF IInv, TypeOK
  <2>7. cdcCache'[k] = ms /\ before'[k] = stream
    BY <2>1, <2>5
  <2>8. stream' = After(k)'
    BY <2>4, <2>7 DEF After
  <2>9. ASSUME NEW j \in live
        PROVE  /\ cdcCache'[j] = cdcCache[j] /\ before'[j] = before[j]
               /\ After(j)' = After(j)
    <3>1. j # k /\ j \in Height
      BY <2>5
    <3>2. cdcCache'[j] = cdcCache[j] /\ before'[j] = before[j]
      BY <2>1, <2>5, <3>1
    <3> QED BY <3>2 DEF After
  <2>10. ASSUME NEW j \in live'
         PROVE  /\ cdcCache'[j] \in Seq(Message)
                /\ ~ astray' =>
                     /\ FitsAll(before'[j], cdcCache'[j])
                     /\ j + 1 \in live' => before'[j + 1] = After(j)'
    <3>1. CASE j = k
      <4>1. k + 1 \notin live'
        BY <2>1 DEF Height
      <4> QED BY <2>2, <2>3, <2>7, <3>1, <4>1
    <3>2. CASE j \in live
      <4>1. /\ cdcCache[j] \in Seq(Message)
            /\ ~ astray' =>
                 /\ ~ astray /\ FitsAll(before[j], cdcCache[j])
                 /\ j + 1 \in live => before[j + 1] = After(j)
        BY <2>3, <3>2 DEF IInv, CacheIsWhatWasSent
      <4>2. CASE j + 1 = k
        <5>1. j = k - 1
          BY <2>5, <3>2, <4>2 DEF Height
        <5>2. ~ astray' => before'[j + 1] = After(j)'
          BY <2>7, <2>9, <3>2, <4>1, <4>2, <5>1
        <5> QED BY <2>9, <3>2, <4>1, <5>2
      <4>3. CASE j + 1 # k
        <5>1. j + 1 \in live' => j + 1 \in live
          BY <2>1, <4>3
        <5> QED BY <2>9, <3>2, <4>1, <5>1
      <4> QED BY <4>2, <4>3
    <3> QED BY <2>1, <3>1, <3>2
  <2>11. CacheOK'
    BY <2>6, <2>10 DEF CacheOK, CacheIsWhatWasSent
  <2> QED BY <2>1, <2>4, <2>8, <2>11 DEF ProcessBlock
<1> QED BY <1>1, <1>2

(***************************************************************************)
(* run processes the height above the current one.                         *)
(***************************************************************************)
LEMMA NextBlockKeeps ==
  ASSUME IInv, NextBlock
  PROVE  IInv'
<1>0. PICK k : k = current + 1
  OBVIOUS
<1>1. /\ status = "running" /\ redo = << >> /\ current < MaxHeight
      /\ ProcessBlock(k) /\ current' = current + 1 /\ redo' = redo
  BY <1>0 DEF NextBlock
<1>2. /\ current \in 0 .. MaxHeight /\ reorgs \in 0 .. MaxReorgs
      /\ redo \in Seq(Height) /\ live \subseteq 1 .. current
  BY DEF IInv, TypeOK, TopIsLast
<1>3. /\ k \in Height /\ k \notin live /\ k + 1 \notin live /\ k - 1 = current
  BY <1>0, <1>1, <1>2, PipelineAssumption DEF Height
<1>4. k - 1 \in live /\ ~ astray => stream = After(k - 1)
  BY <1>1, <1>3 DEF IInv, TopIsLast
<1>5. /\ SinkOK' /\ CacheOK' /\ UNCHANGED reorgs
      /\ \/ /\ live' = live \cup {k}
            /\ ~ astray' => stream' = After(k)'
         \/ live' = live
  BY <1>1, <1>3, <1>4, ProcessBlockKeeps
<1>6. current' = k
  BY <1>0, <1>1
<1>7. TypeOK'
  <2>1. current' \in 0 .. MaxHeight /\ reorgs' \in 0 .. MaxReorgs /\ redo' \in Seq(Height)
    BY <1>1, <1>2, <1>3, <1>5, <1>6, PipelineAssumption DEF Height
  <2>2. live' \subseteq Height
    BY <1>3, <1>5 DEF IInv, TypeOK
  <2> QED BY <1>5, <2>1, <2>2 DEF TypeOK, SinkOK, CacheOK, Transactions
<1>8. TopIsLast'
  <2>1. live' \subseteq 1 .. k
    <3>1. live \subseteq 1 .. k /\ k \in 1 .. k
      BY <1>0, <1>2, <1>3 DEF Height
    <3> QED BY <1>5, <3>1
  <2>2. k \in live' /\ ~ astray' => stream' = After(k)'
    BY <1>3, <1>5
  <2> QED BY <1>6, <2>1, <2>2 DEF TopIsLast, After
<1>9. RedoIsNext'
  BY <1>1 DEF RedoIsNext
<1> QED BY <1>5, <1>7, <1>8, <1>9 DEF IInv, SinkOK, CacheOK

(***************************************************************************)
(* The end of handle_reorg processes the next height of the new chain.     *)
(***************************************************************************)
LEMMA RedoBlockKeeps ==
  ASSUME IInv, RedoBlock
  PROVE  IInv'
<1>0. PICK k : k = Head(redo)
  OBVIOUS
<1>1. /\ status = "running" /\ redo # << >>
      /\ ProcessBlock(k) /\ current' = current /\ redo' = Tail(redo)
  BY <1>0 DEF RedoBlock
<1>2. /\ current \in 0 .. MaxHeight /\ reorgs \in 0 .. MaxReorgs
      /\ redo \in Seq(Height) /\ live \subseteq 1 .. current
  BY DEF IInv, TypeOK, TopIsLast
<1>3. /\ \A i \in DOMAIN redo : redo[i] = k + i - 1 /\ redo[i] < current
      /\ live \cap (k .. current) = {}
      /\ k - 1 \in live /\ ~ astray => stream = After(k - 1)
  BY <1>0, <1>1 DEF IInv, RedoIsNext
<1>4. /\ Len(redo) \in Nat /\ Len(redo) > 0 /\ k = redo[1] /\ k \in Height
      /\ DOMAIN redo = 1 .. Len(redo)
  BY <1>0, <1>1, <1>2
<1>5. k < current /\ k \in Int
  BY <1>3, <1>4 DEF Height
<1>6. k \notin live /\ k + 1 \notin live /\ current \notin live /\ current # k
  BY <1>2, <1>3, <1>5
<1>7. /\ SinkOK' /\ CacheOK' /\ UNCHANGED reorgs
      /\ \/ /\ live' = live \cup {k}
            /\ ~ astray' => stream' = After(k)'
         \/ live' = live
  BY <1>1, <1>3, <1>4, <1>6, ProcessBlockKeeps
<1>8. TypeOK'
  <2>1. redo' \in Seq(Height)
    BY <1>1, <1>2
  <2>2. live' \subseteq Height
    BY <1>4, <1>7 DEF IInv, TypeOK
  <2> QED BY <1>1, <1>2, <1>7, <2>1, <2>2 DEF TypeOK, SinkOK, CacheOK, Transactions
<1>9. TopIsLast'
  <2>1. live' \subseteq 1 .. current
    <3>1. k \in 1 .. current
      BY <1>2, <1>4, <1>5, PipelineAssumption DEF Height
    <3> QED BY <1>2, <1>7, <3>1
  <2>2. current \notin live'
    BY <1>6, <1>7
  <2> QED BY <1>1, <2>1, <2>2 DEF TopIsLast
<1>10. RedoIsNext'
  <2> SUFFICES ASSUME redo' # << >>
               PROVE  /\ \A i \in DOMAIN redo' :
                           redo'[i] = Head(redo') + i - 1 /\ redo'[i] < current
                      /\ live' \cap (Head(redo') .. current) = {}
                      /\ Head(redo') - 1 \in live' /\ ~ astray'
                           => stream' = After(Head(redo) - 1)'
    BY <1>1 DEF RedoIsNext
  <2>1. /\ Len(redo') = Len(redo) - 1 /\ DOMAIN redo' = 1 .. Len(redo) - 1
        /\ Len(redo) - 1 > 0 /\ Head(redo') = redo'[1]
        /\ \A i \in 1 .. Len(redo) - 1 : redo'[i] = redo[i + 1]
    BY <1>1, <1>2, <1>4
  <2>2. \A i \in 1 .. Len(redo) - 1 : redo'[i] = k + i /\ redo'[i] < current
    <3> SUFFICES ASSUME NEW i \in 1 .. Len(redo) - 1
                 PROVE  redo'[i] = k + i /\ redo'[i] < current
      OBVIOUS
    <3>1. i + 1 \in DOMAIN redo
      BY <1>4
    <3>2. redo[i + 1] = k + (i + 1) - 1 /\ redo[i + 1] < current
      BY <1>3, <3>1
    <3> QED BY <1>5, <2>1, <3>2
  <2>3. Head(redo') = k + 1 /\ Head(redo') - 1 = k
    BY <1>4, <1>5, <2>1, <2>2
  <2>4. \A i \in DOMAIN redo' : redo'[i] = Head(redo') + i - 1 /\ redo'[i] < current
    BY <1>4, <1>5, <2>1, <2>2, <2>3
  <2>5. live' \cap (Head(redo') .. current) = {}
    BY <1>2, <1>3, <1>5, <1>7, <2>3
  <2>6. k \in live' /\ ~ astray' => stream' = After(k)'
    BY <1>6, <1>7
  <2> QED BY <2>3, <2>4, <2>5, <2>6 DEF After
<1> QED BY <1>7, <1>8, <1>9, <1>10 DEF IInv, SinkOK, CacheOK

(***************************************************************************)
(* handle_reorg keeps the cache in step; and if all it undoes is in force, *)
(* it takes the stream back to the common ancestor.                        *)
(***************************************************************************)
LEMMA UndoKeeps ==
  ASSUME IInv, Undo
  PROVE  /\ IInv'
         /\ \E a \in live :
              /\ a < current
              /\ live' = live \ (a + 1 .. current)
              /\ ~ astray' => /\ stream' = before[a + 1]
                              /\ a + 1 .. current \subseteq live
<1>1. /\ status = "running" /\ redo = << >> /\ reorgs < MaxReorgs
      /\ reorgs' = reorgs + 1 /\ UNCHANGED <<current, cdcCache, before>>
  BY DEF Undo, ReorgFound
<1> DEFINE Inverted(a) == InverseRange(a)
<1>2. PICK a \in live :
        /\ a < current
        /\ \A k \in a + 1 .. current : cdcCache[k] # NotCached
        /\ \/ Inverted(a) # << >> /\ Send(Inverted(a))
           \/ Inverted(a) = << >> /\ UNCHANGED sinkVars
        /\ astray' = (\/ astray
                      \/ ~ (a + 1 .. current \subseteq live)
                      \/ ~ AllAddressed(Inverted(a)))
        /\ live' = live \ (a + 1 .. current)
        /\ \E n \in a .. current - 1 : redo' = [i \in 1 .. n - a |-> a + i]
  BY DEF Undo
<1>3. PICK n \in a .. current - 1 : redo' = [i \in 1 .. n - a |-> a + i]
  BY <1>2
<1>4. /\ current \in 0 .. MaxHeight /\ reorgs \in 0 .. MaxReorgs
      /\ live \subseteq 1 .. current /\ live \subseteq Height
      /\ cdcCache \in [Height -> {NotCached} \cup Seq(Message)]
      /\ before \in [Height -> Table] /\ stream \in Table
      /\ astray \in BOOLEAN
  BY DEF IInv, TypeOK, TopIsLast
<1>5. a \in Nat /\ current \in Nat /\ n \in Int /\ a < current /\ n < current /\ a <= n
  BY <1>2, <1>4
<1>6. Inverted(a) \in Seq(Message)
  BY <1>2, <1>5, InverseRangeType
<1>7. /\ astray => astray'
      /\ ~ astray' => ~ astray /\ a + 1 .. current \subseteq live /\ AllAddressed(Inverted(a))
  BY <1>2
<1>8. ~ astray' => /\ FitsAll(stream, Inverted(a))
                   /\ Replay(stream, Inverted(a)) = before[a + 1]
  BY <1>1, <1>2, <1>5, <1>7, UndoneInOrder
<1> HIDE DEF Inverted
<1>9. SinkOK' /\ (~ astray' => stream' = before[a + 1])
  <2>1. CASE Send(Inverted(a))
    BY <1>1, <1>6, <1>7, <1>8, <2>1, SinkOKFromIInv, SendKeeps
  <2>2. CASE Inverted(a) = << >> /\ UNCHANGED sinkVars
    <3>1. Replay(stream, << >>) = stream
      BY <1>4, ReplayEmpty
    <3>2. ~ astray' => stream' = before[a + 1]
      BY <1>8, <2>2, <3>1 DEF sinkVars
    <3>3. SinkOK'
      BY <1>7, <2>2, SinkOKFromIInv
         DEF SinkOK, sinkVars, NothingLost, WholeBlocks, NothingRejected, RowsAreRecords
    <3> QED BY <3>2, <3>3
  <2> QED BY <1>2, <2>1, <2>2
<1>10. \A j \in live : After(j)' = After(j)
  BY <1>1 DEF After
<1>11. CacheIsWhatWasSent'
  BY <1>1, <1>2, <1>7, <1>10 DEF IInv, CacheIsWhatWasSent
<1>12. redo' \in Seq(Height) /\ Len(redo') = n - a /\ DOMAIN redo' = 1 .. n - a
  <2>1. \A i \in 1 .. n - a : a + i \in Height
    BY <1>4, <1>5, PipelineAssumption DEF Height
  <2>2. n - a \in Nat
    BY <1>5
  <2>3. redo' \in [1 .. n - a -> Height]
    BY <1>3, <2>1
  <2> QED BY <2>2, <2>3
<1>13. TypeOK'
  <2>1. reorgs' \in 0 .. MaxReorgs
    BY <1>1, <1>4, PipelineAssumption
  <2>2. live' \subseteq Height /\ astray' \in BOOLEAN
    BY <1>2, <1>4
  <2> QED BY <1>1, <1>4, <1>9, <1>12, <2>1, <2>2 DEF TypeOK, SinkOK, Transactions
<1>14. TopIsLast'
  <2>1. current \notin live' /\ live' \subseteq 1 .. current
    BY <1>2, <1>4, <1>5
  <2> QED BY <1>1, <2>1 DEF TopIsLast
<1>15. RedoIsNext'
  <2> SUFFICES ASSUME redo' # << >>
               PROVE  /\ \A i \in DOMAIN redo' :
                           redo'[i] = Head(redo') + i - 1 /\ redo'[i] < current
                      /\ live' \cap (Head(redo') .. current) = {}
                      /\ Head(redo') - 1 \in live' /\ ~ astray'
                           => stream' = After(Head(redo) - 1)'
    BY <1>1 DEF RedoIsNext
  <2>1. n - a > 0 /\ Head(redo') = redo'[1]
    BY <1>5, <1>12
  <2>2. \A i \in 1 .. n - a : redo'[i] = a + i
    BY <1>3
  <2>3. Head(redo') = a + 1 /\ Head(redo') - 1 = a
    BY <1>5, <2>1, <2>2
  <2>4. \A i \in DOMAIN redo' : redo'[i] = Head(redo') + i - 1 /\ redo'[i] < current
    BY <1>5, <1>12, <2>2, <2>3
  <2>5. live' \cap (Head(redo') .. current) = {}
    BY <1>2, <2>3
  <2>6. ASSUME a \in live', ~ astray' PROVE stream' = After(a)'
    <3>1. a \in live /\ a + 1 \in live
      BY <1>5, <1>7, <2>6
    <3>2. before[a + 1] = After(a)
      BY <1>7, <2>6, <3>1 DEF IInv, CacheIsWhatWasSent
    <3> QED BY <1>9, <1>10, <2>6, <3>1, <3>2
  <2> QED BY <2>3, <2>4, <2>5, <2>6 DEF After
<1>16. IInv'
  BY <1>9, <1>11, <1>13, <1>14, <1>15 DEF IInv, SinkOK
<1> QED BY <1>2, <1>5, <1>7, <1>9, <1>16

(***************************************************************************)
(* A service that ends with its undo, or does nothing at all, leaves what  *)
(* the invariant is about.                                                 *)
(***************************************************************************)
LEMMA OthersKeep ==
  ASSUME IInv, UndoFails \/ UNCHANGED vars
  PROVE  IInv'
<1>1. UNCHANGED <<current, redo, cdcCache, buffer, rows, faults, stream, direct,
                  before, live, edges, astray>>
  BY DEF UndoFails, vars, sinkVars
<1>2. /\ status' \in {"running", "failed", "rejected", "disconnected"}
      /\ status' = "running" => status = "running"
      /\ status' = "rejected" => status = "rejected"
      /\ reorgs' \in 0 .. MaxReorgs
  BY PipelineAssumption DEF UndoFails, ReorgFound, vars, sinkVars, IInv, TypeOK
<1>3. TypeOK'
  BY <1>1, <1>2 DEF IInv, TypeOK
<1>4. /\ NothingLost' /\ WholeBlocks' /\ NothingRejected' /\ RowsAreRecords'
      /\ ~ direct'.failed => direct'.rows \in edges'
  BY <1>1, <1>2 DEF IInv, NothingLost, WholeBlocks, NothingRejected, RowsAreRecords
<1>5. CacheIsWhatWasSent' /\ TopIsLast' /\ RedoIsNext'
  BY <1>1 DEF IInv, CacheIsWhatWasSent, TopIsLast, RedoIsNext, After
<1> QED BY <1>3, <1>4, <1>5 DEF IInv

(***************************************************************************)
(* The service starts with the cache, the buffer and the table empty.      *)
(***************************************************************************)
LEMMA InitEstablishes ==
  ASSUME Init
  PROVE  IInv
<1>1. EmptyTable \in Table /\ NoRows \in [Ids -> Record]
  BY DEF EmptyTable, Table, Record, NoRows, Ids
<1>2. direct = [rows |-> NoRows, failed |-> FALSE]
  BY DEF Init, Begin
<1>3. TypeOK
  <2>1. /\ current \in 0 .. MaxHeight /\ reorgs \in 0 .. MaxReorgs
        /\ faults \in 0 .. MaxFaults /\ Len(<< >>) < BatchSize
    BY PipelineAssumption DEF Init
  <2>2. /\ redo \in Seq(Height) /\ buffer = << >> /\ << >> \in Seq(Message)
        /\ cdcCache \in [Height -> {NotCached} \cup Seq(Message)]
        /\ before \in [Height -> Table] /\ live \subseteq Height
    BY <1>1 DEF Init
  <2>3. /\ rows \in [Ids -> Record] /\ stream \in Table
        /\ edges \subseteq [Ids -> Record] /\ status = "running" /\ astray = FALSE
    BY <1>1 DEF Init
  <2>4. direct \in [rows : [Ids -> Record], failed : BOOLEAN]
    BY <1>1, <1>2
  <2> QED BY <2>1, <2>2, <2>3, <2>4 DEF TypeOK
<1>4. Holds(NoRows, EmptyTable)
  <2>1. \A k \in Key : KeyId(k) \in Ids /\ <<"quoted", k>> \in Ids /\ EmptyTable[k] = None
    BY DEF KeyId, Ids, EmptyTable
  <2>2. \A id \in Ids : NoRows[id] = None
    BY DEF NoRows
  <2> QED BY <2>1, <2>2 DEF Holds
<1>5. Transaction(NoRows, << >>) = direct
  BY <1>1, TransactionEmpty DEF Init
<1>6. RowsAreRecords /\ WholeBlocks /\ NothingRejected /\ NothingLost
  BY <1>2, <1>4, <1>5
     DEF Init, RowsAreRecords, WholeBlocks, NothingRejected, NothingLost
<1>7. CacheIsWhatWasSent /\ TopIsLast /\ RedoIsNext
  BY DEF Init, CacheIsWhatWasSent, TopIsLast, RedoIsNext
<1> QED BY <1>2, <1>3, <1>6, <1>7 DEF IInv, Init

-----------------------------------------------------------------------------
(***************************************************************************)
(* The theorems.                                                           *)
(***************************************************************************)

(***************************************************************************)
(* Every step keeps the invariant.                                         *)
(***************************************************************************)
LEMMA StepKeeps ==
  ASSUME IInv, [Next]_vars
  PROVE  IInv'
BY NextBlockKeeps, RedoBlockKeeps, UndoKeeps, OthersKeep DEF Next

(***************************************************************************)
(* The sink holds what was sent between its rows and its buffer, at all    *)
(* times; and, as long as everything fitted, the runtime's cache holds     *)
(* what takes the records back.                                            *)
(***************************************************************************)
THEOREM InvariantHolds == Spec => []IInv
<1>1. Init => IInv
  BY InitEstablishes
<1>2. IInv /\ [Next]_vars => IInv'
  BY StepKeeps
<1> QED BY <1>1, <1>2, PTL DEF Spec

(***************************************************************************)
(* Every variable has its type; the buffer never reaches batch_size.       *)
(***************************************************************************)
THEOREM TypesHold == Spec => []TypeOK
<1>1. IInv => TypeOK
  BY DEF IInv
<1> QED BY <1>1, InvariantHolds, PTL

(***************************************************************************)
(* Nothing is lost, applied twice or out of order between the transform    *)
(* and the database (PostgresSink::send, process_block, handle_reorg).     *)
(***************************************************************************)
THEOREM NothingIsLost == Spec => []NothingLost
<1>1. IInv => NothingLost
  BY DEF IInv
<1> QED BY <1>1, InvariantHolds, PTL

(***************************************************************************)
(* The database never shows a part of a block or of an undo, whatever the  *)
(* messages and whatever becomes of a transaction                          *)
(* (PostgresSink::apply_messages).                                         *)
(***************************************************************************)
THEOREM BlocksAreWhole == Spec => []WholeBlocks
<1>1. IInv => WholeBlocks
  BY DEF IInv
<1> QED BY <1>1, InvariantHolds, PTL

(***************************************************************************)
(* The database refuses a batch only when messages did not fit as they     *)
(* were emitted, or a height was undone that was not in force.             *)
(***************************************************************************)
THEOREM OnlyStraysAreRejected == Spec => []NothingRejected
<1>1. IInv => NothingRejected
  BY DEF IInv
<1> QED BY <1>1, InvariantHolds, PTL

(***************************************************************************)
(* The undo of heights in force takes the records back to what they were   *)
(* at the common ancestor (compute_inverse_messages, handle_reorg).        *)
(***************************************************************************)
THEOREM ReorgRestores == Spec => UndoRestores
<1> DEFINE Restored ==
      \A k \in Height :
        k \in live /\ k \notin live' /\ k - 1 \notin live \ live' /\ ~ astray'
          => stream' = before[k]
<1>1. ASSUME IInv, Next PROVE Restored
  <2>1. CASE NextBlock \/ RedoBlock \/ UndoFails
    BY <2>1 DEF NextBlock, RedoBlock, ProcessBlock, UndoFails
  <2>2. CASE Undo
    <3>1. PICK a \in live :
            /\ a < current
            /\ live' = live \ (a + 1 .. current)
            /\ ~ astray' => /\ stream' = before[a + 1]
                            /\ a + 1 .. current \subseteq live
      BY <1>1, <2>2, UndoKeeps
    <3>2. a \in Int /\ current \in Int
      BY <1>1 DEF IInv, TypeOK, Height
    <3>3. ASSUME NEW k \in Height, k \in live, k \notin live', k - 1 \notin live \ live',
                 ~ astray'
          PROVE  stream' = before[k]
      <4>1. k \in a + 1 .. current
        BY <3>1, <3>3
      <4>2. CASE k = a + 1
        BY <3>1, <3>3, <4>2
      <4>3. CASE k # a + 1
        <5>1. k - 1 \in a + 1 .. current /\ k - 1 \notin live'
          BY <3>1, <3>2, <4>1, <4>3
        <5>2. a + 1 .. current \subseteq live
          BY <3>1, <3>3
        <5> QED BY <3>3, <5>1, <5>2
      <4> QED BY <4>2, <4>3
    <3> QED BY <3>3
  <2> QED BY <1>1, <2>1, <2>2 DEF Next
<1>2. IInv /\ [Next]_vars => [Restored]_vars
  BY <1>1
<1> QED BY <1>2, InvariantHolds, PTL DEF Spec, UndoRestores

=============================================================================
