----------------------------- MODULE CdcPipeline -----------------------------
(***************************************************************************)
(* A block's CDC messages on their way to a database: the runtime that     *)
(* caches and inverts them (debshrew/src/runtime.rs), the PostgreSQL sink  *)
(* that buffers and applies them (debshrew/src/sink/mod.rs), driven by     *)
(* process_block and handle_reorg (debshrew/src/synchronizer.rs).          *)
(*                                                                         *)
(* The Synchronizer module says when a block is processed or undone; here  *)
(* that is reduced to what reaches the runtime, and the messages are real: *)
(* a block may carry any messages, also ones that fit nothing, and a       *)
(* height may be undone a second time.  What can be said of the records    *)
(* ends there (`astray`); what the sink does with the messages does not.   *)
(***************************************************************************)
EXTENDS PostgresTables

CONSTANTS
  Emits,        \* the messages a transform may emit
  MaxHeight,    \* bound: the chain does not grow beyond this height
  MaxMessages,  \* bound: messages of one block
  MaxReorgs,    \* bound: how many reorgs are handled
  MaxFaults,    \* bound: transactions that fail for a reason of their own
  BatchSize     \* config batch_size

ASSUME PipelineAssumption ==
  /\ Emits \subseteq Message
  /\ MaxHeight \in Nat \ {0}
  /\ MaxMessages \in Nat /\ MaxReorgs \in Nat /\ MaxFaults \in Nat
  /\ BatchSize \in Nat \ {0}

Height == 1 .. MaxHeight

\* cdc_cache has no entry for a height.
NotCached == <<None>>

VARIABLES
  reorgs,    \* metashrew: the reorgs so far
  faults,    \* transactions that failed by themselves so far
  current,   \* current_height
  redo,      \* the heights handle_reorg has yet to process again
  cdcCache,  \* the runtime's cdc_cache
  buffer,    \* the sink's buffer
  rows,      \* the database: what the row of each id holds
  status,    \* is the service running, or why it ended
  \* History:
  stream,    \* the records as the messages sent so far make them
  direct,    \* what executing those messages one at a time comes to
  before,    \* before[k]: `stream` before the messages of height k
  live,      \* the heights whose messages are in force: those the block cache has
  edges,     \* the rows of `direct` between two calls of send
  astray     \* whether messages that fit no longer can be told from the code

sinkVars == <<buffer, rows, status, faults, stream, direct, edges>>

vars == <<reorgs, current, redo, cdcCache, before, live, astray, sinkVars>>

-----------------------------------------------------------------------------
(***************************************************************************)
(* PostgresSink::send.  The buffer is cleared before the transaction: a    *)
(* batch that fails, or whose connection does, is gone.                    *)
(***************************************************************************)

\* Slips the runs must notice: a full buffer is kept; a buffer is not cleared;
\* a transaction takes BatchSize messages, not whole batches.
BufferedTooLong(messages) ==
  /\ Len(buffer \o messages) <= BatchSize
  /\ buffer' = buffer \o messages
  /\ UNCHANGED <<rows, status, faults>>

CommittedUncleared(messages) ==
  LET tx == Transaction(rows, buffer \o messages) IN
  /\ Len(buffer \o messages) >= BatchSize
  /\ ~ tx.failed
  /\ buffer' = buffer \o messages
  /\ rows' = tx.rows
  /\ UNCHANGED <<status, faults>>

CommittedInChunks(messages) ==
  LET all == buffer \o messages
      tx == Transaction(rows, SubSeq(all, 1, BatchSize)) IN
  /\ Len(all) >= BatchSize
  /\ ~ tx.failed
  /\ buffer' = SubSeq(all, BatchSize + 1, Len(all))
  /\ rows' = tx.rows
  /\ UNCHANGED <<status, faults>>

Buffered(messages) ==
  /\ Len(buffer \o messages) < BatchSize
  /\ buffer' = buffer \o messages
  /\ UNCHANGED <<rows, status, faults>>

Committed(messages) ==
  LET tx == Transaction(rows, buffer \o messages) IN
  /\ Len(buffer \o messages) >= BatchSize
  /\ ~ tx.failed
  /\ buffer' = << >>
  /\ rows' = tx.rows
  /\ UNCHANGED <<status, faults>>

Rejected(messages) ==
  /\ Len(buffer \o messages) >= BatchSize
  /\ Transaction(rows, buffer \o messages).failed
  /\ buffer' = << >>
  /\ status' = "rejected"
  /\ UNCHANGED <<rows, faults>>

\* The connection is lost before COMMIT takes effect, or before it is answered.
Disconnected(messages) ==
  /\ Len(buffer \o messages) >= BatchSize
  /\ faults < MaxFaults
  /\ faults' = faults + 1
  /\ buffer' = << >>
  /\ status' = "disconnected"
  /\ LET tx == Transaction(rows, buffer \o messages) IN
     rows' \in {rows} \cup (IF tx.failed THEN {} ELSE {tx.rows})

Send(messages) ==
  /\ \/ Buffered(messages) \/ Committed(messages)
     \/ Rejected(messages) \/ Disconnected(messages)
  /\ stream' = Replay(stream, messages)
  /\ direct' = ExecuteAll(direct, messages)
  /\ edges' = IF direct'.failed THEN edges ELSE edges \cup {direct'.rows}

-----------------------------------------------------------------------------
Init ==
  /\ reorgs = 0
  /\ faults = 0
  /\ current = 0
  /\ redo = << >>
  /\ cdcCache = [k \in Height |-> NotCached]
  /\ buffer = << >>
  /\ rows = NoRows
  /\ status = "running"
  /\ stream = EmptyTable
  /\ direct = Begin(NoRows)
  /\ before = [k \in Height |-> EmptyTable]
  /\ live = {}
  /\ edges = {NoRows}
  /\ astray = FALSE

\* Every statement finds the row it is about.
AllAddressed(messages) == \A i \in DOMAIN messages : Addressed(messages[i])

\* process_block: runtime.process_block(k) caches the messages, add_block the
\* block, and sink.send takes them.  A block that is not available is passed over.
ProcessBlock(k) ==
  /\ \/ \E messages \in BoundedSeq(Emits, MaxMessages) :
          /\ cdcCache' = [cdcCache EXCEPT ![k] = messages]
          /\ Send(messages)
          /\ before' = [before EXCEPT ![k] = stream]
          /\ live' = live \cup {k}
          /\ astray' = (astray \/ ~ FitsAll(stream, messages) \/ ~ AllAddressed(messages))
     \/ UNCHANGED <<cdcCache, before, live, astray, sinkVars>>
  /\ UNCHANGED reorgs

\* run, at the end of the chain known so far.
NextBlock ==
  /\ status = "running"
  /\ redo = << >>
  /\ current < MaxHeight
  /\ ProcessBlock(current + 1)
  /\ current' = current + 1
  /\ UNCHANGED redo

\* The end of handle_reorg: the new chain's blocks; current_height stays.
RedoBlock ==
  /\ status = "running"
  /\ redo # << >>
  /\ ProcessBlock(Head(redo))
  /\ redo' = Tail(redo)
  /\ UNCHANGED current

\* A slip the runs must notice: the lowest height is inverted first.
InverseRangeUpwards(a) ==
  FlattenSeq([i \in 1 .. current - a |-> InverseMessages(cdcCache[a + i])])

\* The inverse messages of the heights above a.
InverseRange(a) == InverseBlocks(cdcCache, a, current)

\* run finds another hash at current_height, whose block it has in the cache.
ReorgFound ==
  /\ status = "running"
  /\ redo = << >>
  /\ current \in live
  /\ reorgs < MaxReorgs
  /\ reorgs' = reorgs + 1

\* handle_reorg(n) up to the rollback, with common ancestor a.  The range goes up
\* to current_height, which no undo lowers: it may have heights that an earlier
\* one undid, or whose block was not available.
Undo ==
  /\ ReorgFound
  /\ \E a \in live :
       /\ a < current
       /\ \A k \in a + 1 .. current : cdcCache[k] # NotCached
       /\ LET messages == InverseRange(a) IN
          /\ \/ messages # << >> /\ Send(messages)
             \/ messages = << >> /\ UNCHANGED sinkVars
          /\ astray' = (\/ astray
                        \/ ~ (a + 1 .. current \subseteq live)
                        \/ ~ AllAddressed(messages))
       /\ live' = live \ (a + 1 .. current)
       /\ \E n \in a .. current - 1 : redo' = [i \in 1 .. n - a |-> a + i]
  /\ UNCHANGED <<current, cdcCache, before>>

\* No common ancestor, or a height without messages to invert: the service ends.
UndoFails ==
  /\ ReorgFound
  /\ status' = "failed"
  /\ UNCHANGED <<current, redo, cdcCache, before, live, astray,
                 buffer, rows, faults, stream, direct, edges>>

Next == NextBlock \/ RedoBlock \/ Undo \/ UndoFails

Spec == Init /\ [][Next]_vars

\* The service goes on with whatever it has to do.
FairSpec == Spec /\ WF_vars(NextBlock) /\ WF_vars(RedoBlock)

-----------------------------------------------------------------------------
(***************************************************************************)
(* Properties.                                                             *)
(***************************************************************************)

\* Every variable has its type; the buffer never reaches the batch size.
TypeOK ==
  /\ current \in 0 .. MaxHeight
  /\ reorgs \in 0 .. MaxReorgs /\ faults \in 0 .. MaxFaults
  /\ redo \in Seq(Height)
  /\ cdcCache \in [Height -> {NotCached} \cup Seq(Message)]
  /\ buffer \in Seq(Message) /\ Len(buffer) < BatchSize
  /\ rows \in [Ids -> Record]
  /\ status \in {"running", "failed", "rejected", "disconnected"}
  /\ stream \in Table
  /\ direct \in [rows : [Ids -> Record], failed : BOOLEAN]
  /\ before \in [Height -> Table]
  /\ live \subseteq Height
  /\ edges \subseteq [Ids -> Record]
  /\ astray \in BOOLEAN

\* Messages that all fitted were all executed, and the rows are the records.
RowsAreRecords == ~ astray => ~ direct.failed /\ Holds(direct.rows, stream)

(***************************************************************************)
(* Batches change nothing: the database with the buffered messages applied *)
(* is what it would be had every message been executed as it was sent; and *)
(* as long as the transform's messages fitted and no height was undone     *)
(* that was not in force, these are the records the stream describes.      *)
(* Nothing is lost, applied twice or out of order on the way.              *)
(***************************************************************************)
NothingLost ==
  status = "running" => Transaction(rows, buffer) = direct /\ RowsAreRecords

(***************************************************************************)
(* The database never holds a part of a block, or of a reorg's undo: what  *)
(* it holds is what it would have held between two calls of send, and is   *)
(* so whether or not a COMMIT that was never answered took effect, and     *)
(* whatever the messages are.                                              *)
(***************************************************************************)
WholeBlocks == rows \in edges

(***************************************************************************)
(* Only messages that did not fit when they were emitted, or the undo of a *)
(* height that was not in force, make the database refuse a batch: across  *)
(* batches and across reorgs, whatever fitted still fits.                  *)
(***************************************************************************)
NothingRejected == status = "rejected" => astray

(***************************************************************************)
(* Unless a height of the range was not in force, the inverse messages of  *)
(* a reorg bring every record back to what it was at the common ancestor.  *)
(***************************************************************************)
UndoRestores ==
  [][ \A k \in Height :
        k \in live /\ k \notin live' /\ k - 1 \notin live \ live' /\ ~ astray'
          => stream' = before[k] ]_vars

-----------------------------------------------------------------------------
(***************************************************************************)
(* The inductive invariant.                                                *)
(***************************************************************************)

\* The records once the messages of height k were sent.
After(k) == Replay(before[k], cdcCache[k])

\* What the cache has of a height in force is what was sent for it, and of two
\* heights in force the upper one was processed upon the lower.
CacheIsWhatWasSent ==
  \A k \in live :
    /\ cdcCache[k] \in Seq(Message)
    /\ ~ astray =>
         /\ FitsAll(before[k], cdcCache[k])
         /\ k + 1 \in live => before[k + 1] = After(k)

\* Between reorgs nothing was sent since the messages of the current height, if
\* these are in force.
TopIsLast ==
  /\ live \subseteq 1 .. current
  /\ redo = << >> /\ current \in live /\ ~ astray => stream = After(current)

\* What is left to process again lies below the current height, in order, upon
\* the last height in force.
RedoIsNext ==
  redo # << >> =>
    /\ \A i \in DOMAIN redo : redo[i] = Head(redo) + i - 1 /\ redo[i] < current
    /\ live \cap (Head(redo) .. current) = {}
    /\ Head(redo) - 1 \in live /\ ~ astray => stream = After(Head(redo) - 1)

(***************************************************************************)
(* What the properties rest on: the sink holds what was sent between its   *)
(* rows and its buffer, and the cache holds what would take it back.       *)
(***************************************************************************)
IInv ==
  /\ TypeOK
  /\ NothingLost /\ WholeBlocks /\ NothingRejected
  /\ ~ direct.failed => direct.rows \in edges
  /\ RowsAreRecords
  /\ CacheIsWhatWasSent
  /\ TopIsLast
  /\ RedoIsNext

-----------------------------------------------------------------------------
(***************************************************************************)
(* What the documents say of the sink, and the code does not do.           *)
(***************************************************************************)

(***************************************************************************)
(* docs/configuration.md:100: flush_interval is "the interval to flush     *)
(* messages".  What is buffered would not stay so for ever, even when the  *)
(* chain does.                                                             *)
(***************************************************************************)
BufferDrains == (buffer # << >>) ~> (buffer = << >>)

=============================================================================
