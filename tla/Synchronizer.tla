---------------------------- MODULE Synchronizer ----------------------------
(***************************************************************************)
(* The block synchronizer of debshrew (debshrew/src/synchronizer.rs) with  *)
(* the runtime's message cache, the block cache and the sink it drives,    *)
(* against a metashrew server whose chain grows and reorganises at any     *)
(* moment.                                                                 *)
(*                                                                         *)
(* One task runs `run`; every RPC, transform run and sink call is a step   *)
(* of its own, so the chain may change between any two of them.  The       *)
(* locals of `run`, `process_block` and `handle_reorg` that live across an *)
(* await are variables here.                                               *)
(*                                                                         *)
(* A block is identified by its height and the branch it was mined on: a   *)
(* reorg starts a branch that was never seen before, so <<height, branch>> *)
(* is a block hash.  The transform emits at most one row per block, as     *)
(* debshrew-minimal does: a Create keyed by the height, whose content is   *)
(* the block the views showed while the transform ran.                     *)
(***************************************************************************)
EXTENDS BlockCacheOps

CONSTANTS
  MaxHeight,      \* bound: the chain does not grow beyond this height
  MaxReorgs,      \* bound: how many times metashrew switches branch
  MaxFaults,      \* bound: transient failures (RPC, transform or sink errors)
  CacheSize,      \* config cache_size
  StartHeight,    \* config start_height, 0 by default
  Width,          \* one more than the largest u32
  QuietHeights    \* heights whose block makes the transform emit nothing

ASSUME SynchronizerAssumption ==
  /\ MaxHeight \in Nat \ {0}
  /\ MaxReorgs \in Nat
  /\ MaxFaults \in Nat
  /\ CacheSize \in Nat \ {0}
  /\ StartHeight \in 0 .. MaxHeight
  /\ Width \in Nat \ {0}
  /\ QuietHeights \subseteq 1 .. MaxHeight

Height == 0 .. MaxHeight
Branch == 0 .. MaxReorgs

\* cdc_cache has no entry for a height.
NoBlock == -1

VARIABLES
  chain,      \* metashrew: chain[k] is the branch of the block at height k >= 1
  branch,     \* metashrew: the branch new blocks are mined on
  faults,     \* transient failures so far
  pc,         \* the await the task is parked at, or "stopped"
  error,      \* why the task stopped
  current,    \* current_height
  reported,   \* metashrew_height of this poll
  h,          \* the height process_block is working on
  last,       \* the last height of the range being processed
  reorging,   \* is process_block called by handle_reorg (or by run)?
  hash,       \* the block hash process_block has read
  newHeight,  \* test_height of the scan, then new_height of handle_reorg
  newHashes,  \* new_hashes read so far, for heights 0, 1, ...
  ancestor,   \* common_ancestor
  cache,      \* the BlockCache
  cdc,        \* the runtime's cdc_cache: the block content last transformed
  rows        \* what the sink's messages amount to: Creates minus Deletes

envVars == <<chain, branch>>
scanVars == <<newHeight, newHashes, ancestor>>
rangeVars == <<h, last, reorging, hash>>
dataVars == <<cache, cdc, rows>>
vars == <<chain, branch, faults, pc, error, current, reported, h, last,
          reorging, hash, newHeight, newHashes, ancestor, cache, cdc, rows>>

Tip == Len(chain)

\* The genesis block belongs to every branch.
HashAt(k) == IF k = 0 THEN 0 ELSE chain[k]

CachedBlock == [height : Height, hash : Branch, data : Branch]

Errors == {"none", "rpc", "runtime", "sink", "no_ancestor", "no_inverse",
           "shutdown"}

Init ==
  /\ chain = <<>>
  /\ branch = 0
  /\ faults = 0
  /\ pc = "poll"
  /\ error = "none"
  /\ current = StartHeight
  /\ reported = 0
  /\ h = 0
  /\ last = 0
  /\ reorging = FALSE
  /\ hash = 0
  /\ newHeight = 0
  /\ newHashes = <<>>
  /\ ancestor = 0
  /\ cache = <<>>
  /\ cdc = [k \in Height |-> NoBlock]
  /\ rows = [k \in Height |-> [b \in Branch |-> 0]]

-----------------------------------------------------------------------------
(***************************************************************************)
(* The metashrew server.                                                   *)
(***************************************************************************)
MineBlock ==
  /\ Tip < MaxHeight
  /\ chain' = Append(chain, branch)
  /\ UNCHANGED <<branch, faults, pc, error, current, reported, rangeVars,
                 scanVars, dataVars>>

\* The blocks above the fork are gone; the new branch's arrive by MineBlock.
SwitchBranch ==
  /\ branch < MaxReorgs
  /\ \E fork \in 0 .. Tip - 1 : chain' = SubSeq(chain, 1, fork)
  /\ branch' = branch + 1
  /\ UNCHANGED <<faults, pc, error, current, reported, rangeVars, scanVars,
                 dataVars>>

\* A call fails for a reason of its own, within the bound.
TransientFault ==
  /\ faults < MaxFaults
  /\ faults' = faults + 1

\* A call about a height fails: metashrew has no such block, or a fault.
CannotAnswer(k) ==
  \/ k > Tip /\ UNCHANGED faults
  \/ TransientFault

-----------------------------------------------------------------------------
(***************************************************************************)
(* Control: where the task goes next.                                      *)
(***************************************************************************)
Stop(why) ==
  /\ pc' = "stopped"
  /\ error' = why

\* End of the loop body: sleep for the polling interval, then poll again.
SleepThenPoll ==
  /\ pc' = "poll"
  /\ UNCHANGED <<error, rangeVars>>

ProcessRange(from, to, inReorg) ==
  /\ pc' = "hash"
  /\ h' = from
  /\ last' = to
  /\ reorging' = inReorg
  /\ UNCHANGED <<error, hash>>

\* process_block returned Ok: only `run` moves current_height.
NextInRange ==
  /\ current' = IF reorging THEN current ELSE h
  /\ IF h < last THEN pc' = "hash" /\ h' = h + 1
                 ELSE pc' = "poll" /\ h' = h
  /\ UNCHANGED <<error, last, reorging, hash>>

HandleReorg(height) ==
  /\ pc' = "fetch"
  /\ newHeight' = height
  /\ newHashes' = <<>>
  /\ UNCHANGED <<error, ancestor, rangeVars>>

-----------------------------------------------------------------------------
(***************************************************************************)
(* What a batch of messages does to the rows a consumer holds.             *)
(***************************************************************************)
Insert(table, k, b) ==
  IF k \in QuietHeights THEN table
  ELSE [table EXCEPT ![k][b] = @ + 1]

\* Slips the runs must notice: the range of heights off by one at its bottom.
RetractTooShallow(table, from, to) ==
  [k \in Height |-> [b \in Branch |->
     IF k \in from + 1 .. to /\ k \notin QuietHeights /\ cdc[k] = b
     THEN table[k][b] - 1
     ELSE table[k][b]]]

RetractTooDeep(table, from, to) ==
  [k \in Height |-> [b \in Branch |->
     IF k \in from - 1 .. to /\ k \notin QuietHeights /\ cdc[k] = b
     THEN table[k][b] - 1
     ELSE table[k][b]]]

\* The inverse messages of the heights from .. to, from the cached messages.
Retract(table, from, to) ==
  [k \in Height |-> [b \in Branch |->
     IF k \in from .. to /\ k \notin QuietHeights /\ cdc[k] = b
     THEN table[k][b] - 1
     ELSE table[k][b]]]

-----------------------------------------------------------------------------
(***************************************************************************)
(* run: the polling loop.                                                  *)
(***************************************************************************)
GetHeight ==
  /\ pc = "poll"
  /\ \/ /\ reported' = Tip
        /\ pc' = "count"
        /\ UNCHANGED <<faults, error>>
     \/ /\ TransientFault
        /\ Stop("rpc")
        /\ UNCHANGED reported
  /\ UNCHANGED <<envVars, current, rangeVars, scanVars, dataVars>>

\* get_actual_block_count: the node's count cut to a u32, or the default 1 on
\* any failure.
BlockCounts == {1, Tip % Width}

\* A slip the runs must notice: no recovery from a wrong block count.
DiscrepancyIgnored(count) == FALSE

Discrepancy(count) ==
  /\ reported > count
  /\ count <= current
  /\ current + 1 <= reported

GetBlockCount ==
  /\ pc = "count"
  /\ \E count \in BlockCounts :
       LET target == Least(reported, count) IN
       \/ /\ Discrepancy(count)
          /\ ProcessRange(current + 1, current + 1, FALSE)
       \/ /\ ~ Discrepancy(count)
          /\ target > current
          /\ ProcessRange(current + 1, target, FALSE)
       \/ /\ ~ Discrepancy(count)
          /\ target <= current
          /\ current = 0 \/ ~ HasHeight(cache, current)
          /\ SleepThenPoll
       \/ /\ ~ Discrepancy(count)
          /\ target <= current
          /\ current > 0 /\ HasHeight(cache, current)
          /\ pc' = "check"
          /\ UNCHANGED <<error, rangeVars>>
  /\ UNCHANGED <<envVars, faults, current, reported, scanVars, dataVars>>

\* The reorg check: the hash at current_height against the cached one.
CheckTip ==
  /\ pc = "check"
  /\ current <= Tip
  /\ IF HashAt(current) = GetBlockHash(cache, current)
     THEN SleepThenPoll /\ UNCHANGED scanVars
     ELSE HandleReorg(current - 1)
  /\ UNCHANGED <<envVars, faults, current, reported, dataVars>>

\* No hash at current_height: scan downwards, unless there is nothing below.
CheckTipFails ==
  /\ pc = "check"
  /\ CannotAnswer(current)
  /\ IF current = 1
     THEN SleepThenPoll /\ UNCHANGED scanVars
     ELSE /\ pc' = "scan"
          /\ newHeight' = current - 1
          /\ UNCHANGED <<error, rangeVars, newHashes, ancestor>>
  /\ UNCHANGED <<envVars, current, reported, dataVars>>

ScanDown ==
  /\ pc = "scan"
  /\ newHeight <= Tip
  /\ HandleReorg(newHeight)
  /\ UNCHANGED <<envVars, faults, current, reported, dataVars>>

\* A slip the runs must notice: the scan does not move on.
ScanDownFailsInPlace ==
  /\ pc = "scan"
  /\ CannotAnswer(newHeight)
  /\ UNCHANGED <<envVars, pc, error, current, reported, rangeVars, scanVars,
                 dataVars>>

ScanDownFails ==
  /\ pc = "scan"
  /\ CannotAnswer(newHeight)
  /\ IF newHeight = 1
     THEN HandleReorg(0)
     ELSE /\ newHeight' = newHeight - 1
          /\ UNCHANGED <<pc, error, rangeVars, newHashes, ancestor>>
  /\ UNCHANGED <<envVars, current, reported, dataVars>>

-----------------------------------------------------------------------------
(***************************************************************************)
(* process_block(h).                                                       *)
(***************************************************************************)
ReadHash ==
  /\ pc = "hash"
  /\ h <= Tip
  /\ hash' = HashAt(h)
  /\ pc' = "transform"
  /\ UNCHANGED <<envVars, faults, error, current, reported, h, last, reorging,
                 scanVars, dataVars>>

\* "Block hash not found" or any error of code -32000: Ok(()) unprocessed.
ReadHashNotFound ==
  /\ pc = "hash"
  /\ CannotAnswer(h)
  /\ NextInRange
  /\ UNCHANGED <<envVars, reported, scanVars, dataVars>>

ReadHashFails ==
  /\ pc = "hash"
  /\ TransientFault
  /\ Stop("rpc")
  /\ UNCHANGED <<envVars, current, reported, rangeVars, scanVars, dataVars>>

\* A slip the runs must notice: the first messages of a height are kept.
TransformKeepsFirst ==
  /\ pc = "transform"
  /\ h <= Tip
  /\ cdc' = IF cdc[h] = NoBlock THEN [cdc EXCEPT ![h] = HashAt(h)] ELSE cdc
  /\ cache' = AddBlock(cache,
                       [height |-> h, hash |-> hash, data |-> HashAt(h)],
                       CacheSize)
  /\ pc' = "send"
  /\ UNCHANGED <<envVars, faults, error, current, reported, rangeVars,
                 scanVars, rows>>

(***************************************************************************)
(* runtime.process_block, which caches the messages, and cache.add_block.  *)
(* The views answer for the chain as it is now, not as it was when the     *)
(* hash was read; without a block at h the transform reports an error.     *)
(***************************************************************************)
Transform ==
  /\ pc = "transform"
  /\ h <= Tip
  /\ cdc' = [cdc EXCEPT ![h] = HashAt(h)]
  /\ cache' = AddBlock(cache,
                       [height |-> h, hash |-> hash, data |-> HashAt(h)],
                       CacheSize)
  /\ pc' = "send"
  /\ UNCHANGED <<envVars, faults, error, current, reported, rangeVars,
                 scanVars, rows>>

TransformFails ==
  /\ pc = "transform"
  /\ CannotAnswer(h)
  /\ Stop("runtime")
  /\ UNCHANGED <<envVars, current, reported, rangeVars, scanVars, dataVars>>

SendBlock ==
  /\ pc = "send"
  /\ rows' = Insert(rows, h, cdc[h])
  /\ NextInRange
  /\ UNCHANGED <<envVars, faults, reported, scanVars, cache, cdc>>

\* The sink reports an error, having delivered the row or not.
SendBlockFails ==
  /\ pc = "send"
  /\ TransientFault
  /\ rows' \in {rows, Insert(rows, h, cdc[h])}
  /\ Stop("sink")
  /\ UNCHANGED <<envVars, current, reported, rangeVars, scanVars, cache, cdc>>

-----------------------------------------------------------------------------
(***************************************************************************)
(* handle_reorg(newHeight).                                                *)
(***************************************************************************)
FetchHash ==
  /\ pc = "fetch"
  /\ Len(newHashes) <= Tip
  /\ newHashes' = Append(newHashes, HashAt(Len(newHashes)))
  /\ pc' = IF Len(newHashes) = newHeight THEN "invert" ELSE "fetch"
  /\ UNCHANGED <<envVars, faults, error, current, reported, rangeVars,
                 newHeight, ancestor, dataVars>>

FetchHashFails ==
  /\ pc = "fetch"
  /\ CannotAnswer(Len(newHashes))
  /\ Stop("rpc")
  /\ UNCHANGED <<envVars, current, reported, rangeVars, scanVars, dataVars>>

\* Find the ancestor and compute the inverse messages of every height above.
ComputeInverse ==
  /\ pc = "invert"
  /\ LET found == FindCommonAncestor(cache, newHashes) IN
     \/ /\ found = NoHeight
        /\ Stop("no_ancestor")
        /\ UNCHANGED ancestor
     \/ /\ found # NoHeight
        /\ \E k \in found + 1 .. current : cdc[k] = NoBlock
        /\ Stop("no_inverse")
        /\ UNCHANGED ancestor
     \/ /\ found # NoHeight
        /\ \A k \in found + 1 .. current : cdc[k] # NoBlock
        /\ ancestor' = found
        /\ pc' = "undo"
        /\ UNCHANGED error
  /\ UNCHANGED <<envVars, faults, current, reported, rangeVars, newHeight,
                 newHashes, dataVars>>

\* A slip the runs must notice: the inverse messages are computed, not sent.
UndoBlocksUnsent ==
  /\ pc = "undo"
  /\ cache' = Rollback(cache, ancestor)
  /\ IF ancestor < newHeight
     THEN ProcessRange(ancestor + 1, newHeight, TRUE)
     ELSE SleepThenPoll
  /\ UNCHANGED <<envVars, faults, current, reported, scanVars, cdc, rows>>

\* Send the inverse messages, roll the cache back, process the new chain.
UndoBlocks ==
  /\ pc = "undo"
  /\ rows' = Retract(rows, ancestor + 1, current)
  /\ cache' = Rollback(cache, ancestor)
  /\ IF ancestor < newHeight
     THEN ProcessRange(ancestor + 1, newHeight, TRUE)
     ELSE SleepThenPoll
  /\ UNCHANGED <<envVars, faults, current, reported, scanVars, cdc>>

\* The sink fails with the inverse messages delivered down to some height.
UndoBlocksFails ==
  /\ pc = "undo"
  /\ (ancestor + 1 .. current) \ QuietHeights # {}
  /\ TransientFault
  /\ \E k \in ancestor + 1 .. current + 1 : rows' = Retract(rows, k, current)
  /\ Stop("sink")
  /\ UNCHANGED <<envVars, current, reported, rangeVars, scanVars, cache, cdc>>

-----------------------------------------------------------------------------
(***************************************************************************)
(* Ctrl+C (main.rs): the future of run is dropped at whatever await it is  *)
(* parked at; a sink call may have delivered part of its messages.         *)
(***************************************************************************)
Shutdown ==
  /\ pc # "stopped"
  /\ Stop("shutdown")
  /\ \/ UNCHANGED rows
     \/ pc = "send" /\ rows' = Insert(rows, h, cdc[h])
     \/ /\ pc = "undo"
        /\ \E k \in ancestor + 1 .. current : rows' = Retract(rows, k, current)
  /\ UNCHANGED <<envVars, faults, current, reported, rangeVars, scanVars,
                 cache, cdc>>

Metashrew == MineBlock \/ SwitchBranch

Run ==
  \/ GetHeight \/ GetBlockCount
  \/ CheckTip \/ CheckTipFails \/ ScanDown \/ ScanDownFails

ProcessBlock ==
  \/ ReadHash \/ ReadHashNotFound \/ ReadHashFails
  \/ Transform \/ TransformFails
  \/ SendBlock \/ SendBlockFails

Reorg ==
  \/ FetchHash \/ FetchHashFails
  \/ ComputeInverse
  \/ UndoBlocks \/ UndoBlocksFails

Task == Run \/ ProcessBlock \/ Reorg

Next == Metashrew \/ Task \/ Shutdown

Spec == Init /\ [][Next]_vars

\* tokio keeps polling the one task: it takes its next step eventually.
FairSpec == Spec /\ WF_vars(Task)

-----------------------------------------------------------------------------
(***************************************************************************)
(* Properties.                                                             *)
(***************************************************************************)
PCs == {"poll", "count", "check", "scan", "hash", "transform", "send",
        "fetch", "invert", "undo", "stopped"}

\* Every variable has the type the code gives it, within the bounds.
TypeOK ==
  /\ chain \in Seq(Branch) /\ Tip <= MaxHeight
  /\ branch \in Branch
  /\ faults \in 0 .. MaxFaults
  /\ pc \in PCs
  /\ error \in Errors
  /\ current \in Height
  /\ reported \in Height
  /\ h \in Height /\ last \in Height
  /\ reorging \in BOOLEAN
  /\ hash \in Branch
  /\ newHeight \in Height
  /\ newHashes \in Seq(Branch)
  /\ ancestor \in Height
  /\ cache \in Seq(CachedBlock) /\ Len(cache) <= CacheSize
  /\ cdc \in [Height -> Branch \cup {NoBlock}]
  /\ rows \in [Height -> [Branch -> Int]]

(***************************************************************************)
(* The cache is strictly ordered by height, so that `find` by height, the  *)
(* eviction of the front and the truncation of a rollback mean what they   *)
(* are used for.  add_block checks nothing: it is run and handle_reorg     *)
(* together that never add a height at or below a cached one.              *)
(***************************************************************************)
CacheOrdered ==
  \A i, j \in DOMAIN cache : i < j => cache[i].height < cache[j].height

(***************************************************************************)
(* The inverse messages the runtime would compute for a cached height are  *)
(* those of the cached block, although cdc_cache is never rolled back and  *)
(* the block cache is.                                                     *)
(***************************************************************************)
InverseMatchesCache ==
  \A i \in DOMAIN cache : cdc[cache[i].height] = cache[i].data

(***************************************************************************)
(* A consumer never holds two versions of a height, or one version twice;  *)
(* and whatever it holds, the runtime still has the messages to undo it.   *)
(***************************************************************************)
OneVersionPerHeight ==
  \A k \in Height, b \in Branch :
    /\ rows[k][b] <= 1
    /\ rows[k][b] > 0 => cdc[k] = b

(***************************************************************************)
(* The strengthening that makes the three inductive.  While the task runs, *)
(* the locals that survive an await relate to current_height as the code's *)
(* ranges imply, nothing cached and no row is above the height reached,    *)
(* and a height that emits nothing has no row.                             *)
(***************************************************************************)
Processing == pc \in {"hash", "transform", "send"}

ControlOK ==
  /\ Processing =>
       h <= last /\ (IF reorging THEN last < current ELSE h = current + 1)
  /\ pc = "send" => cdc[h] # NoBlock
  /\ pc = "check" => current >= 1 /\ HasHeight(cache, current)
  /\ pc = "scan" => newHeight \in 1 .. current - 1
  /\ pc \in {"fetch", "invert", "undo"} => newHeight < current
  /\ pc = "fetch" => Len(newHashes) <= newHeight
  /\ pc = "invert" => Len(newHashes) = newHeight + 1
  /\ pc = "undo" => ancestor <= newHeight /\ HasHeight(cache, ancestor)

\* The height up to which rows may be in force.
RowsReach == IF Processing THEN h - 1 ELSE current

\* The block being sent is cached before the sink has it.
CacheReach == IF pc = "send" THEN h ELSE RowsReach

NothingAboveReach ==
  pc # "stopped" =>
    /\ \A i \in DOMAIN cache : cache[i].height <= CacheReach
    /\ \A k \in Height, b \in Branch : k > RowsReach => rows[k][b] <= 0

QuietHeightsHaveNoRows ==
  \A k \in QuietHeights, b \in Branch : rows[k][b] <= 0

IInv ==
  /\ TypeOK
  /\ ControlOK
  /\ CacheOrdered
  /\ InverseMatchesCache
  /\ OneVersionPerHeight
  /\ NothingAboveReach
  /\ QuietHeightsHaveNoRows

(***************************************************************************)
(* A completed undo leaves the sink's rows and the cached blocks at and    *)
(* below the common ancestor as they were, and no cached block above it.   *)
(***************************************************************************)
AncestorKept ==
  [][ pc = "undo" /\ pc' \notin {"undo", "stopped"} =>
        /\ \A k \in 0 .. ancestor : rows'[k] = rows[k]
        /\ \A k \in Height : HasHeight(cache', k) <=>
                               k <= ancestor /\ HasHeight(cache, k) ]_vars

\* The blocks whose rows a consumer holds.
InForce == {p \in Height \X Branch : rows[p[1]][p[2]] > 0}

Stack == INSTANCE CdcStack
         WITH Height <- Height, Version <- Branch, inForce <- InForce

\* The stream implements the stack of docs/cdc-concepts.md.
ImplementsStack == Stack!Spec

(***************************************************************************)
(* Whatever happens, the task comes back to polling or stops: neither the  *)
(* downward scan nor the reprocessing after a reorg runs on for ever.      *)
(***************************************************************************)
PollsAgain == []<>(pc \in {"poll", "stopped"})

(***************************************************************************)
(* While the chain only grows and calls succeed, every block is reached,   *)
(* unless the service is shut down, whatever block count the node reports: *)
(* none (1), one cut to 32 bits, or its own.                               *)
(***************************************************************************)
CatchesUp ==
  \A k \in Height :
    (Tip >= k) ~> (current >= k \/ pc = "stopped" \/ branch > 0 \/ faults > 0)

-----------------------------------------------------------------------------
(***************************************************************************)
(* What comments and documents say of the code, and the code does not do.  *)
(***************************************************************************)

(***************************************************************************)
(* docs/architecture.md:85: reorgs are detected "by comparing block        *)
(* hashes".  run compares one hash, that of current_height: it detects     *)
(* every reorg only if agreement there means agreement of the whole cache. *)
(***************************************************************************)
TipAgreementSuffices ==
  /\ pc = "poll"
  /\ HasHeight(cache, current)
  /\ current <= Tip
  /\ HashAt(current) = GetBlockHash(cache, current)
  => \A i \in DOMAIN cache : cache[i].hash = HashAt(cache[i].height)

(***************************************************************************)
(* synchronizer.rs:293-294: a block that is not available yet "will [be]   *)
(* retried later".  Once current_height has passed a height, its block     *)
(* would have been through the transform.                                  *)
(***************************************************************************)
NoHeightSkipped ==
  \A k \in StartHeight + 1 .. current : cdc[k] # NoBlock

(***************************************************************************)
(* docs/cdc-concepts.md:139: inverse messages "undo the effects of         *)
(* previous CDC messages".  No row would be withdrawn that is not there.   *)
(***************************************************************************)
NothingUndoneTwice ==
  \A k \in Height, b \in Branch : rows[k][b] >= 0

=============================================================================
