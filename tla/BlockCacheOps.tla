---------------------------- MODULE BlockCacheOps ----------------------------
(***************************************************************************)
(* The block cache of debshrew/src/block.rs as pure operators.             *)
(*                                                                         *)
(* A cache is a sequence of cached blocks, oldest first: the VecDeque      *)
(* `blocks`.  A cached block is a record with at least the fields          *)
(*   height  - metadata.height                                             *)
(*   hash    - metadata.hash                                               *)
(* The remaining fields (state snapshot, CDC messages) are the caller's.   *)
(* Lookups return the FIRST matching block, as Iterator::find does, which  *)
(* matters once a height is cached twice.                                  *)
(***************************************************************************)
EXTENDS Integers, Sequences

\* The answer None of the Option-valued lookups on heights.
NoHeight == -1

\* The positions of the blocks cached for a height.
Positions(blocks, height) == {i \in DOMAIN blocks : blocks[i].height = height}

Least(a, b) == IF a <= b THEN a ELSE b

HasHeight(blocks, height) == Positions(blocks, height) # {}

\* Iterator::position / Iterator::find: the first match.
FirstPosition(blocks, height) ==
  CHOOSE i \in Positions(blocks, height) :
    \A j \in Positions(blocks, height) : i <= j

\* Defined only where HasHeight(blocks, height): Some(block) in the code.
GetBlockAtHeight(blocks, height) == blocks[FirstPosition(blocks, height)]

GetBlockHash(blocks, height) == GetBlockAtHeight(blocks, height).hash

\* The first block of a hash; its callers would take it for the only one.
GetBlockWithHash(blocks, hash) ==
  blocks[CHOOSE i \in DOMAIN blocks :
           blocks[i].hash = hash /\ \A j \in 1 .. i - 1 : blocks[j].hash # hash]

GetLatestBlock(blocks) == blocks[Len(blocks)]

\* The heights at the two ends, whatever lies between them.
LowestHeight(blocks) == IF blocks = << >> THEN NoHeight ELSE Head(blocks).height

HighestHeight(blocks) ==
  IF blocks = << >> THEN NoHeight ELSE GetLatestBlock(blocks).height

\* The positions of the blocks get_cdc_messages_range takes messages from.
Between(blocks, first, last) ==
  {i \in DOMAIN blocks : first <= blocks[i].height /\ blocks[i].height <= last}

\* A slip the runs must notice: push_back without the eviction.
AddBlockUnbounded(blocks, block, maxSize) == Append(blocks, block)

(***************************************************************************)
(* push_back, then pop_front when the cache has outgrown max_size.         *)
(***************************************************************************)
AddBlock(blocks, block, maxSize) ==
  IF Len(blocks) + 1 > maxSize
  THEN Tail(Append(blocks, block))
  ELSE Append(blocks, block)

(***************************************************************************)
(* The heights at which the chain described by newHashes (newHashes[k+1]   *)
(* is the hash at height k, heights 0..Len-1) agrees with the cache.       *)
(***************************************************************************)
CommonHeights(blocks, newHashes) ==
  {k \in 0 .. Len(newHashes) - 1 :
     HasHeight(blocks, k) /\ GetBlockHash(blocks, k) = newHashes[k + 1]}

\* The scan of the descending list stops at the highest agreeing height.
FindCommonAncestor(blocks, newHashes) ==
  LET common == CommonHeights(blocks, newHashes)
  IN  IF common = {} THEN NoHeight
      ELSE CHOOSE k \in common : \A l \in common : l <= k

\* Slips the runs must notice: no truncation, and one block too many kept.
RollbackForgotten(blocks, height) == blocks

RollbackOneTooMany(blocks, height) ==
  SubSeq(blocks, 1, Least(FirstPosition(blocks, height) + 1, Len(blocks)))

\* truncate(index + 1); defined only where HasHeight(blocks, height), Err otherwise.
Rollback(blocks, height) == SubSeq(blocks, 1, FirstPosition(blocks, height))

=============================================================================
