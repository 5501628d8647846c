------------------------- MODULE SynchronizerProofs -------------------------
(***************************************************************************)
(* The synchronizer's safety properties for every chain length, cache      *)
(* size, start height, number of reorgs and number of failures.            *)
(***************************************************************************)
EXTENDS Synchronizer, BlockCacheProofs

\* The bounds are numbers, heights and branches are naturals.
LEMMA Constants ==
  /\ MaxHeight \in Nat /\ MaxHeight >= 1
  /\ MaxReorgs \in Nat /\ MaxFaults \in Nat
  /\ CacheSize \in Nat \ {0}
  /\ StartHeight \in Height
  /\ Height = 0 .. MaxHeight /\ Branch = 0 .. MaxReorgs
  /\ 0 \in Height /\ 0 \in Branch
  /\ NoBlock \notin Branch
  /\ QuietHeights \subseteq Height
BY SynchronizerAssumption DEF Height, Branch, NoBlock

\* The hash of an existing block is the hash of some branch.
LEMMA HashAtType ==
  ASSUME TypeOK, NEW k \in Nat, k <= Tip
  PROVE  HashAt(k) \in Branch
<1>1. CASE k = 0
  BY <1>1, Constants DEF HashAt
<1>2. CASE k # 0
  BY <1>2, ElementOfSeq DEF HashAt, TypeOK, Tip
<1>. QED
  BY <1>1, <1>2

\* The numeric part of the types.
LEMMA Numbers ==
  ASSUME TypeOK
  PROVE  /\ MaxHeight \in Nat /\ Height = 0 .. MaxHeight
         /\ Tip \in Nat /\ Tip <= MaxHeight
         /\ current \in Height /\ reported \in Height
         /\ h \in Height /\ last \in Height
         /\ newHeight \in Height /\ ancestor \in Height
         /\ Len(newHashes) \in Nat
BY Constants, LenProperties DEF TypeOK, Tip

\* A fault counts, within its bound.
LEMMA FaultsCounted ==
  ASSUME TypeOK, UNCHANGED faults \/ TransientFault
  PROVE  faults' \in 0 .. MaxFaults
BY Constants DEF TypeOK, TransientFault

Table == [Height -> [Branch -> Int]]

\* A sent block adds one to its own cell, unless it emits nothing.
LEMMA InsertCells ==
  ASSUME NEW table \in Table, NEW k \in Height, NEW b \in Branch
  PROVE  /\ Insert(table, k, b) \in Table
         /\ \A j \in Height, c \in Branch :
              Insert(table, k, b)[j][c] =
                IF k \notin QuietHeights /\ j = k /\ c = b
                THEN table[j][c] + 1 ELSE table[j][c]
<1>. DEFINE row == [table[k] EXCEPT ![b] = @ + 1]
<1>1. /\ row \in [Branch -> Int]
      /\ \A c \in Branch : row[c] = IF c = b THEN table[k][c] + 1 ELSE table[k][c]
  BY DEF Table
<1>2. k \notin QuietHeights => Insert(table, k, b) = [table EXCEPT ![k] = row]
  BY DEF Insert
<1>3. k \in QuietHeights => Insert(table, k, b) = table
  BY DEF Insert
<1>. HIDE DEF row
<1>. QED
  BY <1>1, <1>2, <1>3 DEF Table

\* Retracting a range takes one from the cell of each cached version in it.
LEMMA RetractCells ==
  ASSUME NEW table \in Table, NEW from \in Int, NEW to \in Int
  PROVE  /\ Retract(table, from, to) \in Table
         /\ \A j \in Height, c \in Branch :
              Retract(table, from, to)[j][c] =
                IF j \in from .. to /\ j \notin QuietHeights /\ cdc[j] = c
                THEN table[j][c] - 1 ELSE table[j][c]
<1>. DEFINE cell(j, c) ==
              IF j \in from .. to /\ j \notin QuietHeights /\ cdc[j] = c
              THEN table[j][c] - 1 ELSE table[j][c]
            row(j) == [c \in Branch |-> cell(j, c)]
<1>1. \A j \in Height, c \in Branch : cell(j, c) \in Int
  BY DEF Table
<1>2. Retract(table, from, to) = [j \in Height |-> row(j)]
  BY Zenon DEF Retract
<1>3. \A j \in Height : row(j) \in [Branch -> Int]
  <2>. HIDE DEF cell
  <2>. QED
    BY <1>1
<1>4. \A j \in Height, c \in Branch : row(j)[c] = cell(j, c)
  <2>. HIDE DEF cell
  <2>. QED
    OBVIOUS
<1>5. /\ Retract(table, from, to) \in Table
      /\ \A j \in Height, c \in Branch :
           Retract(table, from, to)[j][c] = cell(j, c)
  <2>. HIDE DEF cell, row
  <2>. QED
    BY <1>2, <1>3, <1>4 DEF Table
<1>. QED
  BY <1>5

-----------------------------------------------------------------------------
\* The service starts, with nothing cached and nothing sent, in the invariant.
THEOREM InitInductive == Init => IInv
<1>. SUFFICES ASSUME Init PROVE IInv
  OBVIOUS
<1>. USE DEF Init
<1>1. TypeOK
  <2>1. chain \in Seq(Branch) /\ newHashes \in Seq(Branch) /\ cache \in Seq(CachedBlock)
    BY EmptySeq
  <2>2. Tip = 0 /\ Len(cache) = 0
    BY EmptySeq DEF Tip
  <2>3. /\ cdc \in [Height -> Branch \cup {NoBlock}]
        /\ rows \in [Height -> [Branch -> Int]]
    OBVIOUS
  <2>. QED
    BY <2>1, <2>2, <2>3, Constants DEF TypeOK, PCs, Errors
<1>2. ControlOK
  BY DEF ControlOK, Processing
<1>3. CacheOrdered /\ InverseMatchesCache
  BY DEF CacheOrdered, InverseMatchesCache
<1>4. OneVersionPerHeight /\ QuietHeightsHaveNoRows
  BY Constants DEF OneVersionPerHeight, QuietHeightsHaveNoRows
<1>5. NothingAboveReach
  BY Constants DEF NothingAboveReach
<1>. QED
  BY <1>1, <1>2, <1>3, <1>4, <1>5 DEF IInv

(***************************************************************************)
(* Metashrew's steps change nothing the invariant speaks of but the chain. *)
(***************************************************************************)
LEMMA MetashrewInductive == IInv /\ Metashrew => IInv'
<1>. SUFFICES ASSUME IInv, Metashrew PROVE IInv'
  OBVIOUS
<1>. USE DEF rangeVars, scanVars, dataVars
<1>1. chain' \in Seq(Branch) /\ Tip' <= MaxHeight /\ branch' \in Branch
  <2>. chain \in Seq(Branch) /\ Len(chain) \in Nat /\ branch \in Branch
    BY LenProperties DEF IInv, TypeOK
  <2>1. CASE MineBlock
    BY <2>1, AppendProperties, Constants DEF MineBlock, Tip
  <2>2. CASE SwitchBranch
    <3>1. PICK fork \in 0 .. Tip - 1 : chain' = SubSeq(chain, 1, fork)
      BY <2>2 DEF SwitchBranch
    <3>2. \A i \in 1 .. fork : chain[i] \in Branch
      BY <3>1, ElementOfSeq DEF Tip
    <3>3. chain' \in Seq(Branch) /\ Len(chain') <= fork
      BY <3>1, <3>2, SubSeqProperties DEF Tip
    <3>4. branch' \in Branch
      BY <2>2, Constants DEF SwitchBranch
    <3>. QED
      <4>1. Len(chain) <= MaxHeight /\ Len(chain') \in Nat /\ fork <= Len(chain)
        BY <3>1, <3>3, LenProperties DEF Tip, IInv, TypeOK
      <4>. QED
        BY <3>1, <3>3, <3>4, <4>1, Constants DEF Tip
  <2>. QED
    BY <2>1, <2>2 DEF Metashrew
<1>2. /\ UNCHANGED <<faults, pc, error, current, reported>>
      /\ UNCHANGED <<rangeVars, scanVars, dataVars>>
  BY DEF Metashrew, MineBlock, SwitchBranch
<1>3. TypeOK'
  BY <1>1, <1>2 DEF IInv, TypeOK, Tip
<1>4. /\ ControlOK' /\ CacheOrdered' /\ InverseMatchesCache'
      /\ OneVersionPerHeight' /\ NothingAboveReach' /\ QuietHeightsHaveNoRows'
  BY <1>2 DEF IInv, ControlOK, Processing, CacheOrdered, InverseMatchesCache,
              OneVersionPerHeight, NothingAboveReach, RowsReach, CacheReach,
              QuietHeightsHaveNoRows, HasHeight, Positions
<1>. QED
  BY <1>3, <1>4 DEF IInv

-----------------------------------------------------------------------------
(***************************************************************************)
(* A step that leaves cache, messages and rows alone keeps the invariant   *)
(* if it keeps the types and the control part and the reach does not drop. *)
(***************************************************************************)
LEMMA DataUntouched ==
  ASSUME IInv, TypeOK', ControlOK', UNCHANGED dataVars, pc # "stopped",
         pc' # "stopped" => RowsReach <= RowsReach' /\ CacheReach <= CacheReach'
  PROVE  IInv'
<1>. USE DEF dataVars
<1>1. CacheOrdered' /\ InverseMatchesCache' /\ OneVersionPerHeight'
      /\ QuietHeightsHaveNoRows'
  BY DEF IInv, CacheOrdered, InverseMatchesCache, OneVersionPerHeight,
         QuietHeightsHaveNoRows
<1>2. /\ RowsReach \in Int /\ CacheReach \in Int
      /\ RowsReach' \in Int /\ CacheReach' \in Int
  <2>1. h \in Int /\ current \in Int
    BY Numbers DEF IInv
  <2>2. h' \in Height /\ current' \in Height
    BY DEF TypeOK
  <2>. QED
    BY <2>1, <2>2, Constants DEF RowsReach, CacheReach, Processing
<1>3. NothingAboveReach'
  <2>. SUFFICES ASSUME pc' # "stopped" PROVE NothingAboveReach'
    BY DEF NothingAboveReach
  <2>1. ASSUME NEW i \in DOMAIN cache PROVE cache[i].height <= CacheReach'
    <3>1. cache[i].height <= CacheReach
      BY <2>1 DEF IInv, NothingAboveReach
    <3>2. cache[i].height \in Int
      <4>1. cache \in Seq(CachedBlock)
        BY DEF IInv, TypeOK
      <4>2. cache[i] \in CachedBlock
        BY <2>1, <4>1, ElementOfSeq, LenProperties
      <4>. QED
        BY <4>2, Constants DEF CachedBlock
    <3>. QED
      BY <1>2, <3>1, <3>2
  <2>2. ASSUME NEW k \in Height, NEW b \in Branch, k > RowsReach'
        PROVE  rows[k][b] <= 0
    BY <1>2, <2>2, Constants DEF IInv, NothingAboveReach
  <2>. QED
    BY <2>1, <2>2 DEF NothingAboveReach
<1>. QED
  BY <1>1, <1>3 DEF IInv

-----------------------------------------------------------------------------
(***************************************************************************)
(* run.                                                                    *)
(***************************************************************************)
LEMMA GetHeightInductive == IInv /\ GetHeight => IInv'
<1>. SUFFICES ASSUME IInv, GetHeight PROVE IInv'
  OBVIOUS
<1>. USE DEF GetHeight, TransientFault, Stop, envVars, rangeVars, scanVars, dataVars
<1>1. TypeOK'
  <2>0. TypeOK
    BY DEF IInv
  <2>1. reported' \in Height
    BY <2>0, Numbers
  <2>2. faults' \in 0 .. MaxFaults
    <3>1. UNCHANGED faults \/ (faults < MaxFaults /\ faults' = faults + 1)
      OBVIOUS
    <3>2. faults \in 0 .. MaxFaults /\ MaxFaults \in Nat
      BY <2>0, Constants DEF TypeOK
    <3>. HIDE DEF GetHeight
    <3>. QED
      BY <3>1, <3>2
  <2>3. pc' \in PCs /\ error' \in Errors
    BY <2>0 DEF TypeOK, PCs, Errors
  <2>4. UNCHANGED <<chain, branch, current, h, last, reorging, hash, newHeight,
                    newHashes, ancestor, cache, cdc, rows>>
    OBVIOUS
  <2>. HIDE DEF GetHeight
  <2>. QED
    BY <2>0, <2>1, <2>2, <2>3, <2>4 DEF TypeOK, Tip
<1>2. ControlOK'
  BY DEF IInv, ControlOK, Processing
<1>. QED
  BY <1>1, <1>2, DataUntouched, Numbers
  DEF IInv, RowsReach, CacheReach, Processing

\* Whatever target the poll takes, the range begins just above current_height.
LEMMA GetBlockCountInductive == IInv /\ GetBlockCount => IInv'
<1>. SUFFICES ASSUME IInv, GetBlockCount PROVE IInv'
  OBVIOUS
<1>0. TypeOK /\ pc = "count"
  BY DEF IInv, GetBlockCount
<1>1. UNCHANGED <<chain, branch, faults, current, reported, newHeight,
                  newHashes, ancestor, cache, cdc, rows>>
  BY DEF GetBlockCount, envVars, scanVars, dataVars
<1>2. PICK count \in BlockCounts :
        \/ /\ Discrepancy(count)
           /\ ProcessRange(current + 1, current + 1, FALSE)
        \/ /\ Least(reported, count) > current
           /\ ProcessRange(current + 1, Least(reported, count), FALSE)
        \/ SleepThenPoll
        \/ /\ current > 0 /\ HasHeight(cache, current)
           /\ pc' = "check"
           /\ UNCHANGED <<error, rangeVars>>
  BY DEF GetBlockCount
<1>3. /\ Least(reported, count) \in Nat
      /\ Least(reported, count) <= reported
  <2>1. Tip % Width \in Nat
    <3>1. \A n \in Nat : n % Width \in Nat
      BY SynchronizerAssumption
    <3> QED BY <1>0, <3>1, Numbers
  <2>2. count \in Nat
    BY <2>1 DEF BlockCounts
  <2> QED BY <1>0, <2>2, Numbers DEF Least
<1>4. \/ /\ pc' = "hash" /\ h' = current + 1 /\ last' >= h' /\ last' <= reported
         /\ last' \in Nat
         /\ reorging' = FALSE /\ UNCHANGED <<error, hash>>
      \/ /\ pc' \in {"poll", "check"}
         /\ pc' = "check" => current > 0 /\ HasHeight(cache, current)
         /\ UNCHANGED <<error, h, last, reorging, hash>>
  BY <1>0, <1>2, <1>3, Numbers
  DEF Discrepancy, ProcessRange, SleepThenPoll, rangeVars
<1>5. TypeOK'
  <2>1. h' \in Height /\ last' \in Height
    BY <1>0, <1>4, Numbers
  <2>2. pc' \in PCs /\ error' \in Errors /\ reorging' \in BOOLEAN /\ hash' \in Branch
    BY <1>0, <1>4 DEF TypeOK, PCs
  <2>. QED
    BY <1>0, <1>1, <2>1, <2>2 DEF TypeOK, Tip
<1>6. ControlOK'
  BY <1>0, <1>1, <1>4, Numbers DEF ControlOK, Processing
<1>7. RowsReach <= RowsReach' /\ CacheReach <= CacheReach'
  BY <1>0, <1>1, <1>4, Numbers DEF RowsReach, CacheReach, Processing
<1>. QED
  BY <1>0, <1>1, <1>5, <1>6, <1>7, DataUntouched DEF dataVars

\* A mismatch at current_height starts handle_reorg below it.
LEMMA CheckTipInductive == IInv /\ (CheckTip \/ CheckTipFails) => IInv'
<1>. SUFFICES ASSUME IInv, CheckTip \/ CheckTipFails PROVE IInv'
  OBVIOUS
<1>0. TypeOK /\ pc = "check" /\ current >= 1
  BY DEF IInv, ControlOK, CheckTip, CheckTipFails
<1>1. UNCHANGED <<chain, branch, current, reported, h, last, reorging, hash,
                  error, ancestor, cache, cdc, rows>>
  BY DEF CheckTip, CheckTipFails, HandleReorg, SleepThenPoll,
         envVars, rangeVars, scanVars, dataVars
<1>2. faults' \in 0 .. MaxFaults
  BY <1>0, FaultsCounted DEF CheckTip, CheckTipFails, CannotAnswer
<1>3. \/ pc' = "poll" /\ UNCHANGED <<newHeight, newHashes>>
      \/ pc' = "fetch" /\ newHeight' = current - 1 /\ newHashes' = << >>
      \/ pc' = "scan" /\ current # 1 /\ newHeight' = current - 1
                      /\ UNCHANGED newHashes
  BY DEF CheckTip, CheckTipFails, HandleReorg, SleepThenPoll, scanVars
<1>4. TypeOK'
  <2>1. newHashes' \in Seq(Branch)
    BY <1>0, <1>3, EmptySeq DEF TypeOK
  <2>2. newHeight' \in Height
    BY <1>0, <1>3, Numbers
  <2>3. pc' \in PCs
    BY <1>3 DEF PCs
  <2>. QED
    BY <1>0, <1>1, <1>2, <2>1, <2>2, <2>3 DEF TypeOK, Tip
<1>5. ControlOK'
  <2>1. pc' = "fetch" => Len(newHashes') = 0
    BY <1>3, EmptySeq
  <2>. QED
    BY <1>0, <1>1, <1>3, <2>1, Numbers DEF ControlOK, Processing
<1>6. RowsReach <= RowsReach' /\ CacheReach <= CacheReach'
  BY <1>0, <1>1, <1>3, Numbers DEF RowsReach, CacheReach, Processing
<1>. QED
  BY <1>0, <1>1, <1>4, <1>5, <1>6, DataUntouched DEF dataVars

\* The scan hands handle_reorg a height below current_height.
LEMMA ScanDownInductive == IInv /\ (ScanDown \/ ScanDownFails) => IInv'
<1>. SUFFICES ASSUME IInv, ScanDown \/ ScanDownFails PROVE IInv'
  OBVIOUS
<1>0. TypeOK /\ pc = "scan" /\ newHeight \in 1 .. current - 1
  BY DEF IInv, ControlOK, ScanDown, ScanDownFails
<1>1. UNCHANGED <<chain, branch, current, reported, h, last, reorging, hash,
                  error, ancestor, cache, cdc, rows>>
  BY DEF ScanDown, ScanDownFails, HandleReorg, envVars, rangeVars, dataVars
<1>2. faults' \in 0 .. MaxFaults
  BY <1>0, FaultsCounted DEF ScanDown, ScanDownFails, CannotAnswer
<1>3. \/ pc' = "fetch" /\ newHeight' \in {0, newHeight} /\ newHashes' = << >>
      \/ pc' = "scan" /\ newHeight # 1 /\ newHeight' = newHeight - 1
                      /\ UNCHANGED newHashes
  BY <1>0 DEF ScanDown, ScanDownFails, HandleReorg
<1>4. TypeOK'
  <2>1. newHashes' \in Seq(Branch)
    BY <1>0, <1>3, EmptySeq DEF TypeOK
  <2>2. newHeight' \in Height
    BY <1>0, <1>3, Numbers
  <2>3. pc' \in PCs
    BY <1>3 DEF PCs
  <2>. QED
    BY <1>0, <1>1, <1>2, <2>1, <2>2, <2>3 DEF TypeOK, Tip
<1>5. ControlOK'
  <2>1. pc' = "fetch" => Len(newHashes') = 0
    BY <1>3, EmptySeq
  <2>. QED
    BY <1>0, <1>1, <1>3, <2>1, Numbers DEF ControlOK, Processing
<1>6. RowsReach <= RowsReach' /\ CacheReach <= CacheReach'
  BY <1>0, <1>1, <1>3, Numbers DEF RowsReach, CacheReach, Processing
<1>. QED
  BY <1>0, <1>1, <1>4, <1>5, <1>6, DataUntouched DEF dataVars

-----------------------------------------------------------------------------
(***************************************************************************)
(* process_block.                                                          *)
(***************************************************************************)
\* What NextInRange does to the control variables.
LEMMA NextInRangeKeeps ==
  ASSUME TypeOK, Processing, ControlOK, NextInRange
  PROVE  /\ \/ pc' = "hash" /\ h' = h + 1 /\ h < last
            \/ pc' = "poll" /\ h' = h
         /\ current' \in Height /\ h' \in Height
         /\ \/ reorging /\ current' = current /\ last < current
            \/ ~ reorging /\ current' = h /\ h = current + 1
         /\ h <= last
         /\ UNCHANGED <<error, last, reorging, hash>>
<1>1. h \in Height /\ last \in Height /\ current \in Height /\ reorging \in BOOLEAN
  BY DEF TypeOK
<1>2. h <= last /\ (IF reorging THEN last < current ELSE h = current + 1)
  BY DEF ControlOK
<1>3. h < last => h + 1 \in Height
  BY <1>1, Constants
<1>4. UNCHANGED <<error, last, reorging, hash>>
  BY DEF NextInRange
<1>5. \/ pc' = "hash" /\ h' = h + 1 /\ h < last
      \/ pc' = "poll" /\ h' = h
  BY DEF NextInRange
<1>6. \/ reorging /\ current' = current /\ last < current
      \/ ~ reorging /\ current' = h /\ h = current + 1
  BY <1>1, <1>2 DEF NextInRange
<1>. QED
  BY <1>1, <1>2, <1>3, <1>4, <1>5, <1>6

\* Reading the hash moves nothing but the control.
LEMMA ReadHashInductive == IInv /\ ReadHash => IInv'
<1>. SUFFICES ASSUME IInv, ReadHash PROVE IInv'
  OBVIOUS
<1>0. TypeOK /\ pc = "hash" /\ pc' = "transform"
  BY DEF IInv, ReadHash
<1>1. UNCHANGED <<chain, branch, faults, error, current, reported, h, last,
                  reorging, newHeight, newHashes, ancestor, cache, cdc, rows>>
  BY DEF ReadHash, envVars, scanVars, dataVars
<1>2. TypeOK'
  <2>1. hash' \in Branch
    BY <1>0, HashAtType, Numbers DEF ReadHash
  <2>2. pc' \in PCs
    BY <1>0 DEF PCs
  <2>. QED
    BY <1>0, <1>1, <2>1, <2>2 DEF TypeOK, Tip
<1>3. ControlOK'
  BY <1>0, <1>1 DEF IInv, ControlOK, Processing
<1>4. RowsReach <= RowsReach' /\ CacheReach <= CacheReach'
  BY <1>0, <1>1, Numbers DEF RowsReach, CacheReach, Processing
<1>. QED
  BY <1>0, <1>1, <1>2, <1>3, <1>4, DataUntouched DEF dataVars

\* A height passed over without a block leaves no row and no cached block.
LEMMA ReadHashNotFoundInductive == IInv /\ ReadHashNotFound => IInv'
<1>. SUFFICES ASSUME IInv, ReadHashNotFound PROVE IInv'
  OBVIOUS
<1>0. TypeOK /\ ControlOK /\ pc = "hash" /\ Processing /\ NextInRange
  BY DEF IInv, ReadHashNotFound, Processing
<1>1. UNCHANGED <<chain, branch, reported, newHeight, newHashes, ancestor,
                  cache, cdc, rows>>
  BY DEF ReadHashNotFound, envVars, scanVars, dataVars
<1>2. faults' \in 0 .. MaxFaults
  BY <1>0, FaultsCounted DEF ReadHashNotFound, CannotAnswer
<1>3. TypeOK'
  <2>1. pc' \in PCs
    BY <1>0, NextInRangeKeeps DEF PCs
  <2>. QED
    BY <1>0, <1>1, <1>2, <2>1, NextInRangeKeeps DEF TypeOK, Tip
<1>4. ControlOK'
  BY <1>0, <1>1, NextInRangeKeeps, Numbers DEF ControlOK, Processing
<1>5. RowsReach <= RowsReach' /\ CacheReach <= CacheReach'
  BY <1>0, <1>1, NextInRangeKeeps, Numbers DEF RowsReach, CacheReach, Processing
<1>. QED
  BY <1>0, <1>1, <1>3, <1>4, <1>5, DataUntouched DEF dataVars

-----------------------------------------------------------------------------
(***************************************************************************)
(* What a batch of messages does to the invariant's parts about rows.      *)
(***************************************************************************)

\* A sent block finds no version of its height in force.
LEMMA InsertSafe ==
  ASSUME IInv, pc = "send", UNCHANGED cdc, rows' = Insert(rows, h, cdc[h])
  PROVE  /\ rows' \in Table
         /\ OneVersionPerHeight' /\ QuietHeightsHaveNoRows'
         /\ \A k \in Height, b \in Branch : k # h => rows'[k][b] = rows[k][b]
<1>1. rows \in Table /\ h \in Height /\ cdc[h] \in Branch
  BY DEF IInv, TypeOK, ControlOK, Table
<1>2. \A b \in Branch : rows[h][b] <= 0
  <2>1. RowsReach = h - 1 /\ h > h - 1
    BY <1>1, Constants DEF RowsReach, Processing
  <2>. QED
    BY <1>1, <2>1 DEF IInv, NothingAboveReach
<1>3. /\ rows' \in Table
      /\ \A k \in Height, b \in Branch :
           rows'[k][b] = IF k \notin QuietHeights /\ k = h /\ b = cdc[h]
                         THEN rows[k][b] + 1 ELSE rows[k][b]
  BY <1>1, InsertCells
<1>4. \A k \in Height, b \in Branch : rows[k][b] \in Int
  BY <1>1 DEF Table
<1>5. OneVersionPerHeight'
  <2>. SUFFICES ASSUME NEW k \in Height, NEW b \in Branch
                PROVE  /\ rows'[k][b] <= 1
                       /\ rows'[k][b] > 0 => cdc[k] = b
    BY DEF OneVersionPerHeight
  <2>1. rows[k][b] <= 1 /\ (rows[k][b] > 0 => cdc[k] = b)
    BY DEF IInv, OneVersionPerHeight
  <2>2. CASE k = h /\ b = cdc[h]
    BY <1>2, <1>3, <1>4, <2>1, <2>2
  <2>3. CASE ~ (k = h /\ b = cdc[h])
    BY <1>3, <2>1, <2>3
  <2>. QED
    BY <2>2, <2>3
<1>6. QuietHeightsHaveNoRows'
  BY <1>3, Constants DEF IInv, QuietHeightsHaveNoRows
<1>. QED
  BY <1>3, <1>5, <1>6

\* Inverse messages only take rows away, and above the ancestor all of them.
LEMMA RetractSafe ==
  ASSUME IInv, NEW from \in Int, UNCHANGED cdc,
         rows' = Retract(rows, from, current)
  PROVE  /\ rows' \in Table
         /\ OneVersionPerHeight' /\ QuietHeightsHaveNoRows'
         /\ \A k \in Height, b \in Branch :
              /\ k < from \/ k > current => rows'[k][b] = rows[k][b]
              /\ from <= k /\ k <= current => rows'[k][b] <= 0
<1>1. rows \in Table /\ current \in Int
  <2>1. rows \in Table
    BY DEF IInv, TypeOK, Table
  <2>2. current \in Int
    BY Numbers DEF IInv
  <2>. QED
    BY <2>1, <2>2
<1>2. /\ rows' \in Table
      /\ \A k \in Height, b \in Branch :
           rows'[k][b] = IF k \in from .. current /\ k \notin QuietHeights /\ cdc[k] = b
                         THEN rows[k][b] - 1 ELSE rows[k][b]
  BY <1>1, RetractCells
<1>3. \A k \in Height, b \in Branch : rows[k][b] \in Int
  BY <1>1 DEF Table
<1>4. ASSUME NEW k \in Height, NEW b \in Branch
      PROVE  /\ rows'[k][b] <= 1
             /\ rows'[k][b] > 0 => cdc[k] = b
             /\ k < from \/ k > current => rows'[k][b] = rows[k][b]
             /\ from <= k /\ k <= current => rows'[k][b] <= 0
             /\ k \in QuietHeights => rows'[k][b] <= 0
  <2>0. k \in Int
    BY Constants
  <2>1. /\ rows[k][b] <= 1 /\ (rows[k][b] > 0 => cdc[k] = b)
        /\ k \in QuietHeights => rows[k][b] <= 0
    BY DEF IInv, OneVersionPerHeight, QuietHeightsHaveNoRows
  <2>2. CASE k \in from .. current /\ k \notin QuietHeights /\ cdc[k] = b
    BY <1>1, <1>2, <1>3, <2>0, <2>1, <2>2
  <2>3. CASE ~ (k \in from .. current /\ k \notin QuietHeights /\ cdc[k] = b)
    <3>1. rows'[k][b] = rows[k][b]
      BY <1>2, <2>3
    <3>2. from <= k /\ k <= current => rows[k][b] <= 0
      BY <1>1, <1>3, <2>0, <2>1, <2>3
    <3>. QED
      BY <2>1, <3>1, <3>2
  <2>. QED
    BY <2>2, <2>3
<1>. QED
  BY <1>2, <1>4, Constants DEF OneVersionPerHeight, QuietHeightsHaveNoRows

-----------------------------------------------------------------------------
(***************************************************************************)
(* Stopping: the steps that end the task, whatever they did to the rows.   *)
(***************************************************************************)
LEMMA Stopping ==
  ASSUME IInv, pc' = "stopped", error' \in Errors, faults' \in 0 .. MaxFaults,
         UNCHANGED <<chain, branch, current, reported, h, last, reorging, hash,
                     newHeight, newHashes, ancestor, cache, cdc>>,
         rows' \in Table, OneVersionPerHeight', QuietHeightsHaveNoRows'
  PROVE  IInv'
<1>1. TypeOK'
  BY DEF IInv, TypeOK, Tip, PCs, Table
<1>2. ControlOK' /\ NothingAboveReach'
  BY DEF ControlOK, Processing, NothingAboveReach
<1>3. CacheOrdered' /\ InverseMatchesCache'
  BY DEF IInv, CacheOrdered, InverseMatchesCache
<1>. QED
  BY <1>1, <1>2, <1>3 DEF IInv

\* A failed call or a shutdown with nothing delivered keeps the data.
LEMMA StopsWithoutSending ==
  IInv /\ (ReadHashFails \/ TransformFails \/ FetchHashFails) => IInv'
<1>. SUFFICES ASSUME IInv, ReadHashFails \/ TransformFails \/ FetchHashFails
              PROVE  IInv'
  OBVIOUS
<1>1. /\ pc' = "stopped" /\ error' \in Errors
      /\ UNCHANGED faults \/ TransientFault
  BY DEF ReadHashFails, TransformFails, FetchHashFails, CannotAnswer, Stop, Errors
<1>2. UNCHANGED <<chain, branch, current, reported, h, last, reorging, hash,
                  newHeight, newHashes, ancestor, cache, cdc, rows>>
  BY DEF ReadHashFails, TransformFails, FetchHashFails,
         envVars, rangeVars, scanVars, dataVars
<1>3. faults' \in 0 .. MaxFaults
  BY <1>1, FaultsCounted DEF IInv
<1>4. rows' \in Table /\ OneVersionPerHeight' /\ QuietHeightsHaveNoRows'
  BY <1>2 DEF IInv, TypeOK, Table, OneVersionPerHeight, QuietHeightsHaveNoRows
<1>. QED
  BY <1>1, <1>2, <1>3, <1>4, Stopping

\* A sink that fails, or is dropped, part way delivers a part of what is safe.
LEMMA StopsWhileSending ==
  IInv /\ (SendBlockFails \/ UndoBlocksFails \/ Shutdown) => IInv'
<1>. SUFFICES ASSUME IInv, SendBlockFails \/ UndoBlocksFails \/ Shutdown
              PROVE  IInv'
  OBVIOUS
<1>1. /\ pc' = "stopped" /\ error' \in Errors
      /\ UNCHANGED faults \/ TransientFault
  BY DEF SendBlockFails, UndoBlocksFails, Shutdown, Stop, Errors
<1>2. UNCHANGED <<chain, branch, current, reported, h, last, reorging, hash,
                  newHeight, newHashes, ancestor, cache, cdc>>
  BY DEF SendBlockFails, UndoBlocksFails, Shutdown,
         envVars, rangeVars, scanVars
<1>3. faults' \in 0 .. MaxFaults
  BY <1>1, FaultsCounted DEF IInv
<1>4. \/ UNCHANGED rows
      \/ pc = "send" /\ rows' = Insert(rows, h, cdc[h])
      \/ \E k \in ancestor + 1 .. current + 1 : rows' = Retract(rows, k, current)
  <2>1. ancestor \in Int /\ current \in Int
    BY Numbers DEF IInv
  <2>2. ancestor + 1 .. current \subseteq ancestor + 1 .. current + 1
    BY <2>1
  <2>. QED
    BY <2>2 DEF SendBlockFails, UndoBlocksFails, Shutdown
<1>5. rows' \in Table /\ OneVersionPerHeight' /\ QuietHeightsHaveNoRows'
  <2>1. CASE UNCHANGED rows
    BY <1>2, <2>1
    DEF IInv, TypeOK, Table, OneVersionPerHeight, QuietHeightsHaveNoRows
  <2>2. CASE pc = "send" /\ rows' = Insert(rows, h, cdc[h])
    BY <1>2, <2>2, InsertSafe
  <2>3. CASE \E k \in ancestor + 1 .. current + 1 :
               rows' = Retract(rows, k, current)
    <3>1. PICK k \in ancestor + 1 .. current + 1 :
            rows' = Retract(rows, k, current)
      BY <2>3
    <3>2. k \in Int
      BY Numbers DEF IInv
    <3>. QED
      BY <1>2, <3>1, <3>2, RetractSafe
  <2>. QED
    BY <1>4, <2>1, <2>2, <2>3
<1>. QED
  BY <1>1, <1>2, <1>3, <1>5, Stopping

-----------------------------------------------------------------------------
(***************************************************************************)
(* The transform and the delivery of its messages.                         *)
(***************************************************************************)
LEMMA TransformInductive == IInv /\ Transform => IInv'
<1>. SUFFICES ASSUME IInv, Transform PROVE IInv'
  OBVIOUS
<1>. DEFINE block == [height |-> h, hash |-> hash, data |-> HashAt(h)]
<1>0. TypeOK /\ pc = "transform" /\ pc' = "send"
  BY DEF IInv, Transform
<1>1. UNCHANGED <<chain, branch, faults, error, current, reported, h, last,
                  reorging, hash, newHeight, newHashes, ancestor, rows>>
  BY DEF Transform, envVars, rangeVars, scanVars
<1>2. /\ cdc' = [cdc EXCEPT ![h] = HashAt(h)]
      /\ cache' = AddBlock(cache, block, CacheSize)
  BY DEF Transform
<1>3. HashAt(h) \in Branch /\ h \in Height
  BY <1>0, HashAtType, Numbers, Constants DEF Transform
<1>4. block \in CachedBlock
  BY <1>0, <1>3 DEF CachedBlock, TypeOK
<1>5. PICK s \in {0, 1} :
        /\ cache' \in Seq(CachedBlock) /\ Len(cache') <= CacheSize
        /\ Len(cache') \in Nat \ {0} /\ Len(cache) \in Nat
        /\ Len(cache') = Len(cache) + 1 - s
        /\ cache'[Len(cache')] = block
        /\ \A i \in 1 .. Len(cache') - 1 : cache'[i] = cache[i + s]
  <2>1. cache \in Seq(CachedBlock) /\ Len(cache) <= CacheSize
    BY <1>0 DEF TypeOK
  <2>. HIDE DEF block
  <2>2. /\ cache' \in Seq(CachedBlock) /\ Len(cache') <= CacheSize
        /\ Len(cache') >= 1
        /\ cache'[Len(cache')] = block
        /\ \E s \in {0, 1} :
             /\ Len(cache') = Len(cache) + 1 - s
             /\ \A i \in 1 .. Len(cache') - 1 : cache'[i] = cache[i + s]
    BY <1>2, <1>4, <2>1, AddBlockProperties, Constants
  <2>3. Len(cache') \in Nat /\ Len(cache) \in Nat
    BY <2>1, <2>2, LenProperties
  <2>4. Len(cache') \in Nat \ {0}
    BY <2>2, <2>3
  <2>. QED
    BY <2>2, <2>3, <2>4
<1>6. /\ DOMAIN cache = 1 .. Len(cache) /\ DOMAIN cache' = 1 .. Len(cache')
      /\ cache'[Len(cache')].height = h /\ cache'[Len(cache')].data = HashAt(h)
  <2>1. cache \in Seq(CachedBlock) /\ cache' \in Seq(CachedBlock)
    BY <1>0, <1>5 DEF TypeOK
  <2>2. DOMAIN cache = 1 .. Len(cache) /\ DOMAIN cache' = 1 .. Len(cache')
    BY <2>1, LenProperties
  <2>. QED
    BY <1>5, <2>2
<1>. HIDE DEF block
<1>7. \A i \in 1 .. Len(cache) :
        cache[i].height \in Height /\ cache[i].height < h
  <2>1. CacheReach = h - 1
    BY <1>0 DEF CacheReach, RowsReach, Processing
  <2>2. ASSUME NEW i \in 1 .. Len(cache)
        PROVE  cache[i].height \in Height /\ cache[i].height <= h - 1
    <3>1. cache[i] \in CachedBlock
      BY <1>0, ElementOfSeq DEF TypeOK
    <3>2. cache[i].height <= h - 1
      BY <1>0, <1>6, <2>1 DEF IInv, NothingAboveReach
    <3>. QED
      BY <3>1, <3>2 DEF CachedBlock
  <2>. QED
    BY <1>3, <2>2, Constants
\* Every position of the new cache is the new block or an older position.
<1>8. \A i \in 1 .. Len(cache') :
        \/ i = Len(cache')
        \/ /\ i < Len(cache') /\ i + s \in 1 .. Len(cache)
           /\ cache'[i] = cache[i + s]
  BY <1>5
<1>9. TypeOK'
  <2>1. cdc' \in [Height -> Branch \cup {NoBlock}]
    BY <1>0, <1>2, <1>3 DEF TypeOK
  <2>2. pc' \in PCs
    BY <1>0 DEF PCs
  <2>. QED
    BY <1>0, <1>1, <1>5, <2>1, <2>2 DEF TypeOK, Tip
<1>10. cdc'[h] = HashAt(h) /\ \A k \in Height : k # h => cdc'[k] = cdc[k]
  BY <1>0, <1>2, <1>3 DEF TypeOK
<1>11. ControlOK'
  <2>1. cdc'[h'] # NoBlock
    BY <1>1, <1>3, <1>10, Constants
  <2>. QED
    BY <1>0, <1>1, <2>1 DEF IInv, ControlOK, Processing
<1>12. CacheOrdered'
  <2>. SUFFICES ASSUME NEW i \in 1 .. Len(cache'), NEW j \in 1 .. Len(cache'), i < j
                PROVE  cache'[i].height < cache'[j].height
    BY <1>6 DEF CacheOrdered
  <2>1. i < Len(cache') /\ i + s \in 1 .. Len(cache) /\ cache'[i] = cache[i + s]
    BY <1>5, <1>8
  <2>2. CASE j = Len(cache')
    BY <1>6, <1>7, <2>1, <2>2
  <2>3. CASE j # Len(cache')
    <3>1. j + s \in 1 .. Len(cache) /\ cache'[j] = cache[j + s]
      BY <1>8, <2>3
    <3>2. i + s < j + s
      OBVIOUS
    <3>. QED
      BY <1>6, <2>1, <3>1, <3>2 DEF IInv, CacheOrdered
  <2>. QED
    BY <2>2, <2>3
<1>13. InverseMatchesCache'
  <2>. SUFFICES ASSUME NEW i \in 1 .. Len(cache')
                PROVE  cdc'[cache'[i].height] = cache'[i].data
    BY <1>6 DEF InverseMatchesCache
  <2>1. CASE i = Len(cache')
    BY <1>6, <1>10, <2>1
  <2>2. CASE i # Len(cache')
    <3>1. i + s \in 1 .. Len(cache) /\ cache'[i] = cache[i + s]
      BY <1>8, <2>2
    <3>2. cache'[i].height \in Height /\ cache'[i].height # h
      BY <1>3, <1>7, <3>1, Constants
    <3>3. cdc[cache[i + s].height] = cache[i + s].data
      BY <1>6, <3>1 DEF IInv, InverseMatchesCache
    <3>. QED
      BY <1>10, <3>1, <3>2, <3>3
  <2>. QED
    BY <2>1, <2>2
<1>14. \A b \in Branch : rows[h][b] <= 0
  <2>1. RowsReach = h - 1 /\ h > h - 1
    BY <1>0, <1>3, Constants DEF RowsReach, Processing
  <2>. QED
    BY <1>0, <1>3, <2>1 DEF IInv, NothingAboveReach
<1>15. OneVersionPerHeight'
  <2>. SUFFICES ASSUME NEW k \in Height, NEW b \in Branch
                PROVE  rows[k][b] <= 1 /\ (rows[k][b] > 0 => cdc'[k] = b)
    BY <1>1 DEF OneVersionPerHeight
  <2>1. rows[k][b] <= 1 /\ (rows[k][b] > 0 => cdc[k] = b) /\ rows[k][b] \in Int
    BY <1>0 DEF IInv, OneVersionPerHeight, TypeOK
  <2>. QED
    BY <1>10, <1>14, <2>1
<1>16. QuietHeightsHaveNoRows'
  BY <1>1 DEF IInv, QuietHeightsHaveNoRows
<1>17. NothingAboveReach'
  <2>1. RowsReach = h - 1 /\ RowsReach' = h - 1 /\ CacheReach' = h
    BY <1>0, <1>1 DEF RowsReach, CacheReach, Processing
  <2>2. \A k \in Height, b \in Branch : k > RowsReach' => rows'[k][b] <= 0
    BY <1>0, <1>1, <2>1 DEF IInv, NothingAboveReach
  <2>3. ASSUME NEW i \in 1 .. Len(cache') PROVE cache'[i].height <= h
    <3>1. CASE i = Len(cache')
      BY <1>3, <1>6, <3>1, Constants
    <3>2. CASE i # Len(cache')
      <4>1. i + s \in 1 .. Len(cache) /\ cache'[i] = cache[i + s]
        BY <1>8, <3>2
      <4>2. cache'[i].height \in Height /\ cache'[i].height < h
        BY <1>7, <4>1
      <4>. QED
        BY <1>3, <4>2, Constants
    <3>. QED
      BY <3>1, <3>2
  <2>. QED
    BY <1>6, <2>1, <2>2, <2>3 DEF NothingAboveReach
<1>. QED
  BY <1>9, <1>11, <1>12, <1>13, <1>15, <1>16, <1>17 DEF IInv

\* A block's row enters above everything in force, as the version cached.
LEMMA SendBlockInductive == IInv /\ SendBlock => IInv'
<1>. SUFFICES ASSUME IInv, SendBlock PROVE IInv'
  OBVIOUS
<1>0. TypeOK /\ ControlOK /\ pc = "send" /\ Processing /\ NextInRange
  BY DEF IInv, SendBlock, Processing
<1>1. UNCHANGED <<chain, branch, faults, reported, newHeight, newHashes,
                  ancestor, cache, cdc>>
  BY DEF SendBlock, envVars, scanVars
<1>2. /\ rows' \in Table
      /\ OneVersionPerHeight' /\ QuietHeightsHaveNoRows'
      /\ \A k \in Height, b \in Branch : k # h => rows'[k][b] = rows[k][b]
  BY <1>0, <1>1, InsertSafe DEF SendBlock
<1>3. TypeOK'
  <2>1. pc' \in PCs
    BY <1>0, NextInRangeKeeps DEF PCs
  <2>. QED
    BY <1>0, <1>1, <1>2, <2>1, NextInRangeKeeps DEF TypeOK, Tip, Table
<1>4. ControlOK'
  BY <1>0, <1>1, NextInRangeKeeps, Numbers DEF ControlOK, Processing
<1>5. CacheOrdered' /\ InverseMatchesCache'
  BY <1>1 DEF IInv, CacheOrdered, InverseMatchesCache
<1>6. /\ RowsReach = h - 1 /\ CacheReach = h
      /\ h <= RowsReach' /\ RowsReach' = CacheReach' /\ RowsReach' \in Int
  BY <1>0, NextInRangeKeeps, Numbers DEF RowsReach, CacheReach, Processing
<1>7. NothingAboveReach'
  <2>1. ASSUME NEW k \in Height, NEW b \in Branch, k > RowsReach'
        PROVE  rows'[k][b] <= 0
    <3>1. k \in Int /\ h \in Int
      BY <1>0, Numbers, Constants
    <3>2. k > h /\ k > h - 1 /\ k # h
      BY <1>6, <2>1, <3>1
    <3>. QED
      BY <1>0, <1>2, <1>6, <3>2 DEF IInv, NothingAboveReach
  <2>2. ASSUME NEW i \in DOMAIN cache PROVE cache[i].height <= CacheReach'
    <3>1. cache[i] \in CachedBlock
      BY <1>0, <2>2, ElementOfSeq, LenProperties DEF TypeOK
    <3>2. cache[i].height \in Int /\ h \in Int
      BY <1>0, <3>1, Numbers, Constants DEF CachedBlock
    <3>3. cache[i].height <= h
      BY <1>0, <1>6, <2>2 DEF IInv, NothingAboveReach
    <3>. QED
      BY <1>6, <3>2, <3>3
  <2>. QED
    BY <1>1, <2>1, <2>2 DEF NothingAboveReach
<1>. QED
  BY <1>2, <1>3, <1>4, <1>5, <1>7 DEF IInv

-----------------------------------------------------------------------------
(***************************************************************************)
(* handle_reorg.                                                           *)
(***************************************************************************)
LEMMA FetchHashInductive == IInv /\ FetchHash => IInv'
<1>. SUFFICES ASSUME IInv, FetchHash PROVE IInv'
  OBVIOUS
<1>0. TypeOK /\ pc = "fetch" /\ newHeight < current /\ Len(newHashes) <= newHeight
  BY DEF IInv, ControlOK, FetchHash
<1>1. UNCHANGED <<chain, branch, faults, error, current, reported, h, last,
                  reorging, hash, newHeight, ancestor, cache, cdc, rows>>
  BY DEF FetchHash, envVars, rangeVars, dataVars
<1>2. newHashes' \in Seq(Branch) /\ Len(newHashes') = Len(newHashes) + 1
  <2>1. HashAt(Len(newHashes)) \in Branch
    BY <1>0, HashAtType, Numbers DEF FetchHash
  <2>2. newHashes \in Seq(Branch)
    BY <1>0 DEF TypeOK
  <2>. QED
    BY <2>1, <2>2, AppendProperties DEF FetchHash
<1>3. pc' = IF Len(newHashes) = newHeight THEN "invert" ELSE "fetch"
  BY DEF FetchHash
<1>4. TypeOK'
  <2>1. pc' \in PCs
    BY <1>3 DEF PCs
  <2>. QED
    BY <1>0, <1>1, <1>2, <2>1 DEF TypeOK, Tip
<1>5. ControlOK'
  BY <1>0, <1>1, <1>2, <1>3, Numbers DEF ControlOK, Processing
<1>6. RowsReach <= RowsReach' /\ CacheReach <= CacheReach'
  BY <1>0, <1>1, <1>3, Numbers DEF RowsReach, CacheReach, Processing
<1>. QED
  BY <1>0, <1>1, <1>4, <1>5, <1>6, DataUntouched DEF dataVars

\* The ancestor found is cached and lies at or below the new height.
LEMMA ComputeInverseInductive == IInv /\ ComputeInverse => IInv'
<1>. SUFFICES ASSUME IInv, ComputeInverse PROVE IInv'
  OBVIOUS
<1>. DEFINE found == FindCommonAncestor(cache, newHashes)
<1>0. /\ TypeOK /\ pc = "invert" /\ newHeight < current
      /\ Len(newHashes) = newHeight + 1
  BY DEF IInv, ControlOK, ComputeInverse
<1>1. UNCHANGED <<chain, branch, faults, current, reported, h, last,
                  reorging, hash, newHeight, newHashes, cache, cdc, rows>>
  BY DEF ComputeInverse, envVars, rangeVars, dataVars
<1>2. \/ pc' = "stopped" /\ error' \in Errors /\ UNCHANGED ancestor
      \/ pc' = "undo" /\ ancestor' = found /\ found # NoHeight /\ UNCHANGED error
  BY DEF ComputeInverse, Stop, Errors
<1>3. found # NoHeight => found \in 0 .. newHeight /\ HasHeight(cache, found)
  <2>1. cache \in Seq(CachedBlock) /\ newHashes \in Seq(Branch)
    BY <1>0 DEF TypeOK
  <2>2. \/ found = NoHeight
        \/ found \in 0 .. Len(newHashes) - 1 /\ HasHeight(cache, found)
    BY <2>1, CommonAncestorProperties
  <2>. QED
    BY <1>0, <2>2, Numbers
<1>. HIDE DEF found
<1>4. TypeOK'
  <2>1. pc' \in PCs /\ error' \in Errors
    BY <1>0, <1>2 DEF PCs, TypeOK
  <2>2. ancestor' \in Height
    BY <1>0, <1>2, <1>3, Numbers
  <2>. QED
    BY <1>0, <1>1, <2>1, <2>2 DEF TypeOK, Tip
<1>5. ControlOK'
  BY <1>0, <1>1, <1>2, <1>3, Numbers DEF ControlOK, Processing
<1>6. pc' # "stopped" => RowsReach <= RowsReach' /\ CacheReach <= CacheReach'
  BY <1>0, <1>1, <1>2, Numbers DEF RowsReach, CacheReach, Processing
<1>. QED
  BY <1>0, <1>1, <1>4, <1>5, <1>6, DataUntouched DEF dataVars

\* What the rollback of the cache leaves: a prefix, up to the ancestor.
LEMMA RollbackOrdered ==
  ASSUME TypeOK, CacheOrdered, NEW a \in Height, HasHeight(cache, a)
  PROVE  LET new == Rollback(cache, a) IN
         /\ new \in Seq(CachedBlock)
         /\ Len(new) \in 1 .. Len(cache)
         /\ \A i \in 1 .. Len(new) : new[i] = cache[i] /\ cache[i].height <= a
         /\ \A i \in 1 .. Len(cache) : i > Len(new) => cache[i].height > a
<1>. DEFINE new == Rollback(cache, a)
<1>1. cache \in Seq(CachedBlock) /\ DOMAIN cache = 1 .. Len(cache)
      /\ Len(cache) \in Nat
  BY LenProperties DEF TypeOK
<1>2. /\ new \in Seq(CachedBlock)
      /\ Len(new) \in 1 .. Len(cache)
      /\ \A i \in 1 .. Len(new) : new[i] = cache[i]
      /\ new[Len(new)].height = a
  BY <1>1, RollbackProperties
<1>3. \A i \in 1 .. Len(cache) : cache[i].height \in Int
  <2>1. \A i \in 1 .. Len(cache) : cache[i] \in CachedBlock
    BY <1>1, ElementOfSeq
  <2>. QED
    BY <2>1, Constants DEF CachedBlock
<1>. HIDE DEF new
<1>4. cache[Len(new)].height = a
  BY <1>1, <1>2
<1>5. \A i \in 1 .. Len(cache) : i < Len(new) => cache[i].height < a
  BY <1>1, <1>2, <1>4 DEF CacheOrdered
<1>6. \A i \in 1 .. Len(cache) : i > Len(new) => cache[i].height > a
  BY <1>1, <1>2, <1>3, <1>4, Constants DEF CacheOrdered
<1>7. \A i \in 1 .. Len(new) : cache[i].height <= a
  <2>. SUFFICES ASSUME NEW i \in 1 .. Len(new) PROVE cache[i].height <= a
    OBVIOUS
  <2>1. i \in 1 .. Len(cache)
    BY <1>1, <1>2
  <2>2. CASE i = Len(new)
    BY <1>4, <2>2, Constants
  <2>3. CASE i # Len(new)
    BY <1>2, <1>3, <1>5, <2>1, <2>3, Constants
  <2>. QED
    BY <2>2, <2>3
<1>. QED
  BY <1>2, <1>6, <1>7 DEF new

\* An undo leaves nothing above the ancestor, cached or in force.
LEMMA UndoBlocksInductive == IInv /\ UndoBlocks => IInv'
<1>. SUFFICES ASSUME IInv, UndoBlocks PROVE IInv'
  OBVIOUS
<1>0. /\ TypeOK /\ pc = "undo" /\ newHeight < current
      /\ ancestor <= newHeight /\ HasHeight(cache, ancestor)
  BY DEF IInv, ControlOK, UndoBlocks
<1>1. UNCHANGED <<chain, branch, faults, error, current, reported, hash,
                  newHeight, newHashes, ancestor, cdc>>
  BY DEF UndoBlocks, ProcessRange, SleepThenPoll, envVars, scanVars, rangeVars
<1>2. \/ /\ pc' = "hash" /\ h' = ancestor + 1 /\ last' = newHeight
         /\ reorging' = TRUE /\ ancestor < newHeight
      \/ pc' = "poll" /\ UNCHANGED <<h, last, reorging>>
  BY DEF UndoBlocks, ProcessRange, SleepThenPoll, rangeVars
<1>3. /\ rows' \in Table
      /\ OneVersionPerHeight' /\ QuietHeightsHaveNoRows'
      /\ \A k \in Height, b \in Branch :
           /\ k > current => rows'[k][b] = rows[k][b]
           /\ ancestor + 1 <= k /\ k <= current => rows'[k][b] <= 0
  <2>1. ancestor + 1 \in Int
    BY <1>0, Numbers
  <2>2. rows' = Retract(rows, ancestor + 1, current)
    BY DEF UndoBlocks
  <2>. QED
    BY <1>1, <2>1, <2>2, RetractSafe
<1>4. /\ cache' \in Seq(CachedBlock)
      /\ Len(cache') \in 1 .. Len(cache)
      /\ \A i \in 1 .. Len(cache') : cache'[i] = cache[i] /\ cache[i].height <= ancestor
  BY <1>0, RollbackOrdered, Numbers DEF IInv, UndoBlocks
<1>5. DOMAIN cache = 1 .. Len(cache) /\ DOMAIN cache' = 1 .. Len(cache')
      /\ Len(cache) \in Nat
  BY <1>0, <1>4, LenProperties DEF TypeOK
<1>6. TypeOK'
  <2>1. h' \in Height /\ last' \in Height
    BY <1>0, <1>2, Numbers
  <2>4. reorging' \in BOOLEAN
    BY <1>0, <1>2 DEF TypeOK
  <2>2. pc' \in PCs
    BY <1>2 DEF PCs
  <2>3. Len(cache') <= CacheSize
    BY <1>0, <1>4, <1>5, Constants DEF TypeOK
  <2>. QED
    BY <1>0, <1>1, <1>3, <1>4, <2>1, <2>2, <2>3, <2>4 DEF TypeOK, Tip, Table
<1>7. ControlOK'
  BY <1>0, <1>1, <1>2, Numbers DEF ControlOK, Processing
<1>8. CacheOrdered' /\ InverseMatchesCache'
  BY <1>1, <1>4, <1>5 DEF IInv, CacheOrdered, InverseMatchesCache
<1>9. NothingAboveReach'
  <2>1. /\ RowsReach = current /\ RowsReach' \in {ancestor, current}
        /\ CacheReach' = RowsReach' /\ ancestor <= current
    BY <1>0, <1>1, <1>2, Numbers DEF RowsReach, CacheReach, Processing
  <2>2. ancestor \in Int /\ current \in Int
    BY <1>0, Numbers
  <2>3. ASSUME NEW k \in Height, NEW b \in Branch, k > RowsReach'
        PROVE  rows'[k][b] <= 0
    <3>1. k \in Int /\ k > ancestor
      BY <2>1, <2>2, <2>3, Constants
    <3>2. CASE k <= current
      BY <1>3, <2>2, <3>1, <3>2
    <3>3. CASE k > current
      BY <1>0, <1>3, <2>1, <3>3 DEF IInv, NothingAboveReach
    <3>. QED
      BY <2>2, <3>1, <3>2, <3>3
  <2>4. ASSUME NEW i \in 1 .. Len(cache') PROVE cache'[i].height <= CacheReach'
    <3>1. cache'[i] \in CachedBlock
      BY <1>4, ElementOfSeq
    <3>2. cache'[i].height \in Int
      BY <3>1, Constants DEF CachedBlock
    <3>3. cache'[i].height <= ancestor
      BY <1>4
    <3>. QED
      BY <2>1, <2>2, <3>2, <3>3
  <2>. QED
    BY <1>5, <2>3, <2>4 DEF NothingAboveReach
<1>. QED
  BY <1>3, <1>6, <1>7, <1>8, <1>9 DEF IInv

-----------------------------------------------------------------------------
(***************************************************************************)
(* The theorems.                                                           *)
(***************************************************************************)
LEMMA StepInductive == IInv /\ [Next]_vars => IInv'
<1>. SUFFICES ASSUME IInv, [Next]_vars PROVE IInv'
  OBVIOUS
<1>1. CASE UNCHANGED vars
  BY <1>1 DEF vars, IInv, TypeOK, ControlOK, Processing, CacheOrdered,
              InverseMatchesCache, OneVersionPerHeight, NothingAboveReach,
              RowsReach, CacheReach, QuietHeightsHaveNoRows, Tip
<1>2. CASE Metashrew
  BY <1>2, MetashrewInductive
<1>3. CASE Run
  BY <1>3, GetHeightInductive, GetBlockCountInductive, CheckTipInductive,
     ScanDownInductive DEF Run
<1>4. CASE ProcessBlock
  BY <1>4, ReadHashInductive, ReadHashNotFoundInductive, StopsWithoutSending,
     TransformInductive, SendBlockInductive, StopsWhileSending DEF ProcessBlock
<1>5. CASE Reorg
  BY <1>5, FetchHashInductive, StopsWithoutSending, ComputeInverseInductive,
     UndoBlocksInductive, StopsWhileSending DEF Reorg
<1>6. CASE Shutdown
  BY <1>6, StopsWhileSending
<1>. QED
  BY <1>1, <1>2, <1>3, <1>4, <1>5, <1>6 DEF Next, Task

(***************************************************************************)
(* The inductive invariant holds of every behaviour, whatever the length   *)
(* of the chain, the cache size, the reorgs and the failures.              *)
(***************************************************************************)
THEOREM InvariantHolds == Spec => []IInv
  BY InitInductive, StepInductive, PTL DEF Spec

\* Every variable keeps its type: the cache never outgrows its size.
THEOREM TypesCorrect == Spec => []TypeOK
<1>1. IInv => TypeOK
  BY DEF IInv
<1>. QED
  BY <1>1, InvariantHolds, PTL

\* add_block is never asked to cache a height at or below a cached one.
THEOREM CacheStaysOrdered == Spec => []CacheOrdered
<1>1. IInv => CacheOrdered
  BY DEF IInv
<1>. QED
  BY <1>1, InvariantHolds, PTL

\* The runtime's messages for a cached height are the cached block's.
THEOREM InversesMatch == Spec => []InverseMatchesCache
<1>1. IInv => InverseMatchesCache
  BY DEF IInv
<1>. QED
  BY <1>1, InvariantHolds, PTL

\* No consumer holds two versions of a height, or a row nothing can undo.
THEOREM OneVersion == Spec => []OneVersionPerHeight
<1>1. IInv => OneVersionPerHeight
  BY DEF IInv
<1>. QED
  BY <1>1, InvariantHolds, PTL

-----------------------------------------------------------------------------
\* The undo of a reorg touches neither rows nor cached blocks at or below
\* the ancestor, and leaves no cached block above it.
LEMMA UndoKeepsAncestor ==
  ASSUME IInv, UndoBlocks
  PROVE  /\ \A k \in 0 .. ancestor : rows'[k] = rows[k]
         /\ \A k \in Height : HasHeight(cache', k) <=>
                                k <= ancestor /\ HasHeight(cache, k)
<1>0. TypeOK /\ CacheOrdered /\ HasHeight(cache, ancestor) /\ UNCHANGED cdc
      /\ ancestor \in Height
  BY DEF IInv, ControlOK, UndoBlocks, TypeOK
<1>1. \A k \in 0 .. ancestor : rows'[k] = rows[k]
  <2>. SUFFICES ASSUME NEW k \in 0 .. ancestor PROVE rows'[k] = rows[k]
    OBVIOUS
  <2>1. k \in Height /\ k < ancestor + 1 /\ ancestor + 1 \in Int
    BY <1>0, Constants
  <2>2. rows' = Retract(rows, ancestor + 1, current)
    BY DEF UndoBlocks
  <2>3. rows' \in Table /\ \A b \in Branch : rows'[k][b] = rows[k][b]
    BY <1>0, <2>1, <2>2, RetractSafe
  <2>4. rows'[k] \in [Branch -> Int] /\ rows[k] \in [Branch -> Int]
    BY <1>0, <2>1, <2>3 DEF Table, TypeOK
  <2>. QED
    BY <2>3, <2>4
<1>2. /\ cache' \in Seq(CachedBlock)
      /\ Len(cache') \in 1 .. Len(cache)
      /\ \A i \in 1 .. Len(cache') : cache'[i] = cache[i] /\ cache[i].height <= ancestor
      /\ \A i \in 1 .. Len(cache) : i > Len(cache') => cache[i].height > ancestor
  BY <1>0, RollbackOrdered DEF UndoBlocks
<1>3. DOMAIN cache = 1 .. Len(cache) /\ DOMAIN cache' = 1 .. Len(cache')
      /\ Len(cache) \in Nat
  BY <1>0, <1>2, LenProperties DEF TypeOK
<1>4. ASSUME NEW k \in Height
      PROVE  HasHeight(cache', k) <=> k <= ancestor /\ HasHeight(cache, k)
  <2>1. ASSUME HasHeight(cache', k)
        PROVE  k <= ancestor /\ HasHeight(cache, k)
    <3>1. PICK i \in 1 .. Len(cache') : cache'[i].height = k
      BY <1>3, <2>1 DEF HasHeight, Positions
    <3>2. i \in 1 .. Len(cache) /\ cache[i].height = k /\ k <= ancestor
      BY <1>2, <1>3, <3>1
    <3>. QED
      BY <1>3, <3>2 DEF HasHeight, Positions
  <2>2. ASSUME k <= ancestor, HasHeight(cache, k)
        PROVE  HasHeight(cache', k)
    <3>1. PICK i \in 1 .. Len(cache) : cache[i].height = k
      BY <1>3, <2>2 DEF HasHeight, Positions
    <3>2. ~ (i > Len(cache'))
      BY <1>0, <1>2, <2>2, <3>1, Constants
    <3>3. i \in 1 .. Len(cache') /\ cache'[i].height = k
      BY <1>2, <1>3, <3>1, <3>2
    <3>. QED
      BY <1>3, <3>3 DEF HasHeight, Positions
  <2>. QED
    BY <2>1, <2>2
<1>. QED
  BY <1>1, <1>4

\* A completed undo stops exactly at the common ancestor.
THEOREM UndoStopsAtAncestor == Spec => AncestorKept
<1>1. IInv /\ [Next]_vars
      => [ pc = "undo" /\ pc' \notin {"undo", "stopped"} =>
             /\ \A k \in 0 .. ancestor : rows'[k] = rows[k]
             /\ \A k \in Height : HasHeight(cache', k) <=>
                                    k <= ancestor /\ HasHeight(cache, k) ]_vars
  <2>. SUFFICES ASSUME IInv, Next, pc = "undo", pc' \notin {"undo", "stopped"}
                PROVE  UndoBlocks
    BY UndoKeepsAncestor
  <2>. QED
    BY DEF Next, Metashrew, MineBlock, SwitchBranch, Task, Run, GetHeight,
           GetBlockCount, CheckTip, CheckTipFails, ScanDown, ScanDownFails,
           ProcessBlock, ReadHash, ReadHashNotFound, ReadHashFails, Transform,
           TransformFails, SendBlock, SendBlockFails, Reorg, FetchHash,
           FetchHashFails, ComputeInverse, UndoBlocksFails, Shutdown, Stop
<1>. QED
  BY <1>1, InvariantHolds, PTL DEF Spec, AncestorKept

-----------------------------------------------------------------------------
(***************************************************************************)
(* The refinement: the rows in force are the stack of CdcStack.            *)
(***************************************************************************)

\* The only steps that change rows: a block's messages or inverse messages.
LEMMA RowSteps ==
  ASSUME IInv, [Next]_vars
  PROVE  \/ UNCHANGED rows
         \/ pc = "send" /\ UNCHANGED cdc /\ rows' = Insert(rows, h, cdc[h])
         \/ /\ pc = "undo" /\ UNCHANGED cdc
            /\ \E from \in ancestor + 1 .. current + 1 :
                 rows' = Retract(rows, from, current)
<1>1. CASE SendBlock \/ SendBlockFails
  BY <1>1 DEF SendBlock, SendBlockFails
<1>2. CASE UndoBlocks
  <2>0. ancestor <= newHeight /\ newHeight < current
    BY <1>2 DEF IInv, ControlOK, UndoBlocks
  <2>1. ancestor < current + 1
    BY <2>0, Numbers DEF IInv
  <2>2. ancestor + 1 \in ancestor + 1 .. current + 1
    BY <2>1, Numbers DEF IInv
  <2>. QED
    BY <1>2, <2>2 DEF UndoBlocks
<1>3. CASE UndoBlocksFails
  BY <1>3 DEF UndoBlocksFails
<1>4. CASE Shutdown
  <2>1. ancestor + 1 .. current \subseteq ancestor + 1 .. current + 1
    BY Numbers DEF IInv
  <2>. QED
    BY <1>4, <2>1 DEF Shutdown
<1>5. CASE \/ Metashrew \/ Run \/ ReadHash \/ ReadHashNotFound \/ ReadHashFails
           \/ Transform \/ TransformFails
           \/ FetchHash \/ FetchHashFails \/ ComputeInverse \/ UNCHANGED vars
  BY <1>5 DEF Metashrew, MineBlock, SwitchBranch, Run, GetHeight,
              GetBlockCount, CheckTip, CheckTipFails, ScanDown, ScanDownFails,
              ReadHash, ReadHashNotFound, ReadHashFails, Transform,
              TransformFails, FetchHash, FetchHashFails, ComputeInverse,
              dataVars, vars
<1>. QED
  BY <1>1, <1>2, <1>3, <1>4, <1>5 DEF Next, Task, ProcessBlock, Reorg

\* Every step publishes on top, withdraws everything above a height, or stutters.
LEMMA StepsImplementStack ==
  ASSUME IInv, [Next]_vars
  PROVE  [Stack!Next]_InForce
<1>0. /\ rows \in Table /\ h \in Height /\ current \in Height /\ ancestor \in Height
      /\ \A k \in Height, b \in Branch : rows[k][b] \in Int
  BY DEF IInv, TypeOK, Table
<1>1. CASE UNCHANGED rows
  BY <1>1 DEF InForce
<1>2. CASE pc = "send" /\ UNCHANGED cdc /\ rows' = Insert(rows, h, cdc[h])
  <2>1. cdc[h] \in Branch
    BY <1>0, <1>2 DEF IInv, TypeOK, ControlOK
  <2>2. \A k \in Height, b \in Branch :
          rows'[k][b] = IF h \notin QuietHeights /\ k = h /\ b = cdc[h]
                        THEN rows[k][b] + 1 ELSE rows[k][b]
    BY <1>0, <1>2, <2>1, InsertCells
  <2>3. \A k \in Height, b \in Branch : k >= h => rows[k][b] <= 0
    <3>1. RowsReach = h - 1 /\ \A k \in Height : k >= h => k > h - 1
      BY <1>0, <1>2, Constants DEF RowsReach, Processing
    <3>. QED
      BY <1>2, <3>1 DEF IInv, NothingAboveReach
  <2>4. CASE h \notin QuietHeights /\ rows[h][cdc[h]] = 0
    <3>1. InForce' = InForce \cup {<<h, cdc[h]>>}
      <4>1. ASSUME NEW p \in Height \X Branch
            PROVE  rows'[p[1]][p[2]] > 0 <=>
                     rows[p[1]][p[2]] > 0 \/ p = <<h, cdc[h]>>
        <5>1. p[1] \in Height /\ p[2] \in Branch /\ p = <<p[1], p[2]>>
          OBVIOUS
        <5>2. CASE p[1] = h /\ p[2] = cdc[h]
          BY <2>2, <2>4, <5>1, <5>2
        <5>3. CASE ~ (p[1] = h /\ p[2] = cdc[h])
          BY <2>2, <5>1, <5>3
        <5>. QED
          BY <5>2, <5>3
      <4>2. <<h, cdc[h]>> \in Height \X Branch
        BY <1>0, <2>1
      <4>. QED
        BY <4>1, <4>2 DEF InForce
    <3>2. \A b \in InForce : b[1] < h
      <4>. SUFFICES ASSUME NEW p \in Height \X Branch, rows[p[1]][p[2]] > 0
                    PROVE  p[1] < h
        BY DEF InForce
      <4>1. p[1] \in Height /\ p[2] \in Branch
        OBVIOUS
      <4>2. ~ (p[1] >= h)
        BY <1>0, <2>3, <4>1
      <4>. QED
        BY <1>0, <4>1, <4>2, Constants
    <3>3. Stack!Publish(h, cdc[h])
      BY <3>1, <3>2 DEF Stack!Publish
    <3>. QED
      BY <1>0, <2>1, <3>3 DEF Stack!Next
  <2>5. CASE ~ (h \notin QuietHeights /\ rows[h][cdc[h]] = 0)
    <3>1. ASSUME NEW k \in Height, NEW b \in Branch
          PROVE  rows'[k][b] > 0 <=> rows[k][b] > 0
      <4>1. CASE h \notin QuietHeights /\ k = h /\ b = cdc[h]
        BY <1>0, <2>1, <2>2, <2>3, <2>5, <4>1, Constants
      <4>2. CASE ~ (h \notin QuietHeights /\ k = h /\ b = cdc[h])
        BY <2>2, <4>2
      <4>. QED
        BY <4>1, <4>2
    <3>2. InForce' = InForce
      BY <3>1 DEF InForce
    <3>. QED
      BY <3>2
  <2>. QED
    BY <2>4, <2>5
<1>3. CASE /\ pc = "undo" /\ UNCHANGED cdc
           /\ \E from \in ancestor + 1 .. current + 1 :
                rows' = Retract(rows, from, current)
  <2>1. PICK from \in ancestor + 1 .. current + 1 :
          rows' = Retract(rows, from, current)
    BY <1>3
  <2>2. from \in Int /\ from - 1 \in Height
    BY <1>0, Constants
  <2>3. \A k \in Height, b \in Branch :
          /\ k < from \/ k > current => rows'[k][b] = rows[k][b]
          /\ from <= k /\ k <= current => rows'[k][b] <= 0
    BY <1>3, <2>1, <2>2, RetractSafe
  <2>4. \A k \in Height, b \in Branch : k > current => rows[k][b] <= 0
    BY <1>3 DEF IInv, NothingAboveReach, RowsReach, Processing
  <2>5. ASSUME NEW k \in Height, NEW b \in Branch
        PROVE  rows'[k][b] > 0 <=> rows[k][b] > 0 /\ k <= from - 1
    <3>0. k \in Int /\ current \in Int
      BY <1>0, Constants
    <3>1. CASE k < from
      BY <2>2, <2>3, <3>0, <3>1
    <3>2. CASE from <= k /\ k <= current
      <4>1. ~ (k <= from - 1) /\ rows'[k][b] <= 0
        BY <2>2, <2>3, <3>0, <3>2
      <4>2. rows'[k][b] \in Int
        BY <1>3, <2>1, <2>2, RetractSafe DEF Table
      <4>. QED
        BY <4>1, <4>2
    <3>3. CASE from <= k /\ k > current
      BY <1>0, <2>2, <2>3, <2>4, <3>0, <3>3
    <3>. QED
      BY <2>2, <3>0, <3>1, <3>2, <3>3
  <2>6. Stack!WithdrawAbove(from - 1)
    BY <2>5 DEF Stack!WithdrawAbove, InForce
  <2>. QED
    BY <2>2, <2>6 DEF Stack!Next
<1>. QED
  BY <1>1, <1>2, <1>3, RowSteps

(***************************************************************************)
(* The stream a consumer sees implements the stack: blocks enter on top of *)
(* everything in force and leave only from the top.                        *)
(***************************************************************************)
THEOREM StreamImplementsStack == Spec => ImplementsStack
<1>1. Init => Stack!Init
  BY DEF Init, InForce, Stack!Init
<1>2. IInv /\ [Next]_vars => [Stack!Next]_InForce
  BY StepsImplementStack
<1>. QED
  BY <1>1, <1>2, InvariantHolds, PTL DEF Spec, ImplementsStack, Stack!Spec

=============================================================================
