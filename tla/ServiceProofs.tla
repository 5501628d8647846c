--------------------------- MODULE ServiceProofs ---------------------------
(***************************************************************************)
(* Safety of the service over its restarts, for every set of command       *)
(* lines, every length of chain and blocks, and any number of starts,      *)
(* failures and reorgs.  What PostgreSQL makes of a batch, and what a      *)
(* reorg withdraws, are facts of PostgresTableProofs.                      *)
(***************************************************************************)
EXTENDS Service, TLAPS

\* The bounds are numbers, and configurations are configurations.
LEMMA Constants ==
  /\ MaxHeight \in Nat /\ MaxHeight > 0 /\ PerBlock \in Nat /\ PerBlock > 0
  /\ MaxFaults \in Nat
  /\ \A args \in Launches : Loaded(args) \subseteq Config
  BY ServiceAssumption

\* The memory of a process that ends, or has yet to begin, is empty.
LEMMA FreshIs ==
  ASSUME NEW n \in Nat, Fresh(n)
  PROVE  /\ current' \in Nat /\ left' \in Nat
         /\ cdc' = [k \in Height |-> NoBlock]
         /\ cdc' \in [Height -> Branch \cup {NoBlock}]
         /\ cached' = {} /\ redo' = << >> /\ redo' \in Seq(Height) /\ undone' = FALSE
         /\ pending' = << >> /\ buffer' = << >> /\ half' = FALSE
<1>1. cdc' = [k \in Height |-> NoBlock]
  BY DEF Fresh
<1>2. cdc' \in [Height -> Branch \cup {NoBlock}]
  BY <1>1
<1> QED BY <1>1, <1>2 DEF Fresh

\* run's count of the heights ahead is a number.
LEMMA LeftIs ==
  ASSUME TypeOK
  PROVE  /\ Poll => left' \in Nat
         /\ NextBlock => left' \in Nat
<1>1. left \in Nat /\ Tip \in Nat /\ current \in Nat
  BY DEF TypeOK, Tip
<1> QED BY <1>1 DEF Poll, NextBlock

-----------------------------------------------------------------------------
(***************************************************************************)
(* The session: its configuration, and what it leaves when it ends.        *)
(***************************************************************************)
LEMMA SessionStep == IInv /\ [Next]_vars => SessionOK'
<1>. SUFFICES ASSUME IInv, [Next]_vars PROVE SessionOK'
  OBVIOUS
<1>0. SessionOK
  BY DEF IInv
<1>1. CASE MineBlock \/ SwitchBranch \/ Poll \/ UNCHANGED vars
  BY <1>0, <1>1 DEF MineBlock, SwitchBranch, Poll, SessionOK, vars, sessionVars, fileVars
<1>2. CASE StartRefused \/ StartFails \/ StartPanics
  <2>1. /\ status' # "running" /\ pending' = << >> /\ half' = FALSE
        /\ redo' = << >> /\ UNCHANGED <<config, tail, torn>>
    BY <1>2 DEF StartRefused, StartFails, StartPanics, NoStart, Fresh, sessionVars, Delivered
  <2> QED BY <1>0, <2>1 DEF SessionOK
<1>3. CASE Start
  <2>1. PICK args \in Launches : \E c \in Loaded(args) :
          /\ Valid(c) /\ c.sink.type = config.sink.type
          /\ NewSession(c)
          /\ tail' = << >> \/ tail' = tail
    BY <1>3 DEF Start, Truncated
  <2>2. PICK c \in Config :
          /\ Valid(c) /\ c.sink.type = config.sink.type
          /\ NewSession(c)
          /\ tail' = << >> \/ tail' = tail
    BY <2>1, Constants
  <2> QED BY <1>0, <2>2 DEF SessionOK, NewSession, Fresh
<1>4. CASE NextBlock \/ RedoBlock \/ Undo
  <2>1. /\ Idle /\ UNCHANGED <<config, half, tail, torn>>
        /\ status' = status \/ (status' = "panicked" /\ pending' = << >>)
    BY <1>4 DEF NextBlock, RedoBlock, Undo, ProcessBlock, Transformed, PassedOver,
         UndoTo, ReorgFound, Hand, fileVars
  <2>2. ~ half
    BY <1>0, <2>1 DEF SessionOK, Idle
  <2>3. undone' \/ redo' = << >>
    BY <1>0, <1>4 DEF SessionOK, Idle, NextBlock, RedoBlock, Undo, UndoTo
  <2> QED BY <1>0, <2>1, <2>2, <2>3 DEF SessionOK, Idle
<1>5. CASE UndoFails \/ Shutdown \/ Fails \/ KafkaFails \/ FileFails \/ ConsoleFails
            \/ PostgresFails
  <2>1. /\ status' # "running" /\ pending' = << >> /\ half' = FALSE
        /\ redo' = << >> /\ UNCHANGED config
    BY <1>5 DEF UndoFails, Shutdown, Fails, KafkaFails, FileFails, ConsoleFails,
                PostgresFails, Ends, Fresh, sessionVars
  <2>2. tail' = tail \/ tail' = << >>
    BY <1>5 DEF UndoFails, Shutdown, Fails, KafkaFails, FileFails, ConsoleFails,
                PostgresFails, Delivered
  <2> QED BY <1>0, <2>1, <2>2 DEF SessionOK
<1>6. CASE KafkaAnswers \/ ConsolePrints
  <2>1. /\ status' = status /\ UNCHANGED <<config, redo, undone, half, tail, torn>>
        /\ status = "running" /\ config.sink.type # "file"
    BY <1>6 DEF KafkaAnswers, ConsolePrints, Sending, Sent, sessionVars, fileVars
  <2> QED BY <1>0, <2>1 DEF SessionOK
<1>7. CASE FileWrites
  <2>1. /\ status = "running" /\ pending # << >> /\ config.sink.type = "file"
        /\ half' = TRUE /\ UNCHANGED <<status, pending, config, redo, undone>>
        /\ torn' = (torn \/ tail # << >>)
        /\ tail' = IF torn \/ tail # << >> THEN << >> ELSE << Head(pending) >>
    BY <1>7 DEF FileWrites, Sending, sessionVars
  <2>2. torn' \/ tail' = << Head(pending') >>
    BY <2>1
  <2> QED BY <1>0, <2>1, <2>2 DEF SessionOK
<1>8. CASE FileEndsLine
  <2>1. /\ status = "running" /\ half' = FALSE /\ tail' = << >>
        /\ UNCHANGED <<status, config, redo, undone>>
    BY <1>8 DEF FileEndsLine, Sending, Sent, sessionVars
  <2> QED BY <1>0, <2>1 DEF SessionOK
<1>9. CASE PostgresBuffers \/ PostgresApplies
  <2>1. /\ status = "running" /\ config.sink.type = "postgres"
        /\ pending' = << >> /\ UNCHANGED <<config, tail>>
        /\ UNCHANGED <<redo, undone>> \/ redo' = << >>
        /\ half' = half \/ half' = FALSE
    BY <1>9 DEF PostgresBuffers, PostgresApplies, Sending, Ends, Fresh, sessionVars, fileVars
  <2>2. ~ half
    BY <1>0, <2>1 DEF SessionOK
  <2> QED BY <1>0, <2>1, <2>2 DEF SessionOK
<1> QED
  BY <1>1, <1>2, <1>3, <1>4, <1>5, <1>6, <1>7, <1>8, <1>9 DEF Next, SinkStep

(***************************************************************************)
(* Panics: a batch size that validate accepted is not 0.                   *)
(***************************************************************************)
LEMMA PanicStep == IInv /\ [Next]_vars => KafkaNeverPanics'
<1>. SUFFICES ASSUME IInv, [Next]_vars, status' = "panicked"
              PROVE  config'.sink.type # "kafka"
  BY DEF KafkaNeverPanics
<1>0. SessionOK /\ KafkaNeverPanics
  BY DEF IInv
<1>1. CASE status' = status /\ config' = config
  BY <1>0, <1>1 DEF KafkaNeverPanics
<1>2. CASE NextBlock \/ RedoBlock \/ Undo
  <2>1. config' = config
        /\ (status' = status \/ (config.sink.type = "kafka" /\ config.sink.batch = 0))
    BY <1>2 DEF NextBlock, RedoBlock, Undo, ProcessBlock, Transformed, PassedOver,
         UndoTo, ReorgFound, Hand
  <2>2. config.sink \in Sink /\ ValidSink(config.sink)
    BY <1>0 DEF SessionOK, Config, Valid
  <2>3. ~ (config.sink.type = "kafka" /\ config.sink.batch = 0)
    <3>1. ASSUME config.sink.type = "kafka" PROVE config.sink.batch > 0
      BY <2>2, <3>1 DEF ValidSink
    <3> QED BY <3>1
  <2> QED BY <1>1, <2>1, <2>3
<1>3. CASE ConsoleFails
  BY <1>3 DEF ConsoleFails, Sending, Ends, Fresh, sessionVars
<1>4. CASE StartRefused \/ StartFails \/ Start
  BY <1>4 DEF StartRefused, StartFails, Start, NoStart, NewSession
<1>9. CASE StartPanics
  <2>1. config.sink.type = "postgres" /\ config' = config
    BY <1>9 DEF StartPanics, NoStart
  <2> QED BY <2>1
<1>5. CASE UndoFails \/ Shutdown \/ Fails \/ KafkaFails \/ FileFails \/ PostgresFails
  BY <1>5 DEF UndoFails, Shutdown, Fails, KafkaFails, FileFails, PostgresFails, Ends, Fresh
<1>6. CASE PostgresApplies
  BY <1>1, <1>6 DEF PostgresApplies, Ends, Fresh, sessionVars
<1>7. CASE KafkaAnswers \/ FileWrites \/ FileEndsLine \/ ConsolePrints \/ PostgresBuffers
  <2>1. status' = status /\ config' = config
    BY <1>7 DEF KafkaAnswers, FileWrites, FileEndsLine, ConsolePrints, PostgresBuffers,
                Sent, sessionVars
  <2> QED BY <1>1, <2>1
<1>8. CASE MineBlock \/ SwitchBranch \/ Poll \/ UNCHANGED vars
  BY <1>1, <1>8 DEF MineBlock, SwitchBranch, Poll, vars, sessionVars
<1> QED BY <1>2, <1>3, <1>4, <1>5, <1>6, <1>7, <1>8, <1>9 DEF Next, SinkStep

(***************************************************************************)
(* Lines: every garbled line, and an unfinished one, has its own failure.  *)
(***************************************************************************)
\* What the last line may still cost.
Debt(isTorn, isHalf, hasTail) == IF isTorn \/ (hasTail /\ ~ isHalf) THEN 1 ELSE 0

\* A torn line, or an unfinished one that nobody is writing, may cost one line.
LEMMA DebtIs ==
  ASSUME NEW t \in BOOLEAN, NEW h \in BOOLEAN, NEW l \in BOOLEAN
  PROVE  /\ Debt(t, h, l) \in {0, 1}
         /\ t => Debt(t, h, l) = 1
         /\ ~ t /\ (h \/ ~ l) => Debt(t, h, l) = 0
  BY DEF Debt

\* One more failure pays for one more line.
LEMMA OneMore ==
  ASSUME NEW g \in Nat, NEW f \in Nat, NEW d \in {0, 1}, NEW e \in {0, 1}, g + d <= f
  PROVE  g + e <= f + 1
  OBVIOUS

\* Every step that may garble a line counts a failure.
LEMMA LinesStep == IInv /\ [Next]_vars => FailuresPaid'
<1>. SUFFICES ASSUME IInv, [Next]_vars PROVE FailuresPaid'
  OBVIOUS
<1>. DEFINE D == Debt(torn, half, tail # << >>)
<1>0. SessionOK /\ FailuresPaid
  BY DEF IInv
<1>a. /\ half \in BOOLEAN /\ torn \in BOOLEAN /\ garbled \in Nat /\ faults \in Nat
      /\ garbled + D <= faults
  BY <1>0 DEF FailuresPaid, Debt
<1>b. /\ D \in {0, 1}
      /\ torn => D = 1
      /\ ~ torn /\ (half \/ ~ (tail # << >>)) => D = 0
  BY <1>a, DebtIs
<1>c. ASSUME half' \in BOOLEAN, torn' \in BOOLEAN, garbled' \in Nat, faults' \in Nat,
             garbled' + D' <= faults'
      PROVE  FailuresPaid'
  BY <1>c DEF FailuresPaid, Debt
<1>d. ASSUME half' \in BOOLEAN, torn' \in BOOLEAN
      PROVE  /\ D' \in {0, 1}
             /\ torn' => D' = 1
             /\ ~ torn' /\ (half' \/ ~ (tail' # << >>)) => D' = 0
  <2>. (tail' # << >>) \in BOOLEAN
    OBVIOUS
  <2> QED BY <1>d, DebtIs
<1>1. ASSUME UNCHANGED <<tail, torn, garbled>>, half' = half,
             faults' = faults \/ faults' = faults + 1
      PROVE  FailuresPaid'
  <2>1. D' = D
    BY <1>1
  <2>2. garbled + D <= faults'
    <3>. HIDE DEF D
    <3> QED BY <1>a, <1>b, <1>1
  <2>3. half' \in BOOLEAN /\ torn' \in BOOLEAN /\ garbled' \in Nat /\ faults' \in Nat
    <3>1. half' \in BOOLEAN /\ torn' \in BOOLEAN /\ garbled' \in Nat
      BY <1>a, <1>1, Zenon
    <3>2. faults' \in Nat
      BY <1>a, <1>1
    <3> QED BY <3>1, <3>2
  <2>4. garbled' + D' <= faults'
    BY <2>1, <2>2, <1>1, Zenon
  <2> QED BY <1>c, <2>3, <2>4, Zenon
<1>2. CASE UNCHANGED <<half, tail, torn, garbled, faults>>
  BY <1>1, <1>2
<1>3. CASE StartRefused \/ StartFails \/ StartPanics
  <2>1. /\ UNCHANGED <<tail, torn, garbled>> /\ half' = FALSE /\ status # "running"
        /\ faults' = faults \/ faults' = faults + 1
    BY <1>3 DEF StartRefused, StartFails, StartPanics, Launch, NoStart, Fresh, Delivered, TransientFault
  <2>2. half' = half
    BY <1>0, <1>a, <2>1, Zenon DEF SessionOK
  <2> QED BY <1>1, <2>1, <2>2
<1>4. CASE Start
  <2>1. /\ half' = FALSE /\ status # "running" /\ faults' = faults
        /\ \/ UNCHANGED <<tail, torn, garbled>>
           \/ tail' = << >> /\ torn' = FALSE /\ garbled' = 0
    BY <1>4 DEF Start, Launch, NewSession, Fresh, Truncated
  <2>2. half' = half
    BY <1>0, <1>a, <2>1, Zenon DEF SessionOK
  <2>3. CASE tail' = << >> /\ torn' = FALSE /\ garbled' = 0
    <3>1. half' \in BOOLEAN /\ torn' \in BOOLEAN /\ garbled' \in Nat /\ faults' \in Nat
      BY <1>a, <2>1, <2>3, Zenon
    <3>2. D' = 0
      BY <1>d, <2>3, <3>1
    <3>3. garbled' + D' <= faults'
      <4>. HIDE DEF D
      <4> QED BY <2>3, <3>1, <3>2
    <3> QED BY <1>c, <3>1, <3>3, Zenon
  <2>4. CASE UNCHANGED <<tail, torn, garbled>>
    BY <1>1, <1>a, <2>1, <2>2, <2>4
  <2> QED BY <2>1, <2>3, <2>4
<1>5. CASE UndoFails \/ Shutdown \/ Fails \/ KafkaFails \/ ConsoleFails \/ PostgresFails
            \/ (PostgresApplies /\ half' = FALSE)
  <2>1. /\ UNCHANGED <<tail, torn, garbled>> /\ half' = FALSE
        /\ faults' = faults \/ faults' = faults + 1
        /\ pending = << >> \/ config.sink.type # "file"
    BY <1>5 DEF UndoFails, Shutdown, Fails, KafkaFails, ConsoleFails, PostgresFails,
                PostgresApplies, ReorgFound, Idle, Sending, Ends, Fresh, Delivered,
                TransientFault
  <2>2. half' = half
    BY <1>0, <1>a, <2>1, Zenon DEF SessionOK
  <2> QED BY <1>1, <2>1, <2>2
<1>6. CASE FileFails
  <2>1. /\ faults' = faults + 1 /\ half' = FALSE /\ garbled' = garbled
        /\ torn' = torn \/ torn' = TRUE
    BY <1>6 DEF FileFails, TransientFault, Ends, Fresh
  <2>2. half' \in BOOLEAN /\ torn' \in BOOLEAN /\ garbled' \in Nat /\ faults' \in Nat
    <3>1. half' \in BOOLEAN /\ torn' \in BOOLEAN /\ garbled' \in Nat
      BY <1>a, <2>1, Zenon
    <3>2. faults' \in Nat
      BY <1>a, <2>1
    <3> QED BY <3>1, <3>2
  <2>3. D' \in {0, 1}
    BY <1>d, <2>2
  <2>4. garbled' + D' <= faults'
    <3>. HIDE DEF D
    <3>1. /\ garbled \in Nat /\ faults \in Nat /\ garbled + D <= faults
          /\ D \in {0, 1} /\ D' \in {0, 1}
          /\ garbled' = garbled /\ faults' = faults + 1
      BY <1>a, <1>b, <2>1, <2>3, Zenon
    <3>2. garbled + D' <= faults + 1
      BY <3>1, OneMore
    <3> QED BY <3>1, <3>2, Zenon
  <2> QED BY <1>c, <2>2, <2>4, Zenon
<1>7. CASE FileWrites
  <2>1. /\ half' = TRUE /\ ~ half /\ UNCHANGED <<garbled, faults>>
        /\ torn' \in BOOLEAN /\ (torn' => torn \/ tail # << >>)
    <3>1. torn' = (torn \/ tail # << >>) /\ half' = TRUE /\ ~ half
          /\ UNCHANGED <<garbled, faults>>
      BY <1>7 DEF FileWrites
    <3> QED BY <3>1, Zenon
  <2>2. D' \in {0, 1} /\ (~ torn' => D' = 0)
    BY <1>d, <2>1, Zenon
  <2>3. torn' => D = 1
    <3>1. torn \/ (tail # << >> /\ ~ half) => D = 1
      BY DEF Debt
    <3> QED BY <2>1, <3>1, Zenon
  <2>4. garbled' + D' <= faults'
    <3>. HIDE DEF D
    <3>1. D' = 0 \/ D = 1
      BY <2>2, <2>3, Zenon
    <3>2. D' = 0 \/ D' = 1
      BY <2>2
    <3> QED BY <1>a, <1>b, <2>1, <3>1, <3>2
  <2> QED BY <1>a, <1>c, <2>1, <2>4, Zenon
<1>8. CASE FileEndsLine
  <2>1. /\ half' = FALSE /\ half /\ tail' = << >> /\ torn' = FALSE /\ UNCHANGED faults
        /\ garbled' = IF torn THEN garbled + 1 ELSE garbled
    BY <1>8 DEF FileEndsLine, Sent
  <2>2. D' = 0
    BY <1>d, <2>1
  <2>3. garbled' \in Nat /\ garbled' + 0 <= faults
    <3>. HIDE DEF D
    <3>1. CASE torn
      BY <1>a, <1>b, <2>1, <3>1
    <3>2. CASE ~ torn
      BY <1>a, <1>b, <2>1, <3>2
    <3> QED BY <3>1, <3>2
  <2> QED BY <1>a, <1>c, <2>1, <2>2, <2>3, Zenon
<1>11. CASE NextBlock \/ RedoBlock \/ Undo
  <2>1. /\ UNCHANGED <<tail, torn, garbled>> /\ half' = half
        /\ faults' = faults \/ faults' = faults + 1
    BY <1>11 DEF NextBlock, RedoBlock, Undo, ProcessBlock, Transformed, PassedOver, UndoTo,
                 Hand, TransientFault, fileVars
  <2> QED BY <1>1, <2>1
<1>9. CASE \/ MineBlock \/ SwitchBranch \/ Poll \/ UNCHANGED vars
           \/ KafkaAnswers \/ ConsolePrints \/ PostgresBuffers
           \/ (PostgresApplies /\ half' = half)
  <2>1. UNCHANGED <<half, tail, torn, garbled, faults>>
    BY <1>9 DEF MineBlock, SwitchBranch, Poll, vars, NextBlock, RedoBlock, Undo, ProcessBlock,
                Hand, KafkaAnswers, ConsolePrints, PostgresBuffers, PostgresApplies, Sent,
                fileVars
  <2> QED BY <1>2, <2>1
<1>10. PostgresApplies => half' = FALSE \/ half' = half
  BY DEF PostgresApplies, Ends, Fresh
<1> QED
  BY <1>3, <1>4, <1>5, <1>6, <1>7, <1>8, <1>9, <1>10, <1>11 DEF Next, SinkStep

-----------------------------------------------------------------------------
(***************************************************************************)
(* What an undisturbed session has sent: the blocks above its start, of    *)
(* the current one all but what is pending.                                *)
(***************************************************************************)
LEMMA BlockIs ==
  ASSUME NEW k \in Height, NEW b
  PROVE  /\ DOMAIN Block(k, b) = 1 .. PerBlock
         /\ Len(Block(k, b)) = PerBlock
         /\ \A i \in 1 .. PerBlock : Block(k, b)[i].key = <<k, i>> /\ Block(k, b)[i].after = b
<1>1. PerBlock \in Nat
  BY Constants
<1> QED BY <1>1 DEF Block

\* Applying a message changes the record at its key, and no other.
LEMMA EffectIs ==
  ASSUME NEW table, table = [key \in Key |-> table[key]], NEW m
  PROVE  /\ Db!Effect(table, m) = [key \in Key |-> Db!Effect(table, m)[key]]
         /\ \A key \in Key :
              Db!Effect(table, m)[key] = IF key = m.key THEN m.after ELSE table[key]
  BY DEF Db!Effect

\* A key is its height and position: keys of different blocks differ.
LEMMA KeysDiffer ==
  ASSUME NEW k \in Height, NEW i \in 1 .. PerBlock, NEW l \in Height, NEW j \in 1 .. PerBlock
  PROVE  <<k, i>> \in Key /\ (<<k, i>> = <<l, j>> <=> k = l /\ i = j)
  BY DEF Key

\* The message on its way: the current block's first that is not delivered.
LEMMA HeadPending ==
  ASSUME Underway, status = "running", ~ undone, pending # << >>
  PROVE  /\ current \in Height /\ Done \in 0 .. PerBlock - 1
         /\ Head(pending).key = <<current, Done + 1>>
         /\ Head(pending).after = cdc[current]
         /\ Tail(pending) \in Seq(Db!Message)
         /\ Len(Tail(pending)) = Len(pending) - 1
         /\ \A i \in 1 .. Len(Tail(pending)) :
              Tail(pending)[i] = Block(current, cdc[current])[Done + 1 + i]
<1>1. /\ pending \in Seq(Db!Message) /\ Len(pending) <= PerBlock
      /\ current \in Height
      /\ \A i \in 1 .. Len(pending) : pending[i] = Block(current, cdc[current])[Done + i]
  BY DEF Underway
<1>2. PerBlock \in Nat /\ Len(pending) \in Nat /\ Len(pending) > 0
  BY <1>1, Constants
<1>3. Done \in 0 .. PerBlock - 1 /\ Done + 1 \in 1 .. PerBlock
  BY <1>1, <1>2 DEF Done
<1>4. Head(pending) = pending[1] /\ 1 \in 1 .. Len(pending)
  BY <1>1, <1>2
<1>5. Head(pending) = Block(current, cdc[current])[Done + 1]
  BY <1>1, <1>4
<1>6. /\ Tail(pending) \in Seq(Db!Message) /\ Len(Tail(pending)) = Len(pending) - 1
      /\ \A i \in 1 .. Len(Tail(pending)) : Tail(pending)[i] = pending[i + 1]
  BY <1>1, <1>2
<1>7. ASSUME NEW i \in 1 .. Len(Tail(pending))
      PROVE  Tail(pending)[i] = Block(current, cdc[current])[Done + 1 + i]
  <2>1. i + 1 \in 1 .. Len(pending) /\ Done + (i + 1) = Done + 1 + i
    BY <1>2, <1>3, <1>6
  <2>2. pending[i + 1] = Block(current, cdc[current])[Done + (i + 1)]
    BY <1>1, <2>1
  <2> QED BY <1>6, <2>1, <2>2
<1>8. /\ Head(pending).key = <<current, Done + 1>>
      /\ Head(pending).after = cdc[current]
  BY <1>1, <1>3, <1>5, BlockIs
<1> QED BY <1>1, <1>3, <1>6, <1>7, <1>8

\* Delivered on top of what came before it, it leaves one message less to come.
LEMMA Delivers ==
  ASSUME Underway, status = "running", ~ undone, pending # << >>,
         NEW read, read = [key \in Key |-> read[key]],
         \A k \in Height, i \in 1 .. PerBlock :
           AlreadySent(k, i) => read[<<k, i>>] = cdc[k]
  PROVE  \A k \in Height, i \in 1 .. PerBlock :
           config.start < k /\ k <= current /\ (k = current => i <= Done + 1) /\ cdc[k] # NoBlock
             => Db!Effect(read, Head(pending))[<<k, i>>] = cdc[k]
<1>. SUFFICES ASSUME NEW k \in Height, NEW i \in 1 .. PerBlock,
                     config.start < k, k <= current, k = current => i <= Done + 1,
                     cdc[k] # NoBlock
              PROVE  Db!Effect(read, Head(pending))[<<k, i>>] = cdc[k]
  OBVIOUS
<1>0. /\ current \in Height /\ Done \in 0 .. PerBlock - 1
      /\ Head(pending).key = <<current, Done + 1>>
      /\ Head(pending).after = cdc[current]
  BY HeadPending
<1>1. PerBlock \in Nat /\ Done + 1 \in 1 .. PerBlock
  BY <1>0, Constants
<1>2. /\ <<k, i>> \in Key
      /\ <<k, i>> = <<current, Done + 1>> <=> k = current /\ i = Done + 1
  BY <1>0, <1>1, KeysDiffer
<1>3. Db!Effect(read, Head(pending))[<<k, i>>]
        = IF <<k, i>> = Head(pending).key THEN Head(pending).after ELSE read[<<k, i>>]
  <2>1. \A key \in Key : Db!Effect(read, Head(pending))[key]
          = IF key = Head(pending).key THEN Head(pending).after ELSE read[key]
    BY EffectIs
  <2> QED BY <1>2, <2>1
<1>4. CASE k = current /\ i = Done + 1
  BY <1>0, <1>2, <1>3, <1>4
<1>5. CASE ~ (k = current /\ i = Done + 1)
  <2>1. AlreadySent(k, i)
    <3>1. k = current => i <= Done
      BY <1>0, <1>1, <1>5
    <3> QED BY <3>1 DEF AlreadySent
  <2> QED BY <1>0, <1>2, <1>3, <1>5, <2>1
<1> QED BY <1>4, <1>5

(***************************************************************************)
(* The chain and the two functions keep their shapes.                      *)
(***************************************************************************)
LEMMA ShapesStep == IInv /\ [Next]_vars => Shapes'
<1>. SUFFICES ASSUME IInv, [Next]_vars PROVE Shapes'
  OBVIOUS
<1>0. Shapes
  BY DEF IInv
<1>1. ASSUME UNCHANGED envVars
      PROVE  chain' \in Seq(Branch) /\ Tip' <= MaxHeight /\ branch' \in Branch
  BY <1>0, <1>1 DEF Shapes, envVars, Tip
<1>2. ASSUME UNCHANGED cdc PROVE cdc' = [k \in Height |-> cdc'[k]]
  BY <1>0, <1>2 DEF Shapes
<1>3. ASSUME held' = held \/ held' = Db!EmptyTable \/ \E m : held' = Db!Effect(held, m)
      PROVE  held' = [key \in Key |-> held'[key]]
  BY <1>0, <1>3 DEF Shapes, Db!Effect, Db!EmptyTable
<1>4. MaxHeight \in Nat /\ MaxReorgs \in Nat
  BY Constants, ServiceAssumption
<1>5. CASE MineBlock
  <2>1. chain' \in Seq(Branch) /\ Tip' <= MaxHeight /\ branch' \in Branch
    BY <1>0, <1>4, <1>5 DEF MineBlock, Shapes, Tip
  <2> QED BY <1>2, <1>3, <1>5, <2>1 DEF MineBlock, Shapes, sessionVars
<1>6. CASE SwitchBranch
  <2>1. branch' \in Branch
    BY <1>0, <1>4, <1>6 DEF SwitchBranch, Shapes, Branch
  <2>2. PICK fork \in 0 .. Tip - 1 : chain' = SubSeq(chain, 1, fork)
    BY <1>6 DEF SwitchBranch
  <2>3. Tip \in Nat /\ fork \in 0 .. Tip
    BY <1>0, <2>2 DEF Shapes, Tip
  <2>4. chain' \in Seq(Branch) /\ Len(chain') = fork
    BY <1>0, <2>2, <2>3 DEF Shapes, Tip
  <2>5. Tip' <= MaxHeight
    BY <1>0, <1>4, <2>3, <2>4 DEF Shapes, Tip
  <2> QED BY <1>2, <1>3, <1>6, <2>1, <2>4, <2>5 DEF SwitchBranch, Shapes, sessionVars
<1>7. CASE StartRefused \/ StartFails \/ StartPanics
  <2>1. UNCHANGED <<envVars, held>> /\ cdc' = [k \in Height |-> NoBlock]
    BY <1>7 DEF StartRefused, StartFails, StartPanics, Launch, NoStart, Fresh, Delivered
  <2> QED BY <1>1, <1>3, <2>1 DEF Shapes
<1>8. CASE Start
  <2>1. UNCHANGED envVars /\ cdc' = [k \in Height |-> NoBlock]
        /\ held' \in {held, Db!EmptyTable}
    BY <1>8 DEF Start, Launch, NewSession, Fresh, Truncated
  <2> QED BY <1>1, <1>3, <2>1 DEF Shapes
<1>9. CASE NextBlock \/ RedoBlock \/ Undo
  <2>1. UNCHANGED <<envVars, held>>
        /\ (UNCHANGED cdc \/ \E k : cdc' = [cdc EXCEPT ![k] = chain[k]])
    BY <1>9 DEF NextBlock, RedoBlock, Undo, ProcessBlock, Transformed, PassedOver,
         UndoTo, ReorgFound, Hand
  <2>2. CASE UNCHANGED cdc
    BY <1>1, <1>2, <1>3, <2>1, <2>2 DEF Shapes
  <2>3. CASE \E k : cdc' = [cdc EXCEPT ![k] = chain[k]]
    <3>1. cdc' = [k \in Height |-> cdc'[k]]
      BY <1>0, <2>3 DEF Shapes
    <3> QED BY <1>1, <1>3, <2>1, <3>1 DEF Shapes
  <2> QED BY <2>1, <2>2, <2>3
<1>10. CASE UndoFails \/ Shutdown \/ Fails \/ KafkaFails \/ FileFails \/ ConsoleFails
             \/ PostgresFails
  <2>1. /\ UNCHANGED envVars /\ cdc' = [k \in Height |-> NoBlock]
        /\ held' = held \/ \E m : held' = Db!Effect(held, m)
    BY <1>10 DEF UndoFails, Shutdown, Fails, KafkaFails, FileFails, ConsoleFails,
                 PostgresFails, Ends, Fresh, sessionVars, Delivered
  <2> QED BY <1>1, <1>3, <2>1 DEF Shapes
<1>11. CASE SinkStep
  <2>1. /\ UNCHANGED envVars /\ (UNCHANGED cdc \/ cdc' = [k \in Height |-> NoBlock])
        /\ held' = held \/ \E m : held' = Db!Effect(held, m)
    BY <1>11 DEF SinkStep, KafkaAnswers, FileWrites, FileEndsLine, ConsolePrints,
                 PostgresBuffers, PostgresApplies, Sent, Ends, Fresh, sessionVars
  <2> QED BY <1>1, <1>2, <1>3, <2>1 DEF Shapes
<1>12. CASE UNCHANGED vars
  BY <1>1, <1>2, <1>3, <1>12 DEF vars, sessionVars, Shapes
<1>13. CASE Poll
  BY <1>1, <1>2, <1>3, <1>13 DEF Poll, Shapes
<1> QED BY <1>5, <1>6, <1>7, <1>8, <1>9, <1>10, <1>11, <1>12, <1>13 DEF Next

(***************************************************************************)
(* What is pending is the end of the current block.                        *)
(***************************************************************************)
LEMMA BlockMessages ==
  ASSUME NEW k \in Height, NEW b \in Branch
  PROVE  Block(k, b) \in Seq(Db!Message)
<1>. DEFINE m(i) == [operation |-> "create", key |-> <<k, i>>, before |-> NoBlock, after |-> b]
<1>1. ASSUME NEW i \in 1 .. PerBlock PROVE m(i) \in Db!Message
  BY KeysDiffer DEF Db!Message, Db!Record, Db!Operation, Key
<1>2. PerBlock \in Nat
  BY Constants
<1>3. Block(k, b) = [i \in 1 .. PerBlock |-> m(i)]
  BY DEF Block
<1>. HIDE DEF m
<1> QED BY <1>1, <1>2, <1>3

\* A step leaves pending the end of the current block, or another block.
LEMMA UnderwayStep == IInv /\ [Next]_vars => Underway'
<1>. SUFFICES ASSUME IInv, [Next]_vars PROVE Underway'
  OBVIOUS
<1>0. SessionOK /\ Shapes /\ Underway
  BY DEF IInv
<1>1. CASE UNCHANGED <<status, undone, current, config, pending, cdc>>
  <2>1. Done' = Done
    BY <1>1 DEF Done
  <2> QED BY <1>0, <1>1, <2>1 DEF Underway, Block
<1>2. CASE status' # "running"
  BY <1>2 DEF Underway
<1>3. CASE Start
  <2>1. PICK args \in Launches : \E c \in Loaded(args) : NewSession(c)
    BY <1>3 DEF Start
  <2>2. PICK c \in Config : NewSession(c)
    BY <2>1, Constants
  <2>3. current' \in Nat /\ config'.start = current' /\ pending' = << >>
        /\ cdc' = [k \in Height |-> NoBlock]
    BY <2>2 DEF NewSession, Fresh, Config
  <2> QED BY <2>3, Constants DEF Underway
<1>12. CASE NextBlock /\ PassedOver(current + 1)
  <2>. SUFFICES ASSUME status' = "running", ~ undone' PROVE Underway'
    BY DEF Underway
  <2>1. /\ status = "running" /\ pending = << >> /\ ~ undone
        /\ current' = current + 1 /\ UNCHANGED <<config, cdc, pending>>
    BY <1>12 DEF NextBlock, PassedOver, Idle
  <2>2. /\ current \in Nat /\ config.start <= current /\ config.start \in Nat
        /\ \A k \in Height : current < k => cdc[k] = NoBlock
    BY <1>0, <2>1 DEF Underway, SessionOK, Config
  <2>3. \A k \in Height : current' < k => cdc'[k] = NoBlock
    BY <2>1, <2>2 DEF Height
  <2>4. config'.start <= current' /\ current' \in Nat
    BY <2>1, <2>2
  <2> QED BY <2>1, <2>3, <2>4, Constants DEF Underway
<1>4. CASE NextBlock /\ Transformed(current + 1)
  <2>. SUFFICES ASSUME status' = "running", ~ undone' PROVE Underway'
    BY DEF Underway
  <2>1. /\ status = "running" /\ pending = << >> /\ ~ undone /\ current + 1 <= Tip
        /\ current' = current + 1 /\ config' = config
        /\ cdc' = [cdc EXCEPT ![current + 1] = chain[current + 1]]
        /\ pending' = Block(current + 1, chain[current + 1])
    BY <1>4 DEF NextBlock, Transformed, Hand, Idle
  <2>2. current \in Nat /\ config.start <= current
    BY <1>0, <2>1 DEF Underway
  <2>3. Tip \in Nat /\ MaxHeight \in Nat /\ Tip <= MaxHeight /\ chain \in Seq(Branch)
        /\ Len(chain) = Tip
    BY <1>0, Constants DEF Shapes, Tip
  <2>4. current + 1 \in Height /\ current + 1 \in 1 .. Len(chain)
    BY <2>1, <2>2, <2>3 DEF Height
  <2>5. chain[current + 1] \in Branch
    BY <2>3, <2>4
  <2>6. cdc'[current'] = chain[current + 1]
    BY <1>0, <2>1, <2>4 DEF Shapes
  <2>7. pending' = Block(current', cdc'[current'])
    BY <2>1, <2>6
  <2>8. pending' \in Seq(Db!Message) /\ Len(pending') = PerBlock
    BY <2>1, <2>4, <2>5, BlockMessages, BlockIs
  <2>9. PerBlock \in Nat /\ Done' = 0
    BY <2>8, Constants DEF Done
  <2>10. config'.start < current' /\ current' \in Height /\ current' \in Nat
    <3>1. config.start \in Nat
      BY <1>0 DEF SessionOK, Config
    <3> QED BY <2>1, <2>2, <2>4, <3>1
  <2>11. ASSUME NEW i \in 1 .. Len(pending')
         PROVE  pending'[i] = Block(current', cdc'[current'])[Done' + i]
    <3>1. Done' + i = i
      BY <2>8, <2>9
    <3> QED BY <2>7, <3>1
  <2>12. config'.start <= current'
    <3>1. config.start \in Nat
      BY <1>0 DEF SessionOK, Config
    <3> QED BY <2>1, <2>2, <3>1
  <2>13. Len(pending') <= PerBlock
    BY <2>8, <2>9
  <2>14. ASSUME NEW k \in Height, current' < k PROVE cdc'[k] = NoBlock
    <3>1. current < k /\ k # current + 1
      BY <2>1, <2>2, <2>14 DEF Height
    <3>2. cdc'[k] = cdc[k]
      BY <1>0, <2>1, <3>1 DEF Shapes
    <3> QED BY <1>0, <2>1, <3>1, <3>2 DEF Underway
  <2> QED BY <2>8, <2>10, <2>11, <2>12, <2>13, <2>14 DEF Underway, Block
<1>5. CASE RedoBlock
  <2>1. status = "running" /\ redo # << >> /\ undone' = undone
    BY <1>5 DEF RedoBlock, Idle
  <2>2. undone'
    BY <1>0, <2>1 DEF SessionOK
  <2> QED BY <2>2 DEF Underway
<1>6. CASE Undo
  BY <1>6 DEF Undo, UndoTo, Underway
<1>7. CASE KafkaAnswers \/ FileEndsLine \/ ConsolePrints
  <2>. SUFFICES ASSUME status' = "running", ~ undone' PROVE Underway'
    BY DEF Underway
  <2>1. /\ pending # << >> /\ pending' = Tail(pending)
        /\ UNCHANGED <<status, undone, current, config, cdc>>
    BY <1>7 DEF KafkaAnswers, FileEndsLine, ConsolePrints, Sending, Sent, sessionVars
  <2>2. /\ current \in Height /\ Done \in 0 .. PerBlock - 1
        /\ pending' \in Seq(Db!Message)
        /\ Len(pending') = Len(pending) - 1
        /\ \A i \in 1 .. Len(pending') :
             pending'[i] = Block(current, cdc[current])[Done + 1 + i]
    BY <1>0, <2>1, HeadPending
  <2>3. /\ current \in Nat /\ config.start <= current /\ config.start < current
        /\ pending \in Seq(Db!Message) /\ Len(pending) <= PerBlock
        /\ \A k \in Height : current < k => cdc[k] = NoBlock
    BY <1>0, <2>1 DEF Underway
  <2>4. PerBlock \in Nat /\ Done' = Done + 1 /\ Len(pending') <= PerBlock
    <3>1. PerBlock \in Nat /\ Len(pending) \in Nat
      BY <2>3, Constants
    <3> QED BY <2>2, <2>3, <3>1 DEF Done
  <2>5. \A i \in 1 .. Len(pending') :
          pending'[i] = Block(current', cdc'[current'])[Done' + i]
    BY <2>1, <2>2, <2>4
  <2> QED BY <2>1, <2>2, <2>3, <2>4, <2>5 DEF Underway, Block
<1>8. CASE PostgresBuffers \/ PostgresApplies
  <2>. SUFFICES ASSUME status' = "running" PROVE Underway'
    BY DEF Underway
  <2>1. pending' = << >> /\ UNCHANGED <<status, undone, current, config, cdc>>
    BY <1>8 DEF PostgresBuffers, PostgresApplies, Sending, Ends, Fresh, sessionVars
  <2> QED BY <1>0, <2>1, Constants DEF Underway
<1>9. CASE MineBlock \/ SwitchBranch \/ Poll \/ UNCHANGED vars \/ FileWrites
  BY <1>1, <1>9 DEF MineBlock, SwitchBranch, Poll, vars, FileWrites, sessionVars
<1>10. CASE StartRefused \/ StartFails \/ StartPanics
  BY <1>2, <1>10 DEF StartRefused, StartFails, StartPanics, NoStart, Fresh
<1>11. CASE UndoFails \/ Shutdown \/ Fails \/ KafkaFails \/ FileFails \/ ConsoleFails
             \/ PostgresFails
  BY <1>2, <1>11 DEF UndoFails, Shutdown, Fails, KafkaFails, FileFails, ConsoleFails,
                     PostgresFails, Ends, Fresh
<1> QED
  BY <1>3, <1>4, <1>5, <1>6, <1>7, <1>8, <1>9, <1>10, <1>11, <1>12
     DEF Next, SinkStep, NextBlock, ProcessBlock

(***************************************************************************)
(* Everything of an undisturbed session that is not pending was delivered. *)
(***************************************************************************)
LEMMA ReachedStep == IInv /\ [Next]_vars => Reached'
<1>. SUFFICES ASSUME IInv, [Next]_vars,
                     status' = "running", ~ undone', config'.sink.type # "postgres",
                     garbled' = 0, ~ torn'
              PROVE  \A k \in Height, i \in 1 .. PerBlock :
                       AlreadySent(k, i)' => Read'[<<k, i>>] = cdc'[k]
  BY DEF Reached
<1>0. SessionOK /\ FailuresPaid /\ Shapes /\ Underway /\ Reached
  BY DEF IInv
<1>a. held = [key \in Key |-> held[key]]
  BY <1>0 DEF Shapes
<1>1. CASE UNCHANGED <<status, undone, current, config, pending, cdc, held, tail, torn, garbled>>
  <2>1. Reached
    BY <1>0
  <2>2. Read' = Read
    BY <1>1 DEF Read, Db!Effect
  <2>3. Done' = Done
    BY <1>1 DEF Done
  <2> QED BY <1>1, <2>1, <2>2, <2>3 DEF Reached, AlreadySent
<1>2. CASE Start
  <2>1. PICK args \in Launches : \E c \in Loaded(args) : NewSession(c)
    BY <1>2 DEF Start
  <2>2. PICK c \in Config : NewSession(c)
    BY <2>1, Constants
  <2>3. current' \in Nat /\ config'.start = current'
    BY <2>2 DEF NewSession, Fresh, Config
  <2>4. Height \subseteq Nat
    BY Constants DEF Height
  <2> QED BY <2>3, <2>4 DEF AlreadySent
<1>12. CASE NextBlock /\ PassedOver(current + 1)
  <2>1. /\ status = "running" /\ pending = << >> /\ ~ undone
        /\ current' = current + 1
        /\ UNCHANGED <<config, held, tail, torn, garbled, cdc, pending>>
    BY <1>12 DEF NextBlock, PassedOver, Idle, fileVars
  <2>2. /\ current \in Nat /\ PerBlock \in Nat
        /\ \A k \in Height : current < k => cdc[k] = NoBlock
    BY <1>0, <2>1, Constants DEF Underway
  <2>3. Done = PerBlock
    BY <2>1, <2>2 DEF Done
  <2>4. Read' = Read
    BY <2>1 DEF Read, Db!Effect
  <2>5. ASSUME NEW k \in Height, NEW i \in 1 .. PerBlock, AlreadySent(k, i)'
        PROVE  Read'[<<k, i>>] = cdc'[k]
    <3>1. config.start < k /\ k <= current + 1 /\ cdc[k] # NoBlock /\ k \in Nat
      BY <2>1, <2>5, Constants DEF AlreadySent, Height
    <3>2. k <= current
      BY <2>2, <3>1
    <3>3. AlreadySent(k, i)
      BY <2>2, <2>3, <3>1, <3>2 DEF AlreadySent
    <3>4. Read[<<k, i>>] = cdc[k]
      BY <1>0, <2>1, <3>3 DEF Reached
    <3> QED BY <2>1, <2>4, <3>4
  <2> QED BY <2>5
<1>3. CASE NextBlock /\ Transformed(current + 1)
  <2>1. /\ status = "running" /\ pending = << >> /\ ~ undone /\ current + 1 <= Tip
        /\ current' = current + 1
        /\ UNCHANGED <<config, held, tail, torn, garbled>>
        /\ cdc' = [cdc EXCEPT ![current + 1] = chain[current + 1]]
        /\ pending' = Block(current + 1, chain[current + 1])
    BY <1>3 DEF NextBlock, Transformed, Hand, Idle, fileVars
  <2>2. current \in Nat /\ Tip \in Nat /\ MaxHeight \in Nat /\ Tip <= MaxHeight
        /\ PerBlock \in Nat
    BY <1>0, <2>1, Constants DEF Underway, Shapes, Tip
  <2>3. current + 1 \in Height
    BY <2>1, <2>2 DEF Height
  <2>4. Done = PerBlock /\ Done' = 0
    <3>1. Len(pending') = PerBlock
      BY <2>1, <2>3, BlockIs
    <3>2. Len(pending) = 0
      BY <2>1
    <3> QED BY <2>2, <3>1, <3>2 DEF Done
  <2>5. Read' = Read
    BY <2>1 DEF Read, Db!Effect
  <2>6. ASSUME NEW k \in Height, NEW i \in 1 .. PerBlock, AlreadySent(k, i)'
        PROVE  Read'[<<k, i>>] = cdc'[k]
    <3>1. /\ config.start < k /\ k <= current + 1
          /\ k = current + 1 => i <= 0
      BY <2>1, <2>4, <2>6 DEF AlreadySent
    <3>2. k # current + 1 /\ k <= current
      BY <2>2, <3>1 DEF Height
    <3>5. cdc'[k] = cdc[k]
      BY <1>0, <2>1, <3>2 DEF Shapes
    <3>3. AlreadySent(k, i)
      BY <2>2, <2>4, <2>6, <3>1, <3>2, <3>5 DEF AlreadySent
    <3>4. Read[<<k, i>>] = cdc[k]
      BY <1>0, <2>1, <3>3 DEF Reached
    <3> QED BY <2>5, <3>4, <3>5
  <2> QED BY <2>6
<1>4. CASE RedoBlock
  <2>1. status = "running" /\ redo # << >> /\ undone' = undone
    BY <1>4 DEF RedoBlock, Idle
  <2> QED BY <1>0, <2>1 DEF SessionOK
<1>5. CASE Undo
  BY <1>5 DEF Undo, UndoTo
<1>6. CASE KafkaAnswers \/ ConsolePrints \/ FileEndsLine
  <2>1. /\ status = "running" /\ pending # << >> /\ ~ undone
        /\ pending' = Tail(pending)
        /\ UNCHANGED <<current, config, cdc>>
        /\ config.sink.type # "postgres"
    BY <1>6 DEF KafkaAnswers, FileEndsLine, ConsolePrints, Sending, Sent, sessionVars
  <2>2. tail' = << >> /\ held' = Db!Effect(held, Head(pending))
        /\ ~ torn /\ garbled = 0 /\ Read = (IF tail = << >> THEN held ELSE held')
    <3>1. CASE KafkaAnswers \/ ConsolePrints
      <4>1. /\ held' = Db!Effect(held, Head(pending))
            /\ UNCHANGED <<tail, torn, garbled>> /\ config.sink.type # "file"
        BY <3>1 DEF KafkaAnswers, ConsolePrints, Sending, fileVars
      <4>2. tail = << >>
        BY <1>0, <4>1 DEF SessionOK
      <4> QED BY <4>1, <4>2 DEF Read
    <3>2. CASE FileEndsLine
      <4>1. /\ half /\ tail' = << >>
            /\ held' = IF torn THEN held ELSE Db!Effect(held, Head(tail))
            /\ garbled' = IF torn THEN garbled + 1 ELSE garbled
        BY <3>2 DEF FileEndsLine
      <4>2. garbled \in Nat
        BY <1>0 DEF FailuresPaid
      <4>3. ~ torn
        BY <4>1, <4>2
      <4>4. tail = << Head(pending) >>
        BY <1>0, <4>1, <4>3 DEF SessionOK
      <4>5. Head(tail) = Head(pending) /\ tail # << >>
        BY <4>4
      <4>6. held' = Db!Effect(held, Head(pending)) /\ garbled = 0
        BY <4>1, <4>3, <4>5
      <4> QED BY <4>1, <4>3, <4>5, <4>6 DEF Read
    <3> QED BY <1>6, <3>1, <3>2
  <2>3. \A k \in Height, i \in 1 .. PerBlock : AlreadySent(k, i) => Read[<<k, i>>] = cdc[k]
    BY <1>0, <2>1, <2>2 DEF Reached
  <2>4. /\ current \in Height /\ Done \in 0 .. PerBlock - 1
        /\ Head(pending).key = <<current, Done + 1>>
        /\ Len(pending') = Len(pending) - 1
    BY <1>0, <2>1, HeadPending
  <2>5. Done' = Done + 1
    <3>1. pending \in Seq(Db!Message) /\ PerBlock \in Nat
      BY <1>0, <2>1, Constants DEF Underway
    <3> QED BY <2>4, <3>1 DEF Done
  <2>6. ASSUME NEW k \in Height, NEW i \in 1 .. PerBlock, AlreadySent(k, i)
        PROVE  held[<<k, i>>] = cdc[k]
    <3>1. Read[<<k, i>>] = cdc[k]
      BY <2>3, <2>6
    <3>2. k = current => i # Done + 1
      BY <2>4, <2>6 DEF AlreadySent
    <3>3. Done + 1 \in 1 .. PerBlock
      BY <2>4, Constants
    <3>4. <<k, i>> \in Key /\ <<k, i>> # Head(pending).key
      BY <2>4, <3>2, <3>3, KeysDiffer
    <3>5. Db!Effect(held, Head(pending))[<<k, i>>] = held[<<k, i>>]
      <4>1. \A key \in Key : Db!Effect(held, Head(pending))[key]
              = IF key = Head(pending).key THEN Head(pending).after ELSE held[key]
        BY <1>a, EffectIs
      <4> QED BY <3>4, <4>1
    <3> QED BY <2>2, <3>1, <3>5
  <2>7. \A k \in Height, i \in 1 .. PerBlock :
           config.start < k /\ k <= current /\ (k = current => i <= Done + 1) /\ cdc[k] # NoBlock
             => held'[<<k, i>>] = cdc[k]
    BY <1>0, <1>a, <2>1, <2>2, <2>6, Delivers
  <2>8. Read' = held'
    BY <2>2 DEF Read
  <2> QED BY <2>1, <2>5, <2>7, <2>8 DEF AlreadySent
<1>7. CASE FileWrites
  <2>1. /\ status = "running" /\ pending # << >> /\ ~ undone
        /\ UNCHANGED <<current, config, cdc, pending, held, garbled>>
        /\ config.sink.type # "postgres"
        /\ torn' = (torn \/ tail # << >>)
        /\ tail' = IF torn \/ tail # << >> THEN << >> ELSE << Head(pending) >>
    BY <1>7 DEF FileWrites, Sending, sessionVars
  <2>2. ~ torn /\ tail = << >>
    BY <2>1, Zenon
  <2>3. Read = held /\ Read' = Db!Effect(held, Head(pending))
    <3>1. tail' = << Head(pending) >>
      BY <2>1, <2>2
    <3>2. Head(tail') = Head(pending) /\ tail' # << >>
      BY <3>1
    <3> QED BY <2>1, <2>2, <3>2 DEF Read, Db!Effect
  <2>4. \A k \in Height, i \in 1 .. PerBlock : AlreadySent(k, i) => held[<<k, i>>] = cdc[k]
    BY <1>0, <2>1, <2>2, <2>3 DEF Reached
  <2>5. \A k \in Height, i \in 1 .. PerBlock :
           config.start < k /\ k <= current /\ (k = current => i <= Done + 1) /\ cdc[k] # NoBlock
             => Db!Effect(held, Head(pending))[<<k, i>>] = cdc[k]
    BY <1>0, <1>a, <2>1, <2>4, Delivers
  <2>6. Done \in Nat
    BY <1>0, <2>1, HeadPending, Constants
  <2>7. Done' = Done
    BY <2>1 DEF Done
  <2>8. ASSUME NEW k \in Height, NEW i \in 1 .. PerBlock, AlreadySent(k, i)'
        PROVE  Read'[<<k, i>>] = cdc'[k]
    <3>1. /\ config.start < k /\ k <= current /\ (k = current => i <= Done + 1)
          /\ cdc[k] # NoBlock
      BY <2>1, <2>6, <2>7, <2>8 DEF AlreadySent
    <3> QED BY <2>1, <2>3, <2>5, <3>1
  <2> QED BY <2>8
<1>8. CASE PostgresBuffers \/ PostgresApplies
  BY <1>8 DEF PostgresBuffers, PostgresApplies, Sending, Ends, Fresh, sessionVars
<1>9. CASE MineBlock \/ SwitchBranch \/ Poll \/ UNCHANGED vars
  BY <1>1, <1>9 DEF MineBlock, SwitchBranch, Poll, vars, sessionVars, fileVars
<1>10. CASE StartRefused \/ StartFails \/ StartPanics
  BY <1>10 DEF StartRefused, StartFails, StartPanics, NoStart, Fresh
<1>11. CASE UndoFails \/ Shutdown \/ Fails \/ KafkaFails \/ FileFails \/ ConsoleFails
             \/ PostgresFails
  BY <1>11 DEF UndoFails, Shutdown, Fails, KafkaFails, FileFails, ConsoleFails,
               PostgresFails, Ends, Fresh
<1> QED
  BY <1>2, <1>3, <1>4, <1>5, <1>6, <1>7, <1>8, <1>9, <1>10, <1>11, <1>12
     DEF Next, SinkStep, NextBlock, ProcessBlock

-----------------------------------------------------------------------------
(***************************************************************************)
(* PostgreSQL: the facts of PostgresTableProofs about this database.  Its  *)
(* definitions are those of PostgresTables, under other names.             *)
(***************************************************************************)
P == INSTANCE PostgresTableProofs WITH
       Key <- Key, Value <- Branch, None <- NoBlock, TextKeys <- {}

\* -1 is the branch of no block, so it can stand for a row that is not there.
LEMMA NoBlockIsNone == NoBlock \notin Branch
<1>1. MaxReorgs \in Nat
  BY ServiceAssumption
<1> QED BY <1>1 DEF NoBlock, Branch

\* The types of the database are those the facts are about.
LEMMA SameTypes ==
  /\ P!Ids = Db!Ids /\ P!Record = Db!Record /\ P!Message = Db!Message
  BY DEF P!Ids, P!Record, P!Message, P!Operation, Db!Ids, Db!Record, Db!Message,
         Db!Operation

\* The batches are executed as the facts say.
LEMMA SameTransaction ==
  ASSUME NEW table, NEW ms
  PROVE  P!Transaction(table, ms) = Db!Transaction(table, ms)
  BY Zenon
     DEF P!Transaction, P!ExecuteAll, P!Execute, P!Insert, P!Update, P!Delete, P!Begin, P!Abort,
         P!StoredId, P!KeyId, Db!Transaction, Db!ExecuteAll, Db!Execute, Db!Insert, Db!Update,
         Db!Delete, Db!Begin, Db!Abort, Db!StoredId, Db!KeyId

DbRows == [Db!Ids -> Db!Record]

\* A batch leaves rows of records, and is refused or not.
LEMMA BatchType ==
  ASSUME NEW table \in DbRows, NEW ms \in Seq(Db!Message)
  PROVE  /\ Db!Transaction(table, ms).rows \in DbRows
         /\ Db!Transaction(table, ms).failed \in BOOLEAN
<1>1. table \in [P!Ids -> P!Record] /\ ms \in Seq(P!Message)
  BY SameTypes DEF DbRows
<1>2. P!Transaction(table, ms).rows \in [P!Ids -> P!Record]
      /\ P!Transaction(table, ms).failed \in BOOLEAN
  BY <1>1, NoBlockIsNone, P!TransactionType
<1> QED BY <1>2, SameTypes, SameTransaction DEF DbRows

\* A batch of no messages changes no row, and is not refused.
LEMMA BatchEmpty ==
  ASSUME NEW table \in DbRows
  PROVE  Db!Transaction(table, << >>) = [rows |-> table, failed |-> FALSE]
<1>1. table \in [P!Ids -> P!Record]
  BY SameTypes DEF DbRows
<1>2. P!Transaction(table, << >>) = P!Begin(table)
  BY <1>1, NoBlockIsNone, P!TransactionEmpty
<1> QED BY <1>2, SameTransaction DEF P!Begin

\* Messages behind messages that are accepted meet the rows these leave.
LEMMA BatchConcat ==
  ASSUME NEW table \in DbRows, NEW a \in Seq(Db!Message), NEW b \in Seq(Db!Message),
         ~ Db!Transaction(table, a).failed
  PROVE  /\ a \o b \in Seq(Db!Message)
         /\ Db!Transaction(table, a \o b)
              = Db!Transaction(Db!Transaction(table, a).rows, b)
<1>1. table \in [P!Ids -> P!Record] /\ a \in Seq(P!Message) /\ b \in Seq(P!Message)
  BY SameTypes DEF DbRows
<1>2. ~ P!Transaction(table, a).failed
  BY SameTransaction
<1>3. /\ a \o b \in Seq(P!Message)
      /\ P!Transaction(table, a \o b) = P!Transaction(P!Transaction(table, a).rows, b)
  BY <1>1, <1>2, NoBlockIsNone, P!TransactionConcat
<1> QED BY <1>3, SameTypes, SameTransaction

(***************************************************************************)
(* A block whose rows are absent is accepted, and no other row appears.    *)
(***************************************************************************)
LEMMA BatchOfBlock ==
  ASSUME NEW table \in DbRows, NEW k \in Height, NEW b \in Branch,
         \A i \in 1 .. PerBlock : table[Db!KeyId(<<k, i>>)] = NoBlock
  PROVE  /\ ~ Db!Transaction(table, Block(k, b)).failed
         /\ \A l \in Height, i \in 1 .. PerBlock :
              Db!Transaction(table, Block(k, b)).rows[Db!KeyId(<<l, i>>)] # NoBlock =>
                l = k \/ table[Db!KeyId(<<l, i>>)] # NoBlock
<1> DEFINE ms == Block(k, b)
<1>1. table \in [P!Ids -> P!Record] /\ ms \in Seq(P!Message)
  BY BlockMessages, SameTypes DEF DbRows
<1>2. Len(ms) = PerBlock /\ PerBlock \in Nat
  BY BlockIs, Constants
<1>3. ASSUME NEW i \in 1 .. Len(ms)
      PROVE  /\ ms[i].operation = "create" /\ ms[i].key = <<k, i>> /\ ms[i].after = b
             /\ ms[i].after # NoBlock
             /\ table[P!KeyId(ms[i].key)] = NoBlock
  <2>1. i \in 1 .. PerBlock
    BY <1>2
  <2>2. ms[i] = [operation |-> "create", key |-> <<k, i>>, before |-> NoBlock, after |-> b]
    BY <2>1 DEF Block
  <2>3. /\ ms[i].operation = "create" /\ ms[i].key = <<k, i>> /\ ms[i].after = b
        /\ ms[i].after # NoBlock
    BY <2>2, NoBlockIsNone
  <2>4. table[Db!KeyId(<<k, i>>)] = NoBlock
    BY <2>1
  <2> QED BY <2>3, <2>4 DEF P!KeyId, Db!KeyId
<1>4. ASSUME NEW i \in 1 .. Len(ms), NEW j \in 1 .. Len(ms), i # j
      PROVE  ms[i].key # ms[j].key
  <2>1. ms[i].key = <<k, i>> /\ ms[j].key = <<k, j>>
    BY <1>3
  <2> QED BY <1>4, <2>1
<1> HIDE DEF ms
<1>5. /\ ~ P!Transaction(table, ms).failed
      /\ \A id \in P!Ids : P!Transaction(table, ms).rows[id] # NoBlock =>
           table[id] # NoBlock \/ \E i \in 1 .. Len(ms) : id = P!KeyId(ms[i].key)
  BY <1>1, <1>3, <1>4, NoBlockIsNone, P!CreatesAccepted
<1>6. ASSUME NEW l \in Height, NEW i \in 1 .. PerBlock,
             Db!Transaction(table, ms).rows[Db!KeyId(<<l, i>>)] # NoBlock
      PROVE  l = k \/ table[Db!KeyId(<<l, i>>)] # NoBlock
  <2> DEFINE id == Db!KeyId(<<l, i>>)
  <2>1. id \in P!Ids /\ id = <<"plain", <<l, i>>>>
    BY KeysDiffer DEF Db!KeyId, P!Ids
  <2>2. P!Transaction(table, ms).rows[id] # NoBlock
    BY <1>6, SameTransaction
  <2>3. CASE \E j \in 1 .. Len(ms) : id = P!KeyId(ms[j].key)
    <3>1. PICK j \in 1 .. Len(ms) : id = <<"plain", ms[j].key>>
      BY <2>3 DEF P!KeyId
    <3>2. ms[j].key = <<k, j>>
      BY <1>3
    <3> QED BY <2>1, <3>1, <3>2
  <2> HIDE DEF id
  <2>4. CASE table[id] # NoBlock
    BY <2>4 DEF id
  <2> QED BY <1>5, <2>1, <2>2, <2>3, <2>4
<1> QED BY <1>5, <1>6, SameTransaction DEF ms

-----------------------------------------------------------------------------
(***************************************************************************)
(* What a reorg withdraws.                                                 *)
(***************************************************************************)

\* Taken back, a block is a Delete of each of its keys.
LEMMA BlockWithdrawn ==
  ASSUME NEW k \in Height, NEW b \in Branch \cup {NoBlock}
  PROVE  /\ Block(k, b) \in Seq(P!Message)
         /\ P!InverseMessages(Block(k, b)) \in Seq(P!Message)
         /\ Len(Block(k, b)) = PerBlock
         /\ \A i \in 1 .. PerBlock :
              P!InverseMessage(Block(k, b)[i])
                = [operation |-> "delete", key |-> <<k, i>>,
                   before |-> b, after |-> NoBlock]
<1> DEFINE m(i) == [operation |-> "create", key |-> <<k, i>>, before |-> NoBlock,
                    after |-> b]
           w(i) == [operation |-> "delete", key |-> <<k, i>>, before |-> b,
                    after |-> NoBlock]
<1>1. PerBlock \in Nat
  BY Constants
<1>2. ASSUME NEW i \in 1 .. PerBlock PROVE m(i) \in P!Message /\ w(i) \in P!Message
  BY KeysDiffer DEF P!Message, P!Record, P!Operation
<1>3. ASSUME NEW i \in 1 .. PerBlock PROVE P!InverseMessage(m(i)) = w(i)
  <2>1. P!Opposite("create") = "delete"
    BY DEF P!Opposite
  <2>2. m(i).operation = "create" /\ m(i).after = b /\ m(i).before = NoBlock
    OBVIOUS
  <2>3. P!InverseMessage(m(i))
          = [m(i) EXCEPT !.operation = "delete", !.before = b, !.after = NoBlock]
    BY <2>1, <2>2, Zenon DEF P!InverseMessage
  <2> QED BY <2>3
<1>4. Block(k, b) = [i \in 1 .. PerBlock |-> m(i)]
  BY DEF Block
<1> DEFINE ms == Block(k, b)
<1> HIDE DEF m
<1>5. /\ ms \in Seq(P!Message) /\ Len(ms) = PerBlock /\ DOMAIN ms = 1 .. PerBlock
      /\ \A i \in 1 .. PerBlock : ms[i] = m(i)
  <2> HIDE DEF ms
  <2>1. ms = [i \in 1 .. PerBlock |-> m(i)]
    BY <1>4 DEF ms
  <2>2. \A i \in 1 .. PerBlock : m(i) \in P!Message
    BY <1>2
  <2> QED BY <1>1, <2>1, <2>2
<1> HIDE DEF ms, w
<1>6. P!InverseMessages(ms) \in Seq(P!Message)
  <2>1. P!InverseMessages(ms) = [i \in 1 .. PerBlock |-> w(PerBlock + 1 - i)]
    <3>1. ASSUME NEW i \in 1 .. PerBlock
          PROVE  P!InverseMessage(ms[PerBlock + 1 - i]) = w(PerBlock + 1 - i)
      <4>1. PerBlock + 1 - i \in 1 .. PerBlock
        BY <1>1
      <4>2. ms[PerBlock + 1 - i] = m(PerBlock + 1 - i)
        BY <1>5, <4>1
      <4> QED BY <1>3, <4>1, <4>2
    <3>2. P!InverseMessages(ms)
            = [i \in 1 .. PerBlock |-> P!InverseMessage(ms[PerBlock + 1 - i])]
      BY <1>5 DEF P!InverseMessages
    <3> QED BY <3>1, <3>2
  <2>2. \A i \in 1 .. PerBlock : PerBlock + 1 - i \in 1 .. PerBlock
    BY <1>1
  <2>3. \A i \in 1 .. PerBlock : w(PerBlock + 1 - i) \in P!Message
    BY <1>2, <2>2
  <2> QED BY <1>1, <2>1, <2>3
<1>7. \A i \in 1 .. PerBlock : P!InverseMessage(ms[i]) = w(i)
  BY <1>3, <1>5
<1> QED BY <1>5, <1>6, <1>7 DEF ms, w

\* All it withdraws are Deletes, and every key above the common height is among
\* them: no row is left there, whatever was there before.
LEMMA BatchOfInverse ==
  ASSUME NEW table \in DbRows, NEW c \in [Height -> Branch \cup {NoBlock}],
         NEW a \in Nat, NEW top \in Height, a <= top
  PROVE  LET ms == Db!InverseBlocks([k \in Height |-> Block(k, c[k])], a, top) IN
         /\ ms \in Seq(Db!Message)
         /\ ~ Db!Transaction(table, ms).failed
         /\ \A l \in Height, i \in 1 .. PerBlock :
              Db!Transaction(table, ms).rows[Db!KeyId(<<l, i>>)] # NoBlock =>
                table[Db!KeyId(<<l, i>>)] # NoBlock /\ ~ (a < l /\ l <= top)
<1> DEFINE blocks == [k \in Height |-> Block(k, c[k])]
           ms == Db!InverseBlocks(blocks, a, top)
<1>1. top \in Nat /\ MaxHeight \in Nat /\ top <= MaxHeight
  BY Constants DEF Height
<1>2. ms = P!InverseBlocks(blocks, a, top)
  BY Zenon DEF P!InverseBlocks, P!InverseMessages, P!InverseMessage, P!Opposite,
               Db!InverseBlocks, Db!InverseMessages, Db!InverseMessage, Db!Opposite
<1>3. ASSUME NEW k \in a + 1 .. top
      PROVE  /\ k \in Height
             /\ blocks[k] \in Seq(P!Message)
             /\ P!InverseMessages(blocks[k]) \in Seq(P!Message)
             /\ Len(blocks[k]) = PerBlock
             /\ \A i \in 1 .. PerBlock :
                  /\ P!InverseMessage(blocks[k][i]).operation = "delete"
                  /\ P!InverseMessage(blocks[k][i]).key = <<k, i>>
  <2>1. k \in Height /\ blocks[k] = Block(k, c[k]) /\ c[k] \in Branch \cup {NoBlock}
    BY <1>1 DEF Height
  <2> HIDE DEF blocks
  <2>2. /\ Block(k, c[k]) \in Seq(P!Message)
        /\ P!InverseMessages(Block(k, c[k])) \in Seq(P!Message)
        /\ Len(Block(k, c[k])) = PerBlock
        /\ \A i \in 1 .. PerBlock :
             P!InverseMessage(Block(k, c[k])[i])
               = [operation |-> "delete", key |-> <<k, i>>,
                  before |-> c[k], after |-> NoBlock]
    BY <2>1, BlockWithdrawn, Zenon
  <2>3. /\ blocks[k] \in Seq(P!Message)
        /\ P!InverseMessages(blocks[k]) \in Seq(P!Message)
        /\ Len(blocks[k]) = PerBlock
        /\ \A i \in 1 .. PerBlock :
             P!InverseMessage(blocks[k][i])
               = [operation |-> "delete", key |-> <<k, i>>,
                  before |-> c[k], after |-> NoBlock]
    BY <2>1, <2>2, Zenon
  <2> QED BY <2>1, <2>3
<1> HIDE DEF blocks
<1>4. /\ ms \in Seq(P!Message)
      /\ \A i \in 1 .. Len(ms) :
           \E k \in a + 1 .. top : \E j \in 1 .. Len(blocks[k]) :
             ms[i] = P!InverseMessage(blocks[k][j])
      /\ \A k \in a + 1 .. top : \A j \in 1 .. Len(blocks[k]) :
           \E i \in 1 .. Len(ms) : ms[i] = P!InverseMessage(blocks[k][j])
  <2>1. P!Withdrawable(blocks, a, top)
    BY <1>3 DEF P!Withdrawable
  <2>2. P!Withdraws(P!InverseBlocks(blocks, a, top), blocks, a, top)
    BY <1>1, <2>1, NoBlockIsNone, P!InverseBlocksElements
  <2> QED BY <1>2, <2>2 DEF P!Withdraws
<1> HIDE DEF ms
<1>5. ASSUME NEW i \in 1 .. Len(ms) PROVE ms[i].operation = "delete"
  <2>1. PICK k \in a + 1 .. top : \E j \in 1 .. Len(blocks[k]) :
          ms[i] = P!InverseMessage(blocks[k][j])
    BY <1>4
  <2> QED BY <1>3, <2>1
<1>6. /\ ~ P!Transaction(table, ms).failed
      /\ \A id \in P!Ids : P!Transaction(table, ms).rows[id] # NoBlock =>
           table[id] # NoBlock /\ \A i \in 1 .. Len(ms) : id # P!KeyId(ms[i].key)
  <2>1. table \in [P!Ids -> P!Record]
    BY SameTypes DEF DbRows
  <2> QED BY <1>4, <1>5, <2>1, NoBlockIsNone, P!DeletesAccepted
<1>7. ASSUME NEW l \in Height, NEW i \in 1 .. PerBlock,
             Db!Transaction(table, ms).rows[Db!KeyId(<<l, i>>)] # NoBlock
      PROVE  table[Db!KeyId(<<l, i>>)] # NoBlock /\ ~ (a < l /\ l <= top)
  <2> DEFINE id == Db!KeyId(<<l, i>>)
  <2>1. id \in P!Ids /\ id = P!KeyId(<<l, i>>)
    BY KeysDiffer DEF Db!KeyId, P!KeyId, P!Ids
  <2> HIDE DEF id
  <2>2. P!Transaction(table, ms).rows[id] # NoBlock
    BY <1>7, SameTransaction DEF id
  <2>3. table[id] # NoBlock /\ \A j \in 1 .. Len(ms) : id # P!KeyId(ms[j].key)
    BY <1>6, <2>1, <2>2
  <2>4. ASSUME a < l, l <= top PROVE FALSE
    <3>1. l \in a + 1 .. top
      BY <1>1, <2>4 DEF Height
    <3>2. PICK j \in 1 .. Len(ms) : ms[j] = P!InverseMessage(blocks[l][i])
      BY <1>3, <1>4, <3>1
    <3>3. ms[j].key = <<l, i>>
      BY <1>3, <3>1, <3>2
    <3> QED BY <2>1, <2>3, <3>3
  <2> QED BY <2>3, <2>4 DEF id
<1>8. ms \in Seq(Db!Message) /\ ~ Db!Transaction(table, ms).failed
  BY <1>4, <1>6, SameTypes, SameTransaction
<1>9. \A l \in Height, i \in 1 .. PerBlock :
        Db!Transaction(table, ms).rows[Db!KeyId(<<l, i>>)] # NoBlock =>
          table[Db!KeyId(<<l, i>>)] # NoBlock /\ ~ (a < l /\ l <= top)
  BY <1>7
<1> QED BY <1>8, <1>9 DEF ms, blocks

-----------------------------------------------------------------------------
(***************************************************************************)
(* Types.                                                                  *)
(***************************************************************************)

\* A set of numbers up to n that is not empty has a greatest.
LEMMA MaxIs ==
  ASSUME NEW n \in Nat, NEW S, S \subseteq 0 .. n, S # {}
  PROVE  Max(S) \in S /\ \A x \in S : x <= Max(S)
<1> DEFINE T == {i \in 0 .. n : \E x \in S : i <= x}
<1>1. SUFFICES ASSUME ~ \E m \in S : \A x \in S : m >= x PROVE FALSE
  <2>1. \E m \in S : \A x \in S : m >= x
    BY <1>1
  <2>2. Max(S) \in S /\ \A x \in S : Max(S) >= x
    BY <2>1, Zenon DEF Max
  <2>3. \A x \in S : x <= Max(S)
    <3> DEFINE m == Max(S)
    <3>0. m \in S /\ \A x \in S : m >= x
      BY <2>2
    <3> HIDE DEF m
    <3>1. m \in Nat
      BY <3>0
    <3>2. \A x \in S : x \in Nat /\ m >= x
      BY <3>0
    <3>3. \A x \in S : x <= m
      BY <3>1, <3>2
    <3> QED BY <3>3 DEF m
  <2> QED BY <2>2, <2>3, Zenon
<1>2. 0 \in T
  <2>1. PICK x : x \in S
    BY Zenon
  <2>2. 0 \in 0 .. n /\ 0 <= x
    <3> HIDE DEF T
    <3>1. x \in 0 .. n
      BY <2>1
    <3> QED BY <3>1
  <2> QED BY <2>1, <2>2
<1>3. ASSUME NEW i \in 0 .. n - 1, i \in T PROVE i + 1 \in T
  <2>1. PICK x \in S : i <= x
    BY <1>3
  <2>2. PICK y \in S : ~ (x >= y)
    BY <1>1
  <2> QED BY <2>1, <2>2
<1>4. n \in T
  <2> HIDE DEF T
  <2>1. 0 .. n \subseteq T
    BY <1>2, <1>3, NoBlockIsNone, P!SetInduction
  <2> QED BY <2>1
<1>5. PICK m \in S : n <= m
  BY <1>4
<1> QED BY <1>1, <1>5

(***************************************************************************)
(* What a reorg leaves: a common height a below the current one, the block *)
(* cache up to it, and the heights above it, in order, to be done again.   *)
(***************************************************************************)
LEMMA UndoIs ==
  ASSUME TypeOK, Undo
  PROVE  \E a \in Height :
           /\ current \in Height /\ a < current
           /\ cached' = {k \in cached : k <= a}
           /\ redo' \in Seq(Height)
           /\ \A i \in DOMAIN redo' : redo'[i] = a + i /\ redo'[i] < current
           /\ redo' # << >> => Head(redo') = a + 1
           /\ Hand(InverseRange(a))
<1>1. PICK n \in ReorgHeights :
        /\ Common(n) # {}
        /\ cached' = {k \in cached : k <= Max(Common(n))}
        /\ redo' = [i \in 1 .. n - Max(Common(n)) |-> Max(Common(n)) + i]
        /\ Hand(InverseRange(Max(Common(n))))
  BY DEF Undo, UndoTo
<1>2. current \in Height /\ cached \subseteq Height /\ MaxHeight \in Nat
  BY Constants DEF Undo, ReorgFound, TypeOK
<1>3. n \in Nat /\ n < current
  BY <1>1, <1>2 DEF ReorgHeights, Height
<1> DEFINE a == Max(Common(n))
<1>4. a \in cached /\ a <= n
  <2>1. Common(n) \subseteq 0 .. n
    <3>1. ASSUME NEW x \in Common(n) PROVE x \in 0 .. n
      <4>1. x \in 1 .. MaxHeight /\ x <= n
        BY <1>2, <3>1 DEF Common, Height
      <4> QED BY <1>3, <4>1
    <3> QED BY <3>1
  <2>2. a \in Common(n)
    BY <1>1, <1>3, <2>1, MaxIs
  <2> QED BY <2>2 DEF Common
<1> HIDE DEF a
<1>5. a \in Height /\ a \in Nat /\ current \in Nat /\ current <= MaxHeight
  BY <1>2, <1>4 DEF Height
<1>6. redo' = [i \in 1 .. n - a |-> a + i]
  BY <1>1 DEF a
<1>7. \A i \in 1 .. n - a : a + i \in Height /\ a + i < current
  BY <1>2, <1>3, <1>4, <1>5 DEF Height
<1>8. n - a \in Nat
  BY <1>3, <1>4, <1>5
<1>9. redo' \in Seq(Height)
  BY <1>6, <1>7, <1>8
<1>10. \A i \in DOMAIN redo' : redo'[i] = a + i /\ redo'[i] < current
  BY <1>6, <1>7
<1>11. redo' # << >> => Head(redo') = a + 1
  <2>1. ASSUME redo' # << >> PROVE Head(redo') = redo'[1] /\ 1 \in DOMAIN redo'
    BY <1>9, <2>1
  <2> QED BY <1>10, <2>1
<1>12. a < current
  BY <1>3, <1>4, <1>5
<1>13. cached' = {k \in cached : k <= a} /\ Hand(InverseRange(a))
  BY <1>1 DEF a
<1> QED BY <1>2, <1>5, <1>9, <1>10, <1>11, <1>12, <1>13

\* The counters stay within their bounds, and every end of a session has a name.
CountersOK ==
  /\ faults \in 0 .. MaxFaults /\ starts \in 0 .. MaxStarts
  /\ status \in Statuses

\* Every step keeps the counters within their bounds.
LEMMA CountersStep == IInv /\ [Next]_vars => CountersOK'
<1>. SUFFICES ASSUME IInv, [Next]_vars PROVE CountersOK'
  OBVIOUS
<1>1. MaxFaults \in Nat /\ MaxStarts \in Nat
  BY ServiceAssumption
<1>2. CountersOK
  BY DEF IInv, TypeOK, CountersOK
<1>3. faults' = faults \/ (faults < MaxFaults /\ faults' = faults + 1)
  BY DEF Next, SinkStep, vars, MineBlock, SwitchBranch, Poll, StartRefused, StartFails, StartPanics, Start,
         NextBlock, RedoBlock, Undo, ProcessBlock, Transformed, PassedOver,
         UndoTo, ReorgFound, Hand, UndoFails, Shutdown, Fails,
         KafkaAnswers, FileWrites, FileEndsLine, ConsolePrints, PostgresBuffers,
         PostgresApplies, Sent, KafkaFails, FileFails, ConsoleFails, PostgresFails,
         TransientFault
<1>4. starts' = starts \/ (starts < MaxStarts /\ starts' = starts + 1)
  BY DEF Next, SinkStep, vars, MineBlock, SwitchBranch, Poll, StartRefused, StartFails, StartPanics, Start,
         Launch, NextBlock, RedoBlock, Undo, ProcessBlock, Transformed, PassedOver,
         UndoTo, ReorgFound, Hand, UndoFails, Shutdown,
         Fails, KafkaAnswers, FileWrites, FileEndsLine, ConsolePrints, PostgresBuffers,
         PostgresApplies, Sent, KafkaFails, FileFails, ConsoleFails, PostgresFails, Ends, Fresh
<1>5. status' = status \/ status' \in Statuses
  BY DEF Next, SinkStep, vars, MineBlock, SwitchBranch, Poll, StartRefused, StartFails, StartPanics, Start,
         NoStart, Fresh, NewSession, NextBlock, RedoBlock, Undo, ProcessBlock, Transformed, PassedOver,
         UndoTo, ReorgFound, Hand, UndoFails,
         Shutdown, Fails, KafkaAnswers, FileWrites, FileEndsLine, ConsolePrints,
         PostgresBuffers, PostgresApplies, Sent, KafkaFails, FileFails, ConsoleFails,
         PostgresFails, Ends, Fresh, Statuses
<1>6. faults' \in 0 .. MaxFaults /\ starts' \in 0 .. MaxStarts
  BY <1>1, <1>2, <1>3, <1>4 DEF CountersOK
<1>7. status' \in Statuses
  BY <1>2, <1>5 DEF CountersOK
<1> QED BY <1>6, <1>7 DEF CountersOK

\* What a session knows of the chain: heights, and branches by height.
KnowledgeOK ==
  /\ current \in Nat /\ left \in Nat
  /\ cdc \in [Height -> Branch \cup {NoBlock}]
  /\ cached \subseteq Height /\ \A k \in cached : cdc[k] # NoBlock
  /\ redo \in Seq(Height)
  /\ undone \in BOOLEAN

\* A block that is processed is one of the chain, and in the cache.
LEMMA ProcessBlockTypes ==
  ASSUME TypeOK, NEW k, k \in Nat, k > 0, Transformed(k)
  PROVE  /\ k \in Height
         /\ chain[k] \in Branch
         /\ cdc' \in [Height -> Branch \cup {NoBlock}]
         /\ cached' \subseteq Height /\ \A l \in cached' : cdc'[l] # NoBlock
         /\ pending' \in Seq(Db!Message)
<1>1. /\ chain \in Seq(Branch) /\ Tip <= MaxHeight /\ Tip = Len(chain) /\ MaxHeight \in Nat
      /\ cdc \in [Height -> Branch \cup {NoBlock}]
      /\ cached \subseteq Height /\ \A l \in cached : cdc[l] # NoBlock
  BY Constants DEF TypeOK, Tip
<1>2. k \in Height /\ k \in 1 .. Len(chain)
  BY <1>1 DEF Height, Transformed
<1>3. chain[k] \in Branch
  BY <1>1, <1>2
<1>4. cdc' = [cdc EXCEPT ![k] = chain[k]] /\ cached' = cached \cup {k}
  BY DEF Transformed
<1>5. cdc' \in [Height -> Branch \cup {NoBlock}]
  BY <1>1, <1>3, <1>4
<1>6. ASSUME NEW l \in cached' PROVE cdc'[l] # NoBlock
  BY <1>1, <1>2, <1>3, <1>4, <1>6, NoBlockIsNone
<1>7. pending' \in Seq(Db!Message)
  <2>1. pending' = << >> \/ pending' = Block(k, chain[k])
    BY DEF Transformed, Hand
  <2>2. Block(k, chain[k]) \in Seq(Db!Message)
    BY <1>2, <1>3, BlockMessages
  <2>3. << >> \in Seq(Db!Message)
    OBVIOUS
  <2> QED BY <2>1, <2>2, <2>3, Zenon
<1> QED BY <1>1, <1>2, <1>3, <1>4, <1>5, <1>6, <1>7

\* Every step keeps what the session knows within the heights and branches.
LEMMA KnowledgeStep == IInv /\ [Next]_vars => KnowledgeOK'
<1>. SUFFICES ASSUME IInv, [Next]_vars PROVE KnowledgeOK'
  OBVIOUS
<1>0. TypeOK /\ KnowledgeOK
  BY DEF IInv, TypeOK, KnowledgeOK
<1>1. CASE UNCHANGED <<current, left, cdc, cached, redo, undone>>
  BY <1>0, <1>1 DEF KnowledgeOK
<1>10. ASSUME NEW n \in Nat, Fresh(n) PROVE KnowledgeOK'
  BY <1>10, FreshIs DEF KnowledgeOK
<1>2. CASE Start
  <2>1. PICK args \in Launches : \E c \in Loaded(args) : NewSession(c)
    BY <1>2 DEF Start
  <2>2. PICK c \in Config : NewSession(c)
    BY <2>1, Constants
  <2> QED BY <1>10, <2>2 DEF NewSession, Config
<1>3. CASE NextBlock
  <2>1. PICK k : k = current + 1
    OBVIOUS
  <2>2. /\ k \in Nat /\ k > 0 /\ ProcessBlock(k) /\ current' = k /\ left' \in Nat
        /\ UNCHANGED <<redo, undone>>
    <3>1. current \in Nat
      BY <1>0 DEF TypeOK
    <3> QED BY <1>0, <1>3, <2>1, <3>1, LeftIs DEF NextBlock
  <2>3. CASE Transformed(k)
    BY <1>0, <2>2, <2>3, ProcessBlockTypes DEF KnowledgeOK
  <2>4. CASE PassedOver(k)
    BY <1>0, <2>2, <2>4 DEF KnowledgeOK, PassedOver
  <2> QED BY <2>2, <2>3, <2>4 DEF ProcessBlock
<1>4. CASE RedoBlock
  <2>1. /\ redo \in Seq(Height) /\ redo # << >> /\ redo' = Tail(redo)
        /\ UNCHANGED <<current, left, undone>>
    BY <1>0, <1>4 DEF RedoBlock, KnowledgeOK
  <2>2. redo' \in Seq(Height) /\ Head(redo) \in Height
    BY <2>1
  <2>3. PICK k : k = Head(redo)
    OBVIOUS
  <2>4. k \in Nat /\ k > 0 /\ ProcessBlock(k)
    BY <1>4, <2>2, <2>3, Constants DEF Height, RedoBlock
  <2>5. CASE Transformed(k)
    BY <1>0, <2>1, <2>2, <2>4, <2>5, ProcessBlockTypes DEF KnowledgeOK
  <2>6. CASE PassedOver(k)
    BY <1>0, <2>1, <2>2, <2>6 DEF KnowledgeOK, PassedOver
  <2> QED BY <2>4, <2>5, <2>6 DEF ProcessBlock
<1>5. CASE Undo
  <2>1. undone' = TRUE /\ UNCHANGED <<current, left, cdc>>
    BY <1>5 DEF Undo, UndoTo
  <2>2. PICK a \in Height : cached' = {k \in cached : k <= a} /\ redo' \in Seq(Height)
    BY <1>0, <1>5, UndoIs
  <2> QED BY <1>0, <2>1, <2>2 DEF KnowledgeOK
<1>6. CASE StartRefused \/ StartFails \/ StartPanics
  BY <1>10, <1>6 DEF StartRefused, StartFails, StartPanics, NoStart
<1>7. CASE MineBlock \/ SwitchBranch \/ UNCHANGED vars
  BY <1>1, <1>7 DEF MineBlock, SwitchBranch, vars, sessionVars
<1>11. CASE Poll
  BY <1>0, <1>11, LeftIs DEF Poll, KnowledgeOK
<1>8. CASE UndoFails \/ Shutdown \/ Fails \/ KafkaFails \/ FileFails \/ ConsoleFails
             \/ PostgresFails
  BY <1>10, <1>8 DEF UndoFails, Shutdown, Fails, KafkaFails, FileFails, ConsoleFails,
                     PostgresFails, Ends
<1>9. CASE SinkStep
  <2>1. UNCHANGED <<current, left, cdc, cached, redo, undone>> \/ Fresh(0)
    BY <1>9 DEF SinkStep, KafkaAnswers, FileWrites, FileEndsLine, ConsolePrints,
                PostgresBuffers, PostgresApplies, Sent, Ends, sessionVars
  <2> QED BY <1>1, <1>10, <2>1
<1> QED
  BY <1>2, <1>3, <1>4, <1>5, <1>6, <1>7, <1>8, <1>9, <1>11 DEF Next

(***************************************************************************)
(* What is on its way to the sink, and what has arrived.                   *)
(***************************************************************************)
OnItsWay ==
  /\ pending \in Seq(Db!Message) /\ buffer \in Seq(Db!Message)
  /\ status # "running" => pending = << >> /\ buffer = << >> /\ ~ half

Arrived ==
  /\ rows \in DbRows
  /\ held \in Db!Table
  /\ tail \in {<< >>} \cup {<< m >> : m \in Db!Message} /\ (torn => tail = << >>)

\* Every step hands on messages only, and nothing once the session has ended.
LEMMA OnItsWayStep == IInv /\ [Next]_vars => OnItsWay'
<1>. SUFFICES ASSUME IInv, [Next]_vars PROVE OnItsWay'
  OBVIOUS
<1>0. TypeOK /\ OnItsWay
  BY DEF IInv, TypeOK, OnItsWay
<1>1. CASE pending' = << >> /\ buffer' = << >> /\ ~ half'
  BY <1>1 DEF OnItsWay
<1>2. CASE UNCHANGED <<status, pending, buffer, half>>
  BY <1>0, <1>2 DEF OnItsWay
<1>3. CASE StartRefused \/ StartFails \/ StartPanics \/ Start
  BY <1>1, <1>3 DEF StartRefused, StartFails, StartPanics, Start, NoStart, Fresh, NewSession
<1>4. CASE UndoFails \/ Shutdown \/ Fails \/ KafkaFails \/ FileFails \/ ConsoleFails
             \/ PostgresFails
  BY <1>1, <1>4 DEF UndoFails, Shutdown, Fails, KafkaFails, FileFails, ConsoleFails,
                    PostgresFails, Ends, Fresh
<1>5. CASE MineBlock \/ SwitchBranch \/ Poll \/ UNCHANGED vars
  BY <1>2, <1>5 DEF MineBlock, SwitchBranch, Poll, vars, fileVars, postgresVars
<1>6. CASE NextBlock \/ RedoBlock \/ Undo
  <2>1. SessionOK /\ KafkaNeverPanics' /\ status = "running"
        /\ UNCHANGED <<config, buffer, half>>
    BY <1>6, PanicStep
       DEF IInv, NextBlock, RedoBlock, Undo, ProcessBlock, Transformed, PassedOver,
         UndoTo, ReorgFound, Hand, Idle, fileVars, postgresVars
  <2>2. pending' \in Seq(Db!Message)
    <3>1. CASE NextBlock
      <4>1. PICK k : k = current + 1
        OBVIOUS
      <4>2. k \in Nat /\ k > 0 /\ ProcessBlock(k)
        <5>1. current \in Nat
          BY <1>0 DEF TypeOK
        <5> QED BY <3>1, <4>1, <5>1 DEF NextBlock
      <4>3. CASE Transformed(k)
        BY <1>0, <4>2, <4>3, ProcessBlockTypes
      <4>4. CASE PassedOver(k)
        BY <1>0, <4>4 DEF PassedOver, OnItsWay
      <4> QED BY <4>2, <4>3, <4>4 DEF ProcessBlock
    <3>2. CASE RedoBlock
      <4>1. redo \in Seq(Height) /\ redo # << >>
        BY <1>0, <3>2 DEF RedoBlock, TypeOK
      <4>2. Head(redo) \in Height
        BY <4>1
      <4>3. PICK k : k = Head(redo)
        OBVIOUS
      <4>4. k \in Nat /\ k > 0 /\ ProcessBlock(k)
        BY <3>2, <4>2, <4>3, Constants DEF Height, RedoBlock
      <4>5. CASE Transformed(k)
        BY <1>0, <4>4, <4>5, ProcessBlockTypes
      <4>6. CASE PassedOver(k)
        BY <1>0, <4>6 DEF PassedOver, OnItsWay
      <4> QED BY <4>4, <4>5, <4>6 DEF ProcessBlock
    <3>3. CASE Undo
      <4>1. PICK a \in Height : current \in Height /\ a < current /\ Hand(InverseRange(a))
        BY <1>0, <3>3, UndoIs
      <4>2. a \in Nat /\ current \in Nat /\ a <= current
        BY <4>1, Constants DEF Height
      <4>3. InverseRange(a) \in Seq(Db!Message)
        <5>1. rows \in DbRows /\ cdc \in [Height -> Branch \cup {NoBlock}]
          BY <1>0 DEF TypeOK, DbRows
        <5> QED BY <4>1, <4>2, <5>1, BatchOfInverse DEF InverseRange
      <4>4. pending' = << >> \/ pending' = InverseRange(a)
        BY <4>1 DEF Hand
      <4>5. << >> \in Seq(Db!Message)
        OBVIOUS
      <4> HIDE DEF InverseRange
      <4> QED BY <4>3, <4>4, <4>5, Zenon
    <3> QED BY <1>6, <3>1, <3>2, <3>3
  <2>3. status' = "running"
    <3>1. status' = status \/ (status' = "panicked" /\ config.sink.type = "kafka")
      BY <1>6 DEF NextBlock, RedoBlock, Undo, ProcessBlock, Transformed, PassedOver,
         UndoTo, ReorgFound, Hand
    <3>2. status' = "panicked" => config'.sink.type # "kafka"
      BY <2>1 DEF KafkaNeverPanics
    <3> QED BY <2>1, <3>1, <3>2
  <2> QED BY <1>0, <2>1, <2>2, <2>3 DEF OnItsWay
<1>7. CASE KafkaAnswers \/ ConsolePrints \/ FileEndsLine
  <2>1. /\ pending # << >> /\ pending' = Tail(pending) /\ status = "running"
        /\ UNCHANGED <<buffer, status>>
    BY <1>7 DEF KafkaAnswers, ConsolePrints, FileEndsLine, Sending, Sent, postgresVars
  <2>2. pending \in Seq(Db!Message)
    BY <1>0 DEF OnItsWay
  <2>3. pending' \in Seq(Db!Message)
    BY <2>1, <2>2
  <2> QED BY <1>0, <2>1, <2>3 DEF OnItsWay
<1>8. CASE FileWrites
  <2>1. status' = "running" /\ UNCHANGED <<pending, buffer>>
    BY <1>8 DEF FileWrites, Sending, postgresVars
  <2> QED BY <1>0, <2>1 DEF OnItsWay
<1>9. CASE PostgresBuffers
  <2>1. /\ status' = "running" /\ pending' = << >> /\ buffer' = buffer \o pending
    BY <1>9 DEF PostgresBuffers, Sending
  <2>2. buffer' \in Seq(Db!Message)
    BY <1>0, <2>1 DEF OnItsWay
  <2> QED BY <2>1, <2>2 DEF OnItsWay
<1>10. CASE PostgresApplies
  <2>1. pending' = << >> /\ buffer' = << >>
    BY <1>10 DEF PostgresApplies, Ends, Fresh
  <2>2. status' = "running" \/ ~ half'
    BY <1>10 DEF PostgresApplies, Ends, Fresh, Sending
  <2> QED BY <2>1, <2>2 DEF OnItsWay
<1> QED
  BY <1>3, <1>4, <1>5, <1>6, <1>7, <1>8, <1>9, <1>10 DEF Next, SinkStep

\* A message that is applied leaves a table.
LEMMA EffectType ==
  ASSUME NEW table \in Db!Table, NEW m \in Db!Message
  PROVE  Db!Effect(table, m) \in Db!Table
  BY DEF Db!Effect, Db!Table, Db!Message

\* Every step leaves rows, records and a last line of records.
LEMMA ArrivedStep == IInv /\ [Next]_vars => Arrived'
<1>. SUFFICES ASSUME IInv, [Next]_vars PROVE Arrived'
  OBVIOUS
<1>0. TypeOK /\ Arrived /\ SessionOK
  BY DEF IInv, TypeOK, Arrived, DbRows
<1>1. ASSUME UNCHANGED rows PROVE rows' \in DbRows
  BY <1>0, <1>1 DEF Arrived
<1>2. ASSUME UNCHANGED <<tail, torn>>
      PROVE  tail' \in {<< >>} \cup {<< m >> : m \in Db!Message} /\ (torn' => tail' = << >>)
  BY <1>0, <1>2 DEF Arrived
<1>3. pending # << >> => Head(pending) \in Db!Message
  BY <1>0 DEF TypeOK
<1>4. Db!EmptyTable \in Db!Table
  BY DEF Db!EmptyTable, Db!Table, Db!Record
<1>5. CASE UNCHANGED Delivered
  BY <1>0, <1>5 DEF Delivered, Arrived
<1>6. CASE Start
  <2>1. rows' = rows
        /\ (UNCHANGED <<held, tail, torn>>
            \/ (held' = Db!EmptyTable /\ tail' = << >> /\ torn' = FALSE))
    BY <1>6 DEF Start, Truncated
  <2>2. CASE UNCHANGED <<held, tail, torn>>
    BY <1>0, <1>1, <1>2, <2>1, <2>2 DEF Arrived
  <2>3. CASE held' = Db!EmptyTable /\ tail' = << >> /\ torn' = FALSE
    BY <1>1, <1>4, <2>1, <2>3 DEF Arrived
  <2> QED BY <2>1, <2>2, <2>3
<1>7. CASE KafkaAnswers \/ ConsolePrints \/ KafkaFails \/ Shutdown
  <2>1. /\ UNCHANGED <<rows, tail, torn>>
        /\ held' = held \/ (pending # << >> /\ held' = Db!Effect(held, Head(pending)))
    BY <1>7 DEF KafkaAnswers, ConsolePrints, KafkaFails, Shutdown, Sending, fileVars,
                postgresVars
  <2>2. held' \in Db!Table
    BY <1>0, <1>3, <2>1, EffectType DEF Arrived
  <2> QED BY <1>1, <1>2, <2>1, <2>2 DEF Arrived
<1>8. CASE FileWrites
  <2>1. /\ pending # << >> /\ UNCHANGED <<rows, held>>
        /\ torn' = (torn \/ tail # << >>)
        /\ tail' = IF torn \/ tail # << >> THEN << >> ELSE << Head(pending) >>
    BY <1>8 DEF FileWrites, Sending, postgresVars
  <2>2. torn' => tail' = << >>
    BY <2>1
  <2>3. tail' = << >> \/ tail' = << Head(pending) >>
    BY <2>1
  <2>4. tail' \in {<< >>} \cup {<< m >> : m \in Db!Message}
    BY <1>3, <2>1, <2>3
  <2> QED BY <1>0, <2>1, <2>2, <2>4 DEF Arrived
<1>9. CASE FileEndsLine
  <2>1. /\ half /\ tail' = << >> /\ torn' = FALSE /\ rows' = rows
        /\ held' = IF torn THEN held ELSE Db!Effect(held, Head(tail))
    BY <1>9 DEF FileEndsLine, postgresVars
  <2>2. ~ torn => tail = << Head(pending) >> /\ pending # << >>
    BY <1>0, <2>1 DEF SessionOK
  <2>3. ~ torn => Head(tail) \in Db!Message
    <3>1. ASSUME ~ torn PROVE Head(tail) = Head(pending) /\ pending # << >>
      BY <2>2, <3>1
    <3> QED BY <1>3, <3>1
  <2>4. held' \in Db!Table
    BY <1>0, <2>1, <2>3, EffectType DEF Arrived
  <2> QED BY <1>1, <2>1, <2>4 DEF Arrived
<1>10. CASE FileFails
  <2>1. /\ UNCHANGED <<rows, held>>
        /\ UNCHANGED <<tail, torn>> \/ (torn' = TRUE /\ tail' = << >>)
    BY <1>10 DEF FileFails
  <2>2. CASE UNCHANGED <<tail, torn>>
    BY <1>0, <1>1, <1>2, <2>1, <2>2 DEF Arrived
  <2>3. CASE torn' = TRUE /\ tail' = << >>
    BY <1>0, <1>1, <2>1, <2>3 DEF Arrived
  <2> QED BY <2>1, <2>2, <2>3
<1>11. CASE PostgresApplies \/ PostgresFails
  <2>1. /\ UNCHANGED <<held, tail, torn>>
        /\ rows' = rows \/ rows' = Batch.rows
    BY <1>11 DEF PostgresApplies, PostgresFails, Ends, Fresh
  <2>2. rows \in DbRows /\ buffer \o pending \in Seq(Db!Message)
    BY <1>0 DEF TypeOK, DbRows
  <2>3. Batch.rows \in DbRows
    BY <2>2, BatchType DEF Batch
  <2> QED BY <1>0, <2>1, <2>3 DEF Arrived
<1>12. CASE \/ MineBlock \/ SwitchBranch \/ Poll \/ UNCHANGED vars \/ NextBlock \/ RedoBlock \/ Undo
            \/ PostgresBuffers \/ StartRefused \/ StartFails \/ StartPanics \/ UndoFails \/ Fails
            \/ ConsoleFails
  BY <1>5, <1>12
     DEF MineBlock, SwitchBranch, Poll, vars, NextBlock, RedoBlock, Undo, ProcessBlock, Transformed, PassedOver,
         UndoTo, ReorgFound, Hand,
         PostgresBuffers, StartRefused, StartFails, StartPanics, UndoFails, Fails, ConsoleFails,
         Delivered, fileVars, postgresVars
<1> QED
  BY <1>6, <1>7, <1>8, <1>9, <1>10, <1>11, <1>12 DEF Next, SinkStep

\* Every step keeps the types.
LEMMA TypeStep == IInv /\ [Next]_vars => TypeOK'
<1>. SUFFICES ASSUME IInv, [Next]_vars PROVE TypeOK'
  OBVIOUS
<1>1. CountersOK' /\ KnowledgeOK' /\ OnItsWay' /\ Arrived'
  BY CountersStep, KnowledgeStep, OnItsWayStep, ArrivedStep
<1>2. Shapes' /\ FailuresPaid' /\ SessionOK'
  BY ShapesStep, LinesStep, SessionStep
<1>3. /\ chain' \in Seq(Branch) /\ Tip' <= MaxHeight /\ branch' \in Branch
      /\ config' \in Config
      /\ half' \in BOOLEAN /\ torn' \in BOOLEAN /\ garbled' \in Nat
  BY <1>2 DEF Shapes, FailuresPaid, SessionOK
<1> QED BY <1>1, <1>3, Zenon
        DEF TypeOK, CountersOK, KnowledgeOK, OnItsWay, Arrived, DbRows

-----------------------------------------------------------------------------
(***************************************************************************)
(* PostgreSQL in the first session: nothing is refused.                    *)
(***************************************************************************)

\* What is handed to send meets the rows that all the messages before it leave.
LEMMA HandedOver ==
  ASSUME TypeOK, ~ Batch.failed, pending = << >>, UNCHANGED <<rows, buffer>>,
         NEW ms \in Seq(Db!Message), pending' = ms
  PROVE  /\ Batch.rows \in DbRows
         /\ Batch' = Db!Transaction(Batch.rows, ms)
<1>1. rows \in DbRows /\ buffer \in Seq(Db!Message)
  BY DEF TypeOK, DbRows
<1>2. buffer \o pending = buffer
  BY <1>1
<1>3. Batch = Db!Transaction(rows, buffer)
  BY <1>2 DEF Batch
<1>4. Db!Transaction(rows, buffer \o ms) = Db!Transaction(Batch.rows, ms)
  BY <1>1, <1>3, BatchConcat
<1>5. Batch' = Db!Transaction(rows, buffer \o ms)
  BY DEF Batch
<1>6. Batch.rows \in DbRows
  BY <1>1, <1>3, BatchType
<1> QED BY <1>4, <1>5, <1>6

\* Before the first launch nothing runs, and the database is empty.
LEMMA BeforeTheFirst ==
  IInv /\ [Next]_vars => (starts = 0 => status = "new" /\ rows = Db!NoRows)'
<1>. SUFFICES ASSUME IInv, [Next]_vars, starts' = 0
              PROVE  status' = "new" /\ rows' = Db!NoRows
  BY DEF Db!NoRows
<1>1. starts \in Nat /\ (starts = 0 => status = "new" /\ rows = Db!NoRows)
  BY DEF IInv, TypeOK, FirstSession
<1>2. CASE Launch
  BY <1>1, <1>2 DEF Launch
<1>3. CASE MineBlock \/ SwitchBranch \/ Poll \/ UNCHANGED vars
  <2>1. UNCHANGED <<starts, status, rows>>
    BY <1>3 DEF MineBlock, SwitchBranch, Poll, vars, postgresVars
  <2> QED BY <1>1, <2>1
<1>4. CASE status = "running" /\ starts' = starts
  BY <1>1, <1>4
<1>5. StartRefused \/ StartFails \/ StartPanics \/ Start => Launch
  BY DEF StartRefused, StartFails, StartPanics, Start
<1>6. NextBlock \/ RedoBlock \/ Undo \/ UndoFails => status = "running" /\ starts' = starts
  BY DEF NextBlock, RedoBlock, Undo, UndoFails, ProcessBlock, Transformed, PassedOver,
         UndoTo, ReorgFound, Hand, Idle, Ends, Fresh
<1>7. SinkStep => status = "running" /\ starts' = starts
  BY DEF SinkStep, KafkaAnswers, FileWrites, FileEndsLine, ConsolePrints, PostgresBuffers,
         PostgresApplies, Sending, Sent, Ends, Fresh
<1>8. KafkaFails \/ FileFails \/ ConsoleFails \/ PostgresFails \/ Shutdown \/ Fails =>
        status = "running" /\ starts' = starts
  BY DEF KafkaFails, FileFails, ConsoleFails, PostgresFails, Shutdown, Fails, Sending, Ends, Fresh
<1> QED BY <1>2, <1>3, <1>4, <1>5, <1>6, <1>7, <1>8 DEF Next

\* What is left to redo are consecutive heights below the current one.
LEMMA RedoStep == IInv /\ [Next]_vars => RedoInOrder'
<1>. SUFFICES ASSUME IInv, [Next]_vars PROVE RedoInOrder'
  OBVIOUS
<1>0. TypeOK /\ RedoInOrder
  BY DEF IInv, FirstSession, RedoInOrder
<1>1. CASE UNCHANGED <<redo, current>>
  BY <1>0, <1>1 DEF RedoInOrder
<1>2. CASE redo' = << >>
  BY <1>2 DEF RedoInOrder
<1>3. CASE Start
  BY <1>2, <1>3 DEF Start, NewSession, Fresh
<1>4. CASE NextBlock
  BY <1>2, <1>4 DEF NextBlock
<1>5. CASE RedoBlock
  <2>1. /\ redo # << >> /\ redo' = Tail(redo) /\ current' = current
        /\ redo \in Seq(Height) /\ Height \subseteq Nat
    BY <1>0, <1>5, Constants DEF RedoBlock, TypeOK, Height
  <2>2. \A i \in DOMAIN redo : redo[i] = Head(redo) + i - 1 /\ redo[i] < current
    BY <1>0, <2>1 DEF RedoInOrder
  <2>3. redo' \in Seq(Height) /\ Len(redo') = Len(redo) - 1 /\ Head(redo) \in Nat
    <3>1. redo' \in Seq(Height) /\ Len(redo') = Len(redo) - 1
      BY <2>1
    <3>2. Head(redo) \in Height
      BY <2>1
    <3> QED BY <2>1, <3>1, <3>2
  <2>4. ASSUME redo' # << >>, NEW i \in DOMAIN redo'
        PROVE  redo'[i] = Head(redo') + i - 1 /\ redo'[i] < current'
    <3>1. i \in 1 .. Len(redo') /\ i + 1 \in 1 .. Len(redo) /\ 2 \in 1 .. Len(redo)
          /\ DOMAIN redo = 1 .. Len(redo)
      BY <2>1, <2>3, <2>4
    <3>2. redo'[i] = redo[i + 1] /\ Head(redo') = redo[2]
      BY <2>1, <2>3, <2>4, <3>1
    <3>3. redo[i + 1] = Head(redo) + (i + 1) - 1 /\ redo[2] = Head(redo) + 2 - 1
          /\ redo[i + 1] < current
      BY <2>2, <3>1
    <3> QED BY <2>1, <2>3, <3>1, <3>2, <3>3
  <2> QED BY <2>4 DEF RedoInOrder
<1>6. CASE Undo
  <2>1. current' = current
    BY <1>6 DEF Undo, UndoTo
  <2>2. PICK a \in Height :
          /\ \A i \in DOMAIN redo' : redo'[i] = a + i /\ redo'[i] < current
          /\ redo' # << >> => Head(redo') = a + 1
    BY <1>0, <1>6, UndoIs
  <2>3. redo' \in Seq(Height)
    BY KnowledgeStep DEF KnowledgeOK
  <2>4. a \in Nat /\ DOMAIN redo' \subseteq Nat
    BY <2>3, Constants DEF Height
  <2> QED BY <2>1, <2>2, <2>4 DEF RedoInOrder
<1>7. CASE StartRefused \/ StartFails \/ StartPanics
  BY <1>2, <1>7 DEF StartRefused, StartFails, StartPanics, NoStart, Fresh
<1>8. CASE MineBlock \/ SwitchBranch \/ Poll \/ UNCHANGED vars
  BY <1>1, <1>8 DEF MineBlock, SwitchBranch, Poll, vars, sessionVars
<1>9. CASE UndoFails \/ Shutdown \/ Fails \/ KafkaFails \/ FileFails \/ ConsoleFails
             \/ PostgresFails
  BY <1>2, <1>9 DEF UndoFails, Shutdown, Fails, KafkaFails, FileFails, ConsoleFails,
                    PostgresFails, Ends, Fresh
<1>10. CASE SinkStep
  BY <1>1, <1>2, <1>10 DEF SinkStep, KafkaAnswers, FileWrites, FileEndsLine, ConsolePrints,
                     PostgresBuffers, PostgresApplies, Sent, Ends, Fresh, sessionVars
<1> QED
  BY <1>3, <1>4, <1>5, <1>6, <1>7, <1>8, <1>9, <1>10 DEF Next

(***************************************************************************)
(* A block of a height that is not in force becomes the last one in force. *)
(***************************************************************************)
LEMMA BlockInForce ==
  ASSUME TypeOK, RowsInForce, FirstToPostgres, pending = << >>,
         NEW k, k \in Nat, k > 0, ~ InForce(k), Transformed(k)
  PROVE  /\ ~ Batch'.failed
         /\ \A l \in Height, i \in 1 .. PerBlock :
              Batch'.rows[Db!KeyId(<<l, i>>)] # NoBlock => l = k \/ InForce(l)
<1>1. k \in Height /\ chain[k] \in Branch
  BY ProcessBlockTypes
<1>2. Block(k, chain[k]) \in Seq(Db!Message)
  BY <1>1, BlockMessages
<1>3. UNCHANGED <<rows, buffer>> /\ pending' = Block(k, chain[k])
  BY DEF Transformed, Hand, FirstToPostgres, postgresVars
<1>4. /\ ~ Batch.failed
      /\ \A l \in Height, i \in 1 .. PerBlock :
           Batch.rows[Db!KeyId(<<l, i>>)] # NoBlock => InForce(l)
  BY DEF RowsInForce
<1> DEFINE before == Batch.rows
<1>5. before \in DbRows /\ Batch' = Db!Transaction(before, Block(k, chain[k]))
  BY <1>2, <1>3, <1>4, HandedOver
<1>6. \A i \in 1 .. PerBlock : before[Db!KeyId(<<k, i>>)] = NoBlock
  BY <1>1, <1>4
<1> HIDE DEF before
<1>7. /\ ~ Db!Transaction(before, Block(k, chain[k])).failed
      /\ \A l \in Height, i \in 1 .. PerBlock :
           Db!Transaction(before, Block(k, chain[k])).rows[Db!KeyId(<<l, i>>)] # NoBlock =>
             l = k \/ before[Db!KeyId(<<l, i>>)] # NoBlock
  BY <1>1, <1>5, <1>6, BatchOfBlock
<1>8. ~ Batch'.failed
  BY <1>5, <1>7, Zenon
<1>9. ASSUME NEW l \in Height, NEW i \in 1 .. PerBlock,
             Batch'.rows[Db!KeyId(<<l, i>>)] # NoBlock
      PROVE  l = k \/ InForce(l)
  <2>1. l = k \/ before[Db!KeyId(<<l, i>>)] # NoBlock
    BY <1>5, <1>7, <1>9, Zenon
  <2>2. before[Db!KeyId(<<l, i>>)] # NoBlock => InForce(l)
    BY <1>4 DEF before
  <2> QED BY <2>1, <2>2
<1> QED BY <1>8, <1>9

\* In the first session every step keeps rows to the heights in force.
LEMMA RowsStep == IInv /\ [Next]_vars => (FirstToPostgres => RowsInForce)'
<1>. SUFFICES ASSUME IInv, [Next]_vars, FirstToPostgres' PROVE RowsInForce'
  OBVIOUS
<1>0. /\ TypeOK /\ RedoInOrder /\ (FirstToPostgres => RowsInForce)
      /\ (starts = 0 => rows = Db!NoRows)
  BY DEF IInv, FirstSession, RedoInOrder, FirstToPostgres, RowsInForce
<1>a. /\ rows \in DbRows /\ buffer \in Seq(Db!Message) /\ pending \in Seq(Db!Message)
      /\ starts \in Nat /\ current \in Nat
      /\ redo \in Seq(Height) /\ Height \subseteq Nat
  BY <1>0, Constants DEF TypeOK, DbRows, Height
<1>1. CASE UNCHANGED <<status, starts, config, rows, buffer, pending, current, redo>>
  <2>1. RowsInForce
    BY <1>0, <1>1 DEF FirstToPostgres
  <2>2. Batch' = Batch
    BY <1>1 DEF Batch
  <2>3. \A k : InForce(k)' = InForce(k)
    BY <1>1 DEF InForce
  <2> QED BY <2>1, <2>2, <2>3 DEF RowsInForce
<1>2. CASE status' # "running"
  BY <1>2 DEF FirstToPostgres
<1>3. CASE Start
  <2>1. starts' = starts + 1 /\ rows' = rows /\ buffer' = << >> /\ pending' = << >>
    BY <1>3 DEF Start, Launch, NewSession, Fresh
  <2>2. starts = 0
    BY <1>a, <2>1 DEF FirstToPostgres
  <2>3. rows = Db!NoRows
    BY <1>0, <2>2
  <2>4. Batch' = Db!Transaction(rows, << >>)
    BY <2>1 DEF Batch
  <2>5. Batch' = [rows |-> rows, failed |-> FALSE]
    BY <1>a, <2>4, BatchEmpty
  <2>6. ASSUME NEW k \in Height, NEW i \in 1 .. PerBlock
        PROVE  rows[Db!KeyId(<<k, i>>)] = NoBlock
    <3>1. Db!KeyId(<<k, i>>) \in Db!Ids
      BY KeysDiffer DEF Db!KeyId, Db!Ids
    <3> QED BY <2>3, <3>1 DEF Db!NoRows
  <2> QED BY <2>5, <2>6 DEF RowsInForce
<1>4. CASE NextBlock
  <2>1. /\ FirstToPostgres /\ pending = << >> /\ redo = << >> /\ redo' = redo
    BY <1>4 DEF NextBlock, ProcessBlock, Transformed, PassedOver,
         UndoTo, ReorgFound, Hand, FirstToPostgres, Idle
  <2>2. PICK k : k = current + 1
    OBVIOUS
  <2>3. k \in Nat /\ k > 0 /\ ProcessBlock(k) /\ current' = k
    BY <1>a, <1>4, <2>2 DEF NextBlock
  <2>4. ~ InForce(k)
    BY <1>a, <2>2 DEF InForce
  <2>6. ASSUME NEW l \in Height, l = k \/ InForce(l) PROVE InForce(l)'
    BY <1>a, <2>1, <2>2, <2>3, <2>6 DEF InForce
  <2>7. CASE Transformed(k)
    <3>1. /\ ~ Batch'.failed
          /\ \A l \in Height, i \in 1 .. PerBlock :
               Batch'.rows[Db!KeyId(<<l, i>>)] # NoBlock => l = k \/ InForce(l)
      BY <1>0, <2>1, <2>3, <2>4, <2>7, BlockInForce
    <3> QED BY <2>6, <3>1 DEF RowsInForce
  <2>8. CASE PassedOver(k)
    <3>1. Batch' = Batch /\ RowsInForce
      BY <1>0, <2>1, <2>8 DEF PassedOver, postgresVars, Batch
    <3> QED BY <2>6, <3>1 DEF RowsInForce
  <2> QED BY <2>3, <2>7, <2>8 DEF ProcessBlock
<1>5. CASE RedoBlock
  <2>1. /\ FirstToPostgres /\ pending = << >> /\ redo # << >> /\ redo' = Tail(redo)
        /\ current' = current
    BY <1>5 DEF RedoBlock, ProcessBlock, Transformed, PassedOver,
         UndoTo, ReorgFound, Hand, FirstToPostgres, Idle
  <2>2. PICK k : k = Head(redo)
    OBVIOUS
  <2>3. /\ k \in Nat /\ k > 0 /\ k < current
        /\ redo' # << >> => Head(redo') = k + 1
    <3>1. DOMAIN redo = 1 .. Len(redo) /\ 1 \in DOMAIN redo /\ Head(redo) = redo[1]
      BY <1>a, <2>1
    <3>2. k \in Height /\ k < current
      BY <1>0, <2>1, <2>2, <3>1, <1>a DEF RedoInOrder
    <3>3. ASSUME redo' # << >> PROVE Head(redo') = k + 1
      <4>1. 2 \in DOMAIN redo /\ Head(redo') = redo[2]
        BY <1>a, <2>1, <3>1, <3>3
      <4>2. redo[2] = Head(redo) + 2 - 1
        BY <1>0, <2>1, <4>1 DEF RedoInOrder
      <4> QED BY <1>a, <2>2, <3>2, <4>1, <4>2
    <3> QED BY <3>2, <3>3, Constants DEF Height
  <2>4. ~ InForce(k)
    BY <2>1, <2>2, <2>3 DEF InForce
  <2>5. ASSUME NEW l \in Height, l = k \/ InForce(l) PROVE InForce(l)'
    <3>1. l \in Nat /\ l <= current /\ l <= k
      BY <1>a, <2>1, <2>2, <2>3, <2>5 DEF InForce
    <3> QED BY <1>a, <2>1, <2>3, <3>1 DEF InForce
  <2>6. CASE Transformed(k)
    <3>1. /\ ~ Batch'.failed
          /\ \A l \in Height, i \in 1 .. PerBlock :
               Batch'.rows[Db!KeyId(<<l, i>>)] # NoBlock => l = k \/ InForce(l)
      BY <1>0, <2>1, <2>3, <2>4, <2>6, BlockInForce
    <3> QED BY <2>5, <3>1 DEF RowsInForce
  <2>7. CASE PassedOver(k)
    <3>1. Batch' = Batch /\ RowsInForce
      BY <1>0, <2>1, <2>7 DEF PassedOver, postgresVars, Batch
    <3> QED BY <2>5, <3>1 DEF RowsInForce
  <2> QED BY <1>5, <2>2, <2>6, <2>7 DEF RedoBlock, ProcessBlock
<1>6. CASE Undo
  <2>1. FirstToPostgres /\ pending = << >> /\ UNCHANGED <<current, cdc, rows, buffer>>
    BY <1>6 DEF Undo, UndoTo, ReorgFound, Hand, FirstToPostgres, Idle, postgresVars
  <2>2. PICK a \in Height :
          /\ current \in Height /\ a < current
          /\ redo' # << >> => Head(redo') = a + 1
          /\ Hand(InverseRange(a))
    BY <1>0, <1>6, UndoIs
  <2>3. a \in Nat /\ a <= current /\ pending' = InverseRange(a)
    BY <1>a, <2>1, <2>2 DEF Hand, FirstToPostgres
  <2>4. /\ ~ Batch.failed
        /\ \A l \in Height, i \in 1 .. PerBlock :
             Batch.rows[Db!KeyId(<<l, i>>)] # NoBlock => InForce(l)
    BY <1>0, <2>1 DEF RowsInForce
  <2>5. PICK ms : ms = InverseRange(a)
    OBVIOUS
  <2>6. cdc \in [Height -> Branch \cup {NoBlock}]
    BY <1>0 DEF TypeOK
  <2>7. ms \in Seq(Db!Message)
    BY <1>a, <2>2, <2>3, <2>5, <2>6, BatchOfInverse DEF InverseRange
  <2> DEFINE before == Batch.rows
  <2>8. before \in DbRows /\ Batch' = Db!Transaction(before, ms)
    BY <1>0, <2>1, <2>3, <2>4, <2>5, <2>7, HandedOver
  <2> HIDE DEF before
  <2>9. /\ ~ Db!Transaction(before, ms).failed
        /\ \A l \in Height, i \in 1 .. PerBlock :
             Db!Transaction(before, ms).rows[Db!KeyId(<<l, i>>)] # NoBlock =>
               before[Db!KeyId(<<l, i>>)] # NoBlock /\ ~ (a < l /\ l <= current)
    BY <2>2, <2>3, <2>5, <2>6, <2>8, BatchOfInverse DEF InverseRange
  <2>10. ASSUME NEW l \in Height, NEW i \in 1 .. PerBlock,
                Batch'.rows[Db!KeyId(<<l, i>>)] # NoBlock
         PROVE  InForce(l)'
    <3>1. before[Db!KeyId(<<l, i>>)] # NoBlock /\ ~ (a < l /\ l <= current)
      BY <2>8, <2>9, <2>10, Zenon
    <3>2. InForce(l)
      BY <2>4, <3>1 DEF before
    <3>3. l \in Nat /\ l <= current /\ l <= a
      BY <1>a, <2>3, <3>1, <3>2 DEF InForce
    <3> QED BY <2>1, <2>2, <2>3, <3>3 DEF InForce
  <2>11. ~ Batch'.failed
    BY <2>8, <2>9, Zenon
  <2> QED BY <2>10, <2>11 DEF RowsInForce
<1>7. CASE PostgresBuffers
  <2>1. /\ buffer' = buffer \o pending /\ pending' = << >>
        /\ UNCHANGED <<status, starts, config, rows, current, redo>>
    BY <1>7 DEF PostgresBuffers, sessionVars
  <2>2. buffer' \o pending' = buffer \o pending
    <3>1. buffer \o pending \in Seq(Db!Message)
      BY <1>a
    <3> QED BY <2>1, <3>1
  <2>3. Batch' = Batch /\ RowsInForce
    BY <1>0, <2>1, <2>2 DEF Batch, FirstToPostgres
  <2>4. \A k : InForce(k)' = InForce(k)
    BY <2>1 DEF InForce
  <2> QED BY <2>3, <2>4 DEF RowsInForce
<1>8. CASE PostgresApplies
  <2>1. /\ ~ Batch.failed
        /\ rows' = Batch.rows /\ buffer' = << >> /\ pending' = << >>
        /\ UNCHANGED <<status, starts, config, current, redo>>
    BY <1>8 DEF PostgresApplies, Ends, Fresh, FirstToPostgres, sessionVars
  <2>2. RowsInForce
    BY <1>0, <2>1 DEF FirstToPostgres
  <2>3. PICK table : table = Batch.rows
    OBVIOUS
  <2>4. table \in DbRows
    <3>1. buffer \o pending \in Seq(Db!Message)
      BY <1>a
    <3> QED BY <1>a, <2>3, <3>1, BatchType DEF Batch
  <2>5. Batch' = Db!Transaction(table, << >>)
    BY <2>1, <2>3 DEF Batch
  <2>6. Batch' = [rows |-> table, failed |-> FALSE]
    BY <2>4, <2>5, BatchEmpty
  <2>7. \A k : InForce(k)' = InForce(k)
    BY <2>1 DEF InForce
  <2> QED BY <2>2, <2>3, <2>6, <2>7 DEF RowsInForce
<1>9. CASE KafkaAnswers \/ FileWrites \/ FileEndsLine \/ ConsolePrints
  <2>1. config'.sink.type # "postgres"
    BY <1>9 DEF KafkaAnswers, FileWrites, FileEndsLine, ConsolePrints, Sending, Sent,
                sessionVars
  <2> QED BY <2>1 DEF FirstToPostgres
<1>10. CASE MineBlock \/ SwitchBranch \/ Poll \/ UNCHANGED vars
  BY <1>1, <1>10 DEF MineBlock, SwitchBranch, Poll, vars, sessionVars, postgresVars
<1>11. CASE StartRefused \/ StartFails \/ StartPanics
  BY <1>2, <1>11 DEF StartRefused, StartFails, StartPanics, NoStart, Fresh
<1>12. CASE UndoFails \/ Shutdown \/ Fails \/ KafkaFails \/ FileFails \/ ConsoleFails
              \/ PostgresFails
  BY <1>2, <1>12 DEF UndoFails, Shutdown, Fails, KafkaFails, FileFails, ConsoleFails,
                     PostgresFails, Ends, Fresh
<1> QED
  BY <1>3, <1>4, <1>5, <1>6, <1>7, <1>8, <1>9, <1>10, <1>11, <1>12 DEF Next, SinkStep

(***************************************************************************)
(* Refused is only a batch of a session that is not the first.             *)
(***************************************************************************)
LEMMA AcceptedStep == IInv /\ [Next]_vars => FirstSessionAccepted'
<1>. SUFFICES ASSUME IInv, [Next]_vars, status' = "rejected" PROVE starts' > 1
  BY DEF FirstSessionAccepted
<1>0. /\ FirstSessionAccepted /\ (FirstToPostgres => RowsInForce)
      /\ starts \in Nat /\ starts' \in Nat
  BY CountersStep, ServiceAssumption
     DEF IInv, TypeOK, FirstSession, FirstToPostgres, RowsInForce, CountersOK
<1>1. CASE status' = status /\ starts' = starts
  BY <1>0, <1>1 DEF FirstSessionAccepted
<1>2. CASE PostgresApplies /\ Batch.failed
  <2>1. ~ FirstToPostgres
    BY <1>0, <1>2 DEF RowsInForce
  <2>2. status = "running" /\ config.sink.type = "postgres" /\ starts' = starts
    BY <1>2 DEF PostgresApplies, Sending, Ends, Fresh
  <2> QED BY <1>0, <2>1, <2>2 DEF FirstToPostgres
<1>3. CASE PostgresApplies /\ ~ Batch.failed
  BY <1>1, <1>3 DEF PostgresApplies
<1>4. CASE NextBlock \/ RedoBlock \/ Undo
  <2>1. starts' = starts /\ (status' = status \/ status' = "panicked")
    BY <1>4 DEF NextBlock, RedoBlock, Undo, ProcessBlock, Transformed, PassedOver,
         UndoTo, ReorgFound, Hand
  <2> QED BY <1>1, <2>1
<1>5. CASE StartRefused \/ StartFails \/ StartPanics \/ Start
  BY <1>5 DEF StartRefused, StartFails, StartPanics, Start, NoStart, Fresh, NewSession
<1>6. CASE UndoFails \/ Shutdown \/ Fails \/ KafkaFails \/ FileFails \/ ConsoleFails
             \/ PostgresFails
  BY <1>6 DEF UndoFails, Shutdown, Fails, KafkaFails, FileFails, ConsoleFails,
              PostgresFails, Ends, Fresh
<1>7. CASE KafkaAnswers \/ FileWrites \/ FileEndsLine \/ ConsolePrints \/ PostgresBuffers
  BY <1>1, <1>7 DEF KafkaAnswers, FileWrites, FileEndsLine, ConsolePrints,
                    PostgresBuffers, Sent
<1>8. CASE MineBlock \/ SwitchBranch \/ Poll \/ UNCHANGED vars
  BY <1>1, <1>8 DEF MineBlock, SwitchBranch, Poll, vars
<1> QED BY <1>2, <1>3, <1>4, <1>5, <1>6, <1>7, <1>8 DEF Next, SinkStep

\* Every step keeps what FirstSessionAccepted rests on.
LEMMA FirstStep == IInv /\ [Next]_vars => FirstSession'
<1>. SUFFICES ASSUME IInv, [Next]_vars PROVE FirstSession'
  OBVIOUS
<1>1. /\ (starts = 0 => status = "new" /\ rows = Db!NoRows)'
      /\ FirstSessionAccepted' /\ RedoInOrder' /\ (FirstToPostgres => RowsInForce)'
  BY BeforeTheFirst, AcceptedStep, RedoStep, RowsStep
<1> QED BY <1>1 DEF FirstSession, RedoInOrder, FirstToPostgres, RowsInForce

-----------------------------------------------------------------------------
(***************************************************************************)
(* The strengthening is inductive, and what it promises of a session that  *)
(* has caught up follows: every block it processed is what its reader has. *)
(***************************************************************************)
LEMMA InitInductive == Init => IInv
<1>. SUFFICES ASSUME Init PROVE IInv
  OBVIOUS
<1>1. SessionOK
  <2>1. PICK args \in Launches : config \in Loaded(args) /\ Valid(config)
    BY DEF Init
  <2> QED BY <2>1, Constants DEF Init, SessionOK
<1>2. KafkaNeverPanics
  BY DEF Init, KafkaNeverPanics
<1>3. FailuresPaid
  <2>1. /\ half = FALSE /\ torn = FALSE /\ garbled = 0 /\ faults = 0 /\ tail = << >>
    BY DEF Init
  <2>2. half \in BOOLEAN /\ torn \in BOOLEAN
    BY <2>1, Zenon
  <2>3. Debt(torn, half, tail # << >>) = 0
    BY <2>1 DEF Debt
  <2>4. /\ garbled \in Nat /\ faults \in Nat
        /\ garbled + Debt(torn, half, tail # << >>) <= faults
    BY <2>1, <2>3
  <2> QED BY <2>2, <2>4 DEF FailuresPaid, Debt
<1>4. Shapes
  BY Constants, ServiceAssumption DEF Init, Shapes, Tip, Branch, Db!EmptyTable
<1>5. Underway /\ Reached
  BY DEF Init, Underway, Reached
<1>6. TypeOK
  <2>1. CountersOK
    BY ServiceAssumption DEF Init, CountersOK, Statuses
  <2>2. KnowledgeOK
    <3>1. /\ current = 0 /\ left = 0 /\ cached = {} /\ redo = << >> /\ undone = FALSE
          /\ cdc = [k \in Height |-> NoBlock]
      BY DEF Init
    <3>2. cdc \in [Height -> Branch \cup {NoBlock}]
      BY <3>1
    <3>3. redo \in Seq(Height) /\ current \in Nat /\ left \in Nat
      BY <3>1
    <3> QED BY <3>1, <3>2, <3>3, Zenon DEF KnowledgeOK
  <2>3. OnItsWay
    BY DEF Init, OnItsWay
  <2>4. Arrived
    <3>1. rows \in DbRows /\ held \in Db!Table
      BY DEF Init, DbRows, Db!NoRows, Db!EmptyTable, Db!Table, Db!Record
    <3>2. tail = << >>
      BY DEF Init
    <3> QED BY <3>1, <3>2 DEF Arrived
  <2> QED BY <1>1, <1>3, <1>4, <2>1, <2>2, <2>3, <2>4, Zenon
          DEF TypeOK, CountersOK, KnowledgeOK, OnItsWay, Arrived, DbRows, Shapes,
              FailuresPaid, SessionOK
<1>7. FirstSession
  <2>1. starts = 0 /\ status = "new" /\ rows = Db!NoRows /\ redo = << >>
    BY DEF Init
  <2> QED BY <2>1
          DEF FirstSession, FirstSessionAccepted, RedoInOrder, FirstToPostgres
<1> QED BY <1>1, <1>2, <1>3, <1>4, <1>5, <1>6, <1>7 DEF IInv

\* The strengthening holds throughout.
THEOREM InvariantHolds == Spec => []IInv
<1>1. IInv /\ [Next]_vars => IInv'
  BY TypeStep, FirstStep, SessionStep, PanicStep, LinesStep, ShapesStep, UnderwayStep,
     ReachedStep DEF IInv
<1> QED BY InitInductive, <1>1, PTL DEF Spec

\* Every variable has its type, and nothing is under way in a session that ended.
THEOREM TypesHold == Spec => []TypeOK
<1>1. IInv => TypeOK
  BY DEF IInv
<1> QED BY InvariantHolds, <1>1, PTL

\* PostgreSQL refuses nothing of the first session.
THEOREM NothingOfTheFirstSessionIsRefused == Spec => []FirstSessionAccepted
<1>1. IInv => FirstSessionAccepted
  BY DEF IInv, FirstSession
<1> QED BY InvariantHolds, <1>1, PTL

\* No configuration that validate accepts makes the Kafka sink panic.
THEOREM KafkaSinkNeverPanics == Spec => []KafkaNeverPanics
<1>1. IInv => KafkaNeverPanics
  BY DEF IInv
<1> QED BY InvariantHolds, <1>1, PTL

\* A failure spoils one line of the file at most.
THEOREM LinesArePaidFor == Spec => []OneLinePerFailure
<1>1. IInv => OneLinePerFailure
  <2>. SUFFICES ASSUME IInv PROVE OneLinePerFailure
    OBVIOUS
  <2>1. /\ half \in BOOLEAN /\ torn \in BOOLEAN /\ garbled \in Nat /\ faults \in Nat
        /\ garbled + Debt(torn, half, tail # << >>) <= faults
    BY DEF IInv, FailuresPaid, Debt
  <2>2. /\ Debt(torn, half, tail # << >>) \in {0, 1}
        /\ torn => Debt(torn, half, tail # << >>) = 1
    BY <2>1, DebtIs
  <2>3. CASE torn
    BY <2>1, <2>2, <2>3 DEF OneLinePerFailure
  <2>4. CASE ~ torn
    <3>1. garbled <= faults
      BY <2>1, <2>2
    <3> QED BY <2>1, <2>4, <3>1 DEF OneLinePerFailure
  <2> QED BY <2>3, <2>4
<1> QED BY InvariantHolds, <1>1, PTL

\* A session without a reorg that has caught up has repaired what the sessions
\* before it left, from its starting height on.
THEOREM RestartsRepair == Spec => []RestartRepairs
<1>1. IInv => RestartRepairs
  <2>. SUFFICES ASSUME IInv, CaughtUp, config.sink.type # "postgres", garbled = 0, ~ torn,
                       NEW k \in Height, NEW i \in 1 .. PerBlock,
                       config.start < k, k <= Tip
                PROVE  Read[<<k, i>>] = chain[k]
    BY DEF RestartRepairs
  <2>1. status = "running" /\ pending = << >> /\ ~ undone /\ current >= Tip
    BY DEF CaughtUp, Idle
  <2>2. current \in Nat /\ Tip \in Nat /\ PerBlock \in Nat
    BY <2>1, Constants DEF IInv, Underway, Shapes, Tip
  <2>3. k <= current
    BY <2>1, <2>2 DEF Height
  <2>4. Done = PerBlock
    BY <2>1, <2>2 DEF Done
  <2>7. cdc[k] = chain[k]
    BY <2>3 DEF CaughtUp
  <2>8. cdc[k] # NoBlock
    <3>1. chain \in Seq(Branch) /\ k \in 1 .. Len(chain)
      BY <2>2 DEF IInv, Shapes, Tip, Height
    <3>2. chain[k] \in Branch
      BY <3>1
    <3> QED BY <2>7, <3>2, NoBlockIsNone
  <2>5. AlreadySent(k, i)
    BY <2>2, <2>3, <2>4, <2>8 DEF AlreadySent
  <2>6. Read[<<k, i>>] = cdc[k]
    BY <2>1, <2>5 DEF IInv, Reached
  <2> QED BY <2>6, <2>7
<1> QED BY InvariantHolds, <1>1, PTL

=============================================================================
