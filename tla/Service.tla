------------------------------ MODULE Service ------------------------------
(***************************************************************************)
(* The debshrew process over its restarts: main (debshrew/src/main.rs)     *)
(* loads and validates a configuration (Settings), builds the components   *)
(* and runs the synchronizer until an error, Ctrl+C or a crash ends it.    *)
(* Nothing of a session is kept for the next one but what the sink has     *)
(* delivered (debshrew/src/sink/mod.rs).                                   *)
(*                                                                         *)
(* Of the synchronizer there is what decides which messages are sent, and  *)
(* in which order; Synchronizer has its awaits, Settings its start.  The   *)
(* block cache is taken to be larger than the chain.  A block is its       *)
(* height and the branch it was mined on, and the transform emits          *)
(* PerBlock Creates for it, keyed by height and position.                  *)
(*                                                                         *)
(* A consumer applies what it can parse in order of arrival, Create or     *)
(* Update by storing the record and Delete by removing it; PostgreSQL is   *)
(* PostgresTables.  A message Kafka stores twice in a row changes nothing  *)
(* for such a consumer and is not told apart from a single one.            *)
(***************************************************************************)
EXTENDS Settings, Sequences, SequencesExt

CONSTANTS
  MaxHeight,   \* bound: the chain does not grow beyond this height
  MaxReorgs,   \* bound: how many times metashrew switches branch
  MaxFaults,   \* bound: failures of a sink or a server, and crashes
  MaxStarts,   \* bound: how often the service is started
  PerBlock,    \* messages of a block
  Launches,    \* the command lines it may be started with
  PostgresCalls \* what becomes of a call of the blocking postgres crate: within
               \* main's tokio runtime it panics; elsewhere it would "return"

ASSUME ServiceAssumption ==
  /\ MaxHeight \in Nat \ {0} /\ PerBlock \in Nat \ {0}
  /\ MaxReorgs \in Nat /\ MaxFaults \in Nat /\ MaxStarts \in Nat
  /\ \A args \in Launches : Loaded(args) \subseteq Config
  /\ PostgresCalls \subseteq {"panic", "return"}

Height == 1 .. MaxHeight
Branch == 0 .. MaxReorgs
Key == Height \X (1 .. PerBlock)

NoBlock == -1

Db == INSTANCE PostgresTables WITH
        Key <- Key, Value <- Branch, None <- NoBlock, TextKeys <- {}

VARIABLES
  chain,     \* metashrew: chain[k] is the branch of the block at height k
  branch,    \* metashrew: the branch new blocks are mined on
  faults,    \* failures so far
  starts,    \* how often the service was started
  status,    \* "running", or why it ended
  config,    \* the configuration of this session, or of the last
  current,   \* current_height
  left,      \* how many heights run has yet to process up to its target_height
  cdc,       \* cdc_cache: the branch of the block last transformed
  cached,    \* the heights in the block cache
  redo,      \* the heights handle_reorg has yet to process again
  undone,    \* did this session handle a reorg?
  pending,   \* what the current call of send has yet to deliver
  half,      \* file: has the message been written, and its newline not?
  buffer,    \* PostgreSQL: the sink's buffer
  rows,      \* PostgreSQL: the database
  held,      \* the records of a consumer of the finished lines, or the topic
  tail,      \* file: the message on the last, unfinished line
  torn,      \* file: can the last line no longer be parsed?
  garbled    \* file: finished lines that cannot be parsed

envVars == <<chain, branch>>
fileVars == <<half, tail, torn, garbled>>
postgresVars == <<buffer, rows>>
sessionVars == <<config, current, left, cdc, cached, redo, undone>>
vars == <<envVars, faults, starts, status, sessionVars, pending, fileVars,
          postgresVars, held>>

Tip == Len(chain)

Delivered == <<held, tail, torn, garbled, rows>>

Init ==
  /\ chain = << >>
  /\ branch = 0
  /\ faults = 0
  /\ starts = 0
  /\ status = "new"
  /\ config \in UNION {{c \in Loaded(args) : Valid(c)} : args \in Launches}
  /\ current = 0
  /\ left = 0
  /\ cdc = [k \in Height |-> NoBlock]
  /\ cached = {}
  /\ redo = << >>
  /\ undone = FALSE
  /\ pending = << >>
  /\ half = FALSE
  /\ buffer = << >>
  /\ rows = Db!NoRows
  /\ held = Db!EmptyTable
  /\ tail = << >>
  /\ torn = FALSE
  /\ garbled = 0

MineBlock ==
  /\ Tip < MaxHeight
  /\ chain' = Append(chain, branch)
  /\ UNCHANGED <<branch, faults, starts, status, sessionVars, pending, fileVars,
                 postgresVars, held>>

SwitchBranch ==
  /\ branch < MaxReorgs
  /\ \E fork \in 0 .. Tip - 1 : chain' = SubSeq(chain, 1, fork)
  /\ branch' = branch + 1
  /\ UNCHANGED <<faults, starts, status, sessionVars, pending, fileVars,
                 postgresVars, held>>

TransientFault ==
  /\ faults < MaxFaults
  /\ faults' = faults + 1

-----------------------------------------------------------------------------
(***************************************************************************)
(* main, up to the synchronizer's run.  One deployment keeps its sink: the *)
(* type is that of the first state's config.                               *)
(***************************************************************************)
\* The memory of a process that has processed nothing, or of none.
Fresh(start) ==
  /\ current' = start /\ left' = 0
  /\ cdc' = [k \in Height |-> NoBlock]
  /\ cached' = {} /\ redo' = << >> /\ undone' = FALSE
  /\ pending' = << >> /\ half' = FALSE /\ buffer' = << >>

NewSession(c) ==
  /\ status' = "running"
  /\ config' = c
  /\ Fresh(c.start)

\* FileSink::new: a file that is not appended to is emptied.
Truncated ==
  /\ held' = Db!EmptyTable
  /\ tail' = << >>
  /\ torn' = FALSE
  /\ garbled' = 0

NoStart(why) ==
  /\ status' = why
  /\ Fresh(0)
  /\ UNCHANGED config

Launch ==
  /\ status # "running"
  /\ starts < MaxStarts
  /\ starts' = starts + 1
  /\ UNCHANGED envVars

\* No configuration can be loaded, or it is not valid.
StartRefused ==
  /\ Launch
  /\ \E args \in Launches : \A c \in Loaded(args) : ~ Valid(c)
  /\ NoStart("refused")
  /\ UNCHANGED <<faults, Delivered>>

\* The transform is no WebAssembly module, or the sink cannot be created.
StartFails ==
  /\ Launch
  /\ \E args \in Launches : \E c \in Loaded(args) :
       /\ Valid(c) /\ c.sink.type = config.sink.type
       /\ \/ c.transform = "junk" /\ UNCHANGED faults
          \/ TransientFault
  /\ NoStart("failed")
  /\ UNCHANGED Delivered

\* PostgresSink::new connects, which no thread of a tokio runtime may do.
StartPanics ==
  /\ Launch
  /\ "panic" \in PostgresCalls
  /\ \E args \in Launches : \E c \in Loaded(args) :
       /\ Valid(c) /\ c.sink.type = config.sink.type /\ c.sink.type = "postgres"
       /\ c.transform # "junk"
  /\ NoStart("panicked")
  /\ UNCHANGED <<faults, Delivered>>

Start ==
  /\ Launch
  /\ \E args \in Launches : \E c \in Loaded(args) :
       /\ Valid(c) /\ c.sink.type = config.sink.type
       /\ c.transform # "junk"
       /\ c.sink.type = "postgres" => "return" \in PostgresCalls
       /\ NewSession(c)
       /\ IF c.sink.type = "file" /\ ~ c.sink.append THEN Truncated
          ELSE UNCHANGED <<held, tail, torn, garbled>>
  /\ UNCHANGED <<faults, rows>>

-----------------------------------------------------------------------------
(***************************************************************************)
(* The end of a session.                                                   *)
(***************************************************************************)
Ends(why) ==
  /\ status' = why
  /\ Fresh(0)
  /\ UNCHANGED <<envVars, starts, config>>

\* Ctrl+C drops run where it awaits: between two calls of send, or while Kafka
\* has yet to answer.  File and PostgreSQL calls do not await.
Shutdown ==
  /\ status = "running"
  /\ pending # << >> => config.sink.type = "kafka"
  /\ Ends("shutdown")
  /\ held' \in {held} \cup (IF pending = << >> THEN {}
                           ELSE {Db!Effect(held, Head(pending))})
  /\ UNCHANGED <<faults, tail, torn, garbled, rows>>

\* A call to metashrew or a transform fails, or the process is killed outside
\* of a call of the sink.
Fails ==
  /\ status = "running"
  /\ pending = << >>
  /\ TransientFault
  /\ Ends("failed")
  /\ UNCHANGED Delivered

-----------------------------------------------------------------------------
(***************************************************************************)
(* The synchronizer: which messages are handed to the sink's send.         *)
(***************************************************************************)
Block(k, b) ==
  [i \in 1 .. PerBlock |-> [operation |-> "create", key |-> <<k, i>>,
                           before |-> NoBlock, after |-> b]]

\* KafkaSink::send starts with messages.chunks(batch_size), which panics at 0.
Hand(messages) ==
  /\ IF config.sink.type = "kafka" /\ config.sink.batch = 0
     THEN status' = "panicked" /\ pending' = << >>
     ELSE pending' = messages /\ UNCHANGED status
  /\ UNCHANGED <<envVars, faults, starts, config, fileVars, postgresVars, held>>

Idle == status = "running" /\ pending = << >>

\* process_block, for a block that is not there or an error of code -32000: Ok.
PassedOver(k) ==
  /\ \/ k > Tip /\ UNCHANGED faults
     \/ TransientFault
  /\ UNCHANGED <<envVars, starts, status, config, cdc, cached, pending, fileVars,
                 postgresVars, held>>

\* A slip the runs must notice: the messages are not kept for their inverses.
TransformedUnkept(k) ==
  /\ k <= Tip
  /\ cached' = cached \cup {k}
  /\ Hand(Block(k, chain[k]))
  /\ UNCHANGED cdc

\* process_block, for a block that is there: the runtime's cache and the block
\* cache, then send.
Transformed(k) ==
  /\ k <= Tip
  /\ cdc' = [cdc EXCEPT ![k] = chain[k]]
  /\ cached' = cached \cup {k}
  /\ Hand(Block(k, chain[k]))

ProcessBlock(k) == Transformed(k) \/ PassedOver(k)

\* run asks for the height of the chain.
Poll ==
  /\ Idle /\ redo = << >>
  /\ left = 0 /\ current < Tip
  /\ left' = Tip - current
  /\ UNCHANGED <<envVars, faults, starts, status, config, current, cdc, cached, redo,
                 undone, pending, fileVars, postgresVars, held>>

\* run: current_height moves when process_block has returned; a send that does not
\* ends the session.
NextBlock ==
  /\ Idle /\ redo = << >>
  /\ left > 0
  /\ left' = left - 1
  /\ ProcessBlock(current + 1)
  /\ current' = current + 1
  /\ UNCHANGED <<redo, undone>>

\* handle_reorg, the new chain.
RedoBlock ==
  /\ Idle /\ redo # << >>
  /\ redo' = Tail(redo)
  /\ ProcessBlock(Head(redo))
  /\ UNCHANGED <<current, left, undone>>

\* The height handle_reorg is called with, if the chain is not the cached one.
ReorgHeights ==
  {n \in 0 .. current - 1 :
     IF current <= Tip THEN n = current - 1 /\ chain[current] # cdc[current]
     ELSE n = Tip /\ current > 1}

Common(n) == {a \in cached : a <= n /\ chain[a] = cdc[a]}

InverseRange(a) ==
  Db!InverseBlocks([k \in Height |-> Block(k, cdc[k])], a, current)

\* run's check of a chain that has not grown.
ReorgFound ==
  /\ Idle /\ redo = << >>
  /\ left = 0 /\ Tip <= current /\ current \in cached

\* cdc_cache has the messages of every height above a.
Invertible(a) == \A k \in Height : a < k /\ k <= current => cdc[k] # NoBlock

\* Slips the runs must notice: nothing is withdrawn; the ancestor is processed again.
UndoToUnsent(a, n) ==
  /\ cached' = {k \in cached : k <= a}
  /\ redo' = [i \in 1 .. n - a |-> a + i]
  /\ Hand(<< >>)
  /\ undone' = TRUE
  /\ UNCHANGED <<current, left, cdc>>

UndoToAndRedo(a, n) ==
  /\ cached' = {k \in cached : k <= a}
  /\ redo' = [i \in 1 .. n - a + 1 |-> a + i - 1]
  /\ Hand(InverseRange(a))
  /\ undone' = TRUE
  /\ UNCHANGED <<current, left, cdc>>

\* handle_reorg(n) up to the send of the inverse messages, for the common
\* ancestor a; current_height stays.
UndoTo(a, n) ==
  /\ cached' = {k \in cached : k <= a}
  /\ redo' = [i \in 1 .. n - a |-> a + i]
  /\ Hand(InverseRange(a))
  /\ undone' = TRUE
  /\ UNCHANGED <<current, left, cdc>>

Undo ==
  /\ ReorgFound
  /\ \E n \in ReorgHeights :
       /\ Common(n) # {} /\ Invertible(Max(Common(n)))
       /\ UndoTo(Max(Common(n)), n)

\* handle_reorg fails: no block of this session is on the chain, or a height has
\* no messages to invert.
UndoFails ==
  /\ ReorgFound
  /\ \E n \in ReorgHeights : Common(n) # {} => ~ Invertible(Max(Common(n)))
  /\ Ends("not_undone")
  /\ UNCHANGED <<faults, Delivered>>

-----------------------------------------------------------------------------
(***************************************************************************)
(* The sinks: send takes its messages one by one, PostgresSink at once.    *)
(***************************************************************************)
Sending(type) ==
  /\ status = "running" /\ pending # << >>
  /\ config.sink.type = type

Sent ==
  /\ pending' = Tail(pending)
  /\ UNCHANGED <<envVars, faults, starts, status, sessionVars>>

\* The producer's send returned Ok: the topic has the message.
KafkaAnswers ==
  /\ Sending("kafka")
  /\ Sent
  /\ held' = Db!Effect(held, Head(pending))
  /\ UNCHANGED <<fileVars, postgresVars>>

\* A slip the runs must notice: a message that failed is passed over.
KafkaFailsUnnoticed ==
  /\ Sending("kafka")
  /\ TransientFault
  /\ pending' = Tail(pending)
  /\ UNCHANGED <<envVars, starts, status, sessionVars, held, fileVars, postgresVars>>

\* No answer within message.timeout.ms, or the process is killed: the topic has
\* the message or not.
KafkaFails ==
  /\ Sending("kafka")
  /\ TransientFault
  /\ Ends("sink")
  /\ held' \in {held, Db!Effect(held, Head(pending))}
  /\ UNCHANGED <<tail, torn, garbled, rows>>

\* writeln!, the first write: behind an unfinished line the message is lost in it.
FileWrites ==
  /\ Sending("file") /\ ~ half
  /\ half' = TRUE
  /\ torn' = (torn \/ tail # << >>)
  /\ tail' = IF torn \/ tail # << >> THEN << >> ELSE << Head(pending) >>
  /\ UNCHANGED <<envVars, faults, starts, status, sessionVars, pending, garbled,
                 postgresVars, held>>

\* A slip the runs must notice: write!, which ends no line.
FileEndsNoLine ==
  /\ Sending("file") /\ half
  /\ Sent
  /\ half' = FALSE
  /\ UNCHANGED <<tail, torn, garbled, postgresVars, held>>

\* writeln!, the second write: the newline.
FileEndsLine ==
  /\ Sending("file") /\ half
  /\ Sent
  /\ half' = FALSE
  /\ tail' = << >>
  /\ torn' = FALSE
  /\ held' = IF torn THEN held ELSE Db!Effect(held, Head(tail))
  /\ garbled' = IF torn THEN garbled + 1 ELSE garbled
  /\ UNCHANGED postgresVars

\* A write fails, or the process is killed, with a part of the message written
\* or none, or without its newline.
FileFails ==
  /\ Sending("file")
  /\ TransientFault
  /\ Ends("sink")
  /\ \/ UNCHANGED <<tail, torn>>
     \/ ~ half /\ torn' = TRUE /\ tail' = << >>
  /\ UNCHANGED <<garbled, held, rows>>

ConsolePrints ==
  /\ Sending("console")
  /\ Sent
  /\ held' = Db!Effect(held, Head(pending))
  /\ UNCHANGED <<fileVars, postgresVars>>

\* println! panics when standard output is closed.
ConsoleFails ==
  /\ Sending("console")
  /\ TransientFault
  /\ Ends("panicked")
  /\ UNCHANGED Delivered

Full == Len(buffer \o pending) >= config.sink.batch

Batch == Db!Transaction(rows, buffer \o pending)

PostgresBuffers ==
  /\ Sending("postgres") /\ ~ Full
  /\ buffer' = buffer \o pending
  /\ pending' = << >>
  /\ UNCHANGED <<envVars, faults, starts, status, sessionVars, fileVars, rows, held>>

PostgresApplies ==
  /\ Sending("postgres") /\ Full
  /\ IF Batch.failed
     THEN Ends("rejected") /\ UNCHANGED rows
     ELSE /\ rows' = Batch.rows
          /\ buffer' = << >>
          /\ pending' = << >>
          /\ UNCHANGED <<envVars, starts, status, sessionVars, half>>
  /\ UNCHANGED <<faults, tail, torn, garbled, held>>

\* The connection is lost, or the process killed, before COMMIT takes effect or
\* before it is answered.
PostgresFails ==
  /\ Sending("postgres") /\ Full
  /\ TransientFault
  /\ Ends("sink")
  /\ rows' \in {rows} \cup (IF Batch.failed THEN {} ELSE {Batch.rows})
  /\ UNCHANGED <<held, tail, torn, garbled>>

SinkStep ==
  \/ KafkaAnswers \/ FileWrites \/ FileEndsLine \/ ConsolePrints
  \/ PostgresBuffers \/ PostgresApplies

Next ==
  \/ MineBlock \/ SwitchBranch
  \/ StartRefused \/ StartFails \/ StartPanics \/ Start
  \/ Poll \/ NextBlock \/ RedoBlock \/ Undo \/ UndoFails
  \/ SinkStep
  \/ KafkaFails \/ FileFails \/ ConsoleFails \/ PostgresFails
  \/ Shutdown \/ Fails

Spec == Init /\ [][Next]_vars

-----------------------------------------------------------------------------
(***************************************************************************)
(* Properties.                                                             *)
(***************************************************************************)
Statuses == {"new", "running", "refused", "failed", "shutdown", "sink", "rejected",
             "not_undone", "panicked"}

\* Every variable has its type, and nothing is under way in a session that ended.
TypeOK ==
  /\ chain \in Seq(Branch) /\ Tip <= MaxHeight /\ branch \in Branch
  /\ faults \in 0 .. MaxFaults /\ starts \in 0 .. MaxStarts
  /\ status \in Statuses
  /\ config \in Config
  /\ current \in Nat /\ left \in Nat
  /\ cdc \in [Height -> Branch \cup {NoBlock}]
  /\ cached \subseteq Height /\ \A k \in cached : cdc[k] # NoBlock
  /\ redo \in Seq(Height)
  /\ undone \in BOOLEAN
  /\ pending \in Seq(Db!Message) /\ buffer \in Seq(Db!Message)
  /\ status # "running" => pending = << >> /\ buffer = << >> /\ ~ half
  /\ rows \in [Db!Ids -> Db!Record]
  /\ held \in Db!Table
  /\ half \in BOOLEAN /\ torn \in BOOLEAN /\ garbled \in Nat
  /\ tail \in {<< >>} \cup {<< m >> : m \in Db!Message} /\ (torn => tail = << >>)

(***************************************************************************)
(* No configuration that validate accepts makes the Kafka sink panic,      *)
(* which chunks by a batch size that its constructor does not look at.     *)
(***************************************************************************)
KafkaNeverPanics == status = "panicked" => config.sink.type # "kafka"

\* What a reader of the topic, or of the file with its last line, holds.
Read ==
  IF tail = << >> THEN held ELSE Db!Effect(held, Head(tail))

(***************************************************************************)
(* A session that has caught up has repaired, from its starting height on, *)
(* whatever the sessions before left: a block half sent, one undone only   *)
(* in part, a message of unknown fate.  Left out are a session that has    *)
(* handled a reorg (NoHeightSkipped in Synchronizer), and a file with a    *)
(* garbled line, which can be the repairing message.                       *)
(***************************************************************************)
CaughtUp ==
  /\ Idle /\ redo = << >> /\ ~ undone /\ current >= Tip
  /\ \A k \in Height : config.start < k /\ k <= current => k <= Tip /\ cdc[k] = chain[k]

RestartRepairs ==
  CaughtUp /\ config.sink.type # "postgres" /\ garbled = 0 /\ ~ torn =>
    \A k \in Height, i \in 1 .. PerBlock :
      config.start < k /\ k <= Tip => Read[<<k, i>>] = chain[k]

(***************************************************************************)
(* A failure costs at most one line: lines and messages are in step again  *)
(* with the second message after it, although nothing in the code looks    *)
(* for an unfinished line.                                                 *)
(***************************************************************************)
OneLinePerFailure == garbled + (IF torn THEN 1 ELSE 0) <= faults

(***************************************************************************)
(* PostgreSQL refuses nothing of the first session, however its blocks are *)
(* cut into batches and whatever reorgs undo and redo.                     *)
(***************************************************************************)
FirstSessionAccepted == status = "rejected" => starts > 1

(***************************************************************************)
(* And what that rests on.  With the messages that are still pending, the  *)
(* database of a first session refuses nothing, and has a row of no height *)
(* but those in force: a reorg's Deletes empty all it undoes, whatever was *)
(* there, before a Create comes again.                                     *)
(***************************************************************************)
InForce(k) == k <= current /\ (redo # << >> => k < Head(redo))

RowsInForce ==
  /\ ~ Batch.failed
  /\ \A k \in Height, i \in 1 .. PerBlock :
       Batch.rows[Db!KeyId(<<k, i>>)] # NoBlock => InForce(k)

RedoInOrder ==
  redo # << >> =>
    \A i \in DOMAIN redo : redo[i] = Head(redo) + i - 1 /\ redo[i] < current

FirstToPostgres == status = "running" /\ starts <= 1 /\ config.sink.type = "postgres"

FirstSession ==
  /\ starts = 0 => status = "new" /\ rows = Db!NoRows
  /\ FirstSessionAccepted
  /\ RedoInOrder
  /\ FirstToPostgres => RowsInForce

(***************************************************************************)
(* The strengthening: a session has a valid configuration and is cut off   *)
(* cleanly; an unfinished line that is not being written is a failure's;   *)
(* and of an undisturbed session all but the end of the current block,     *)
(* which is still pending, has reached the reader.                         *)
(***************************************************************************)
SessionOK ==
  /\ config \in Config /\ Valid(config)
  /\ status # "running" => pending = << >> /\ ~ half
  /\ half => /\ pending # << >> /\ config.sink.type = "file"
             /\ torn \/ tail = << Head(pending) >>
  /\ tail # << >> => config.sink.type = "file"
  /\ status = "running" /\ ~ undone => redo = << >>

FailuresPaid ==
  /\ half \in BOOLEAN /\ torn \in BOOLEAN /\ garbled \in Nat /\ faults \in Nat
  /\ garbled + (IF torn \/ (tail # << >> /\ ~ half) THEN 1 ELSE 0) <= faults

\* How many messages of the current block are no longer pending; a block that
\* was passed over has none.
Done == PerBlock - Len(pending)

AlreadySent(k, i) ==
  /\ config.start < k /\ k <= current
  /\ k = current => i <= Done
  /\ cdc[k] # NoBlock

Shapes ==
  /\ chain \in Seq(Branch) /\ Tip <= MaxHeight /\ branch \in Branch
  /\ held = [key \in Key |-> held[key]]
  /\ cdc = [k \in Height |-> cdc[k]]

Underway ==
  status = "running" /\ ~ undone =>
    /\ current \in Nat /\ config.start <= current
    /\ pending # << >> => config.start < current /\ current \in Height
    /\ pending \in Seq(Db!Message) /\ Len(pending) <= PerBlock
    /\ \A i \in 1 .. Len(pending) : pending[i] = Block(current, cdc[current])[Done + i]
    /\ \A k \in Height : current < k => cdc[k] = NoBlock

Reached ==
  status = "running" /\ ~ undone /\ config.sink.type # "postgres" /\ garbled = 0
    /\ ~ torn =>
    \A k \in Height, i \in 1 .. PerBlock : AlreadySent(k, i) => Read[<<k, i>>] = cdc[k]

IInv ==
  /\ TypeOK /\ FirstSession
  /\ SessionOK /\ KafkaNeverPanics /\ FailuresPaid /\ Shapes /\ Underway /\ Reached

-----------------------------------------------------------------------------
(***************************************************************************)
(* docs/cdc-concepts.md:167-168: applying a message again "has the same    *)
(* effect as applying it once", messages "can be safely retried".  No      *)
(* session would have its messages refused because they were sent before.  *)
(***************************************************************************)
ResendAccepted == status # "rejected"

=============================================================================
