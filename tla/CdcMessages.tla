---------------------------- MODULE CdcMessages ----------------------------
(***************************************************************************)
(* CDC messages (debshrew-support/src/types.rs), their inverses            *)
(* (debshrew/src/runtime.rs) and what they mean to a consumer              *)
(* (docs/cdc-concepts.md): one table of records, by key.                   *)
(***************************************************************************)
EXTENDS Integers, Sequences, SequencesExt

CONSTANTS
  Key,      \* record keys
  Value,    \* record states
  None      \* no record: the None of `before` and `after`

ASSUME MessagesAssumption == None \notin Value

Operation == {"create", "update", "delete"}

Record == Value \cup {None}

Message == [operation : Operation, key : Key, before : Record, after : Record]

Table == [Key -> Record]

EmptyTable == [k \in Key |-> None]

\* Before and after as docs/cdc-concepts.md asks of each operation.
WellFormed(m) ==
  \/ m.operation = "create" /\ m.before = None /\ m.after # None
  \/ m.operation = "update" /\ m.before # None /\ m.after # None
  \/ m.operation = "delete" /\ m.before # None /\ m.after = None

\* A change of the table as it is: `before` is the record's state.
Fits(m, table) == WellFormed(m) /\ m.before = table[m.key]

\* The record after the change.
Effect(table, m) == [table EXCEPT ![m.key] = m.after]

Opposite(operation) ==
  CASE operation = "create" -> "delete"
    [] operation = "update" -> "update"
    [] operation = "delete" -> "create"

\* Slips the runs must notice: an update inverted to itself, a block's
\* messages inverted oldest first.
InverseOfUpdateOnly(m) ==
  [m EXCEPT !.operation = Opposite(m.operation),
            !.before = IF m.operation = "update" THEN m.before ELSE m.after,
            !.after = IF m.operation = "update" THEN m.after ELSE m.before]

\* invert_cdc_message: the inverse of a create has no `after`, that of a delete
\* no `before`, whatever the message had; the header is not about records.
InverseMessage(m) ==
  [m EXCEPT !.operation = Opposite(m.operation),
            !.before = IF m.operation = "delete" THEN None ELSE m.after,
            !.after = IF m.operation = "create" THEN None ELSE m.before]

InverseOldestFirst(messages) == [i \in DOMAIN messages |-> InverseMessage(messages[i])]

\* compute_inverse_messages: the last message of the block first.
InverseMessages(messages) ==
  [i \in DOMAIN messages |-> InverseMessage(messages[Len(messages) + 1 - i])]

\* The inverse messages of the blocks above a, newest block first.
InverseBlocks(blocks, a, top) ==
  LET down[k \in a .. top] ==
        IF k = a THEN << >> ELSE InverseMessages(blocks[k]) \o down[k - 1]
  IN down[top]

\* The table once all the messages have taken effect.
Replay(table, messages) ==
  LET after[i \in 0 .. Len(messages)] ==
        IF i = 0 THEN table ELSE Effect(after[i - 1], messages[i])
  IN after[Len(messages)]

\* Each message fits the records the earlier ones leave.
FitsAll(table, messages) ==
  \A i \in DOMAIN messages :
    Fits(messages[i], Replay(table, SubSeq(messages, 1, i - 1)))

=============================================================================
