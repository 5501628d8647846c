--------------------------- MODULE PostgresTables ---------------------------
(***************************************************************************)
(* What a batch of CDC messages does to a PostgreSQL database:             *)
(* PostgresSink::apply_messages (debshrew/src/sink/mod.rs), one            *)
(* transaction.  The database has one table whose primary key is `id`, and *)
(* `after` carries the record's key in its field `id`.                     *)
(***************************************************************************)
EXTENDS CdcMessages

CONSTANT TextKeys  \* the keys whose `id` is a JSON string, not a number

ASSUME TablesAssumption == TextKeys \subseteq Key

\* The id a message's key denotes in WHERE id = $n: the key itself.
KeyId(k) == <<"plain", k>>

\* The id INSERT and SET store: after["id"].to_string(), which keeps the
\* quotes of a JSON string.
StoredId(k) == IF k \in TextKeys THEN <<"quoted", k>> ELSE <<"plain", k>>

Ids == {"plain", "quoted"} \X Key

NoRows == [id \in Ids |-> None]

\* What a transaction has come to: rows, and whether a statement failed.
Begin(table) == [rows |-> table, failed |-> FALSE]

Abort(tx) == [tx EXCEPT !.failed = TRUE]

\* INSERT of an id that exists fails; a record is what `after` says.
Insert(tx, m) ==
  IF tx.rows[StoredId(m.key)] # None THEN Abort(tx)
  ELSE [tx EXCEPT !.rows[StoredId(m.key)] = m.after]

\* UPDATE .. WHERE id = key sets every field, the id included.
Update(tx, m) ==
  IF tx.rows[KeyId(m.key)] = None THEN tx
  ELSE [tx EXCEPT !.rows = [@ EXCEPT ![KeyId(m.key)] = None,
                                     ![StoredId(m.key)] = m.after]]

Delete(tx, m) == [tx EXCEPT !.rows[KeyId(m.key)] = None]

Execute(tx, m) ==
  CASE tx.failed                                   -> tx
    [] m.operation = "create" /\ m.after = None    -> tx
    [] m.operation = "create" /\ m.after # None    -> Insert(tx, m)
    [] m.operation = "update" /\ m.after = None    -> tx
    [] m.operation = "update" /\ m.after # None    -> Update(tx, m)
    [] m.operation = "delete"                      -> Delete(tx, m)

\* The statements one after the other, behind those tx has come to; after a
\* failure nothing else happens.
ExecuteAll(tx, messages) ==
  LET after[i \in 0 .. Len(messages)] ==
        IF i = 0 THEN tx ELSE Execute(after[i - 1], messages[i])
  IN after[Len(messages)]

Transaction(table, messages) == ExecuteAll(Begin(table), messages)

\* UPDATE and DELETE look for the key as it is: the row of an id that was stored
\* with quotes they do not find.
Addressed(m) == m.operation = "create" \/ m.key \notin TextKeys

\* The rows hold exactly the records of a table, each where INSERT puts it.
Holds(dbRows, table) ==
  \A k \in Key : \A id \in {KeyId(k), <<"quoted", k>>} :
    dbRows[id] = IF id = StoredId(k) THEN table[k] ELSE None

=============================================================================
