------------------------- MODULE PostgresTableProofs -------------------------
(***************************************************************************)
(* Facts about a transaction of PostgresSink::apply_messages, for batches  *)
(* of any length.                                                          *)
(***************************************************************************)
EXTENDS PostgresTables, CdcMessageProofs

Transactions == [rows : [Ids -> Record], failed : BOOLEAN]

\* f has what the transaction has come to before and after each message, tx
\* being where it starts from.
TransactionsOf(f, tx, ms) ==
  /\ f \in [0 .. Len(ms) -> Transactions]
  /\ f[0] = tx
  /\ \A i \in 1 .. Len(ms) : f[i] = Execute(f[i - 1], ms[i])

(***************************************************************************)
(* A transaction begins with the rows as they are.                         *)
(***************************************************************************)
LEMMA BeginType ==
  ASSUME NEW table \in [Ids -> Record]
  PROVE  Begin(table) \in Transactions
BY DEF Begin, Transactions

(***************************************************************************)
(* A message's id is an id of the table, quoted or not.                    *)
(***************************************************************************)
LEMMA IdsOfKeys ==
  ASSUME NEW k \in Key
  PROVE  KeyId(k) \in Ids /\ StoredId(k) \in Ids
BY DEF KeyId, StoredId, Ids

(***************************************************************************)
(* One statement leaves rows of records, and says whether it failed.       *)
(***************************************************************************)
LEMMA ExecuteType ==
  ASSUME NEW tx \in Transactions, NEW m \in Message
  PROVE  Execute(tx, m) \in Transactions
<1>1. m.key \in Key /\ m.after \in Record /\ m.operation \in Operation
  BY DEF Message
<1>2. KeyId(m.key) \in Ids /\ StoredId(m.key) \in Ids
  BY <1>1, IdsOfKeys
<1>3. None \in Record
  BY DEF Record
<1>4. Insert(tx, m) \in Transactions
  BY <1>1, <1>2 DEF Insert, Abort, Transactions
<1>5. Update(tx, m) \in Transactions
  BY <1>1, <1>2, <1>3 DEF Update, Transactions
<1>6. Delete(tx, m) \in Transactions
  BY <1>1, <1>2, <1>3 DEF Delete, Transactions
<1>7. m.operation \in {"create", "update", "delete"}
  BY <1>1 DEF Operation
<1> QED BY <1>4, <1>5, <1>6, <1>7 DEF Execute

(***************************************************************************)
(* A transaction goes from state to state, one message at a time.          *)
(***************************************************************************)
LEMMA TransactionStages ==
  ASSUME NEW base \in Transactions, NEW ms \in Seq(Message)
  PROVE  \E f : /\ TransactionsOf(f, base, ms)
                /\ ExecuteAll(base, ms) = f[Len(ms)]
<1> DEFINE n == Len(ms)
           step == [i \in 1 .. n |-> [tx \in Transactions |-> Execute(tx, ms[i])]]
           Defines(f) == f = [i \in 0 .. n |-> IF i = 0 THEN base
                                               ELSE Execute(f[i - 1], ms[i])]
           done == CHOOSE f : Defines(f)
<1>1. n \in Nat
  OBVIOUS
<1>2. step \in [1 .. n -> [Transactions -> Transactions]]
  <2>1. ASSUME NEW i \in 1 .. n, NEW tx \in Transactions
        PROVE  Execute(tx, ms[i]) \in Transactions
    <3>1. ms[i] \in Message
      OBVIOUS
    <3> QED BY <3>1, ExecuteType
  <2> QED BY <2>1
<1>4. PICK f : f \in Stages(n, Transactions, base, step)
  <2> HIDE DEF n, step
  <2> QED BY <1>1, <1>2, StagesExist, Zenon
<1>5. Defines(f)
  <2>1. /\ f \in [0 .. n -> Transactions] /\ f[0] = base
        /\ \A i \in 1 .. n : f[i] = step[i][f[i - 1]]
    <3> HIDE DEF n, step
    <3> QED BY <1>4 DEF Stages
  <2>2. ASSUME NEW i \in 1 .. n PROVE f[i] = Execute(f[i - 1], ms[i])
    <3>1. i - 1 \in 0 .. n
      BY <1>1
    <3>2. f[i - 1] \in Transactions
      BY <2>1, <3>1
    <3>3. step[i] = [tx \in Transactions |-> Execute(tx, ms[i])]
      OBVIOUS
    <3> HIDE DEF step
    <3> QED BY <2>1, <3>2, <3>3
  <2>3. f = [i \in 0 .. n |-> f[i]]
    BY <2>1
  <2> HIDE DEF n
  <2>4. \A i \in 0 .. n :
          f[i] = IF i = 0 THEN base ELSE Execute(f[i - 1], ms[i])
    BY <1>1, <2>1, <2>2
  <2> QED BY <2>3, <2>4, Zenon
<1>6. Defines(done)
  <2> HIDE DEF Defines
  <2> QED BY <1>5, Zenon
<1>7. ExecuteAll(base, ms) = done[n]
  BY Zenon DEF ExecuteAll
<1> HIDE DEF done
<1>8. done[0] = base
  BY <1>1, <1>6
<1>9. \A i \in 1 .. n : done[i] = Execute(done[i - 1], ms[i])
  BY <1>1, <1>6
<1>10. done \in [0 .. n -> Transactions]
  <2> DEFINE S == {i \in 0 .. n : done[i] \in Transactions}
  <2>1. 0 \in S
    BY <1>1, <1>8
  <2>2. ASSUME NEW i \in 0 .. n - 1, i \in S PROVE i + 1 \in S
    <3>1. i + 1 \in 1 .. n /\ i + 1 \in 0 .. n /\ (i + 1) - 1 = i
      BY <1>1
    <3>2. done[i + 1] = Execute(done[i], ms[i + 1])
      BY <1>9, <3>1
    <3>3. ms[i + 1] \in Message
      BY <3>1
    <3> QED BY <2>2, <3>1, <3>2, <3>3, ExecuteType
  <2>3. 0 .. n \subseteq S
    <3> HIDE DEF S, n
    <3> QED BY <1>1, <2>1, <2>2, SetInduction
  <2>4. \A i \in 0 .. n : done[i] \in Transactions
    BY <2>3
  <2>5. DOMAIN done = 0 .. n /\ done = [i \in 0 .. n |-> done[i]]
    BY <1>6
  <2> HIDE DEF n
  <2> QED BY <2>4, <2>5
<1>11. TransactionsOf(done, base, ms)
  BY <1>8, <1>9, <1>10 DEF TransactionsOf
<1> QED BY <1>7, <1>11, Zenon

(***************************************************************************)
(* A transaction's outcome is rows of records, or the failure.             *)
(***************************************************************************)
LEMMA ExecuteAllType ==
  ASSUME NEW base \in Transactions, NEW ms \in Seq(Message)
  PROVE  ExecuteAll(base, ms) \in Transactions
<1>1. PICK f : TransactionsOf(f, base, ms) /\ ExecuteAll(base, ms) = f[Len(ms)]
  BY TransactionStages, Zenon
<1>2. Len(ms) \in 0 .. Len(ms)
  OBVIOUS
<1> QED BY <1>1, <1>2 DEF TransactionsOf

LEMMA TransactionType ==
  ASSUME NEW table \in [Ids -> Record], NEW ms \in Seq(Message)
  PROVE  /\ Transaction(table, ms) \in Transactions
         /\ Transaction(table, ms).rows \in [Ids -> Record]
         /\ Transaction(table, ms).failed \in BOOLEAN
<1>1. Transaction(table, ms) \in Transactions
  BY BeginType, ExecuteAllType DEF Transaction
<1> QED BY <1>1 DEF Transactions

(***************************************************************************)
(* The statement for a message that fits the records, and whose row it     *)
(* finds, does to the rows what the message does to the records.           *)
(***************************************************************************)
LEMMA ExecuteFits ==
  ASSUME NEW tx \in Transactions, NEW t \in Table, NEW m \in Message,
         ~ tx.failed, Holds(tx.rows, t), Fits(m, t), Addressed(m)
  PROVE  ~ Execute(tx, m).failed /\ Holds(Execute(tx, m).rows, Effect(t, m))
<1> DEFINE k == m.key
<1>0. PICK id : id = StoredId(k)
  OBVIOUS
<1>1. k \in Key /\ m.after \in Record /\ None \in Record /\ tx.rows \in [Ids -> Record]
  BY DEF Message, Record, Transactions
<1>2. /\ id \in Ids
      /\ m.operation # "create" => KeyId(k) = id
  BY <1>0, <1>1, IdsOfKeys DEF Addressed, KeyId, StoredId
<1>3. tx.rows[id] = t[k]
  BY <1>0, <1>1 DEF Holds, StoredId, KeyId
<1>4. WellFormed(m) /\ m.before = t[k]
  BY DEF Fits
<1>6. ASSUME NEW new, new.rows = [tx.rows EXCEPT ![id] = m.after]
      PROVE  Holds(new.rows, Effect(t, m))
  <2> SUFFICES ASSUME NEW j \in Key, NEW i \in {KeyId(j), <<"quoted", j>>}
               PROVE  new.rows[i] = IF i = StoredId(j) THEN Effect(t, m)[j] ELSE None
    BY DEF Holds
  <2>1. Effect(t, m)[j] = IF j = k THEN m.after ELSE t[j]
    BY <1>1 DEF Effect, Table
  <2>2. i \in Ids /\ tx.rows[i] = IF i = StoredId(j) THEN t[j] ELSE None
    <3>1. i \in Ids
      BY DEF Ids, KeyId
    <3> QED BY <3>1 DEF Holds
  <2>3. new.rows[i] = IF i = id THEN m.after ELSE tx.rows[i]
    BY <1>1, <1>2, <1>6, <2>2
  <2>4. i = id <=> i = StoredId(j) /\ j = k
    BY <1>0 DEF StoredId, KeyId
  <2> QED BY <2>1, <2>2, <2>3, <2>4
<1>7. CASE m.operation = "create"
  <2>1. tx.rows[id] = None /\ m.after # None
    BY <1>3, <1>4, <1>7 DEF WellFormed
  <2>2. Execute(tx, m) = [tx EXCEPT !.rows[id] = m.after]
    BY <1>0, <1>7, <2>1 DEF Execute, Insert
  <2>3. Execute(tx, m).rows = [tx.rows EXCEPT ![id] = m.after]
        /\ Execute(tx, m).failed = tx.failed
    BY <2>2 DEF Transactions
  <2> QED BY <1>6, <2>3
<1>8. CASE m.operation = "update"
  <2>1. tx.rows[id] # None /\ m.after # None
    BY <1>3, <1>4, <1>8 DEF WellFormed
  <2>2. Execute(tx, m)
        = [tx EXCEPT !.rows = [@ EXCEPT ![id] = None, ![id] = m.after]]
    BY <1>0, <1>2, <1>8, <2>1 DEF Execute, Update
  <2>3. Execute(tx, m).rows = [tx.rows EXCEPT ![id] = m.after]
        /\ Execute(tx, m).failed = tx.failed
    BY <1>1, <1>2, <2>2 DEF Transactions
  <2> QED BY <1>6, <2>3
<1>9. CASE m.operation = "delete"
  <2>1. m.after = None
    BY <1>4, <1>9 DEF WellFormed
  <2>2. Execute(tx, m) = [tx EXCEPT !.rows[id] = m.after]
    BY <1>2, <1>9, <2>1 DEF Execute, Delete
  <2>3. Execute(tx, m).rows = [tx.rows EXCEPT ![id] = m.after]
        /\ Execute(tx, m).failed = tx.failed
    BY <2>2 DEF Transactions
  <2> QED BY <1>6, <2>3
<1> QED BY <1>4, <1>7, <1>8, <1>9 DEF WellFormed

(***************************************************************************)
(* Messages that fit the records and find their rows are all executed, and *)
(* the rows come to be what the messages make of the records.              *)
(***************************************************************************)
THEOREM TransactionReplays ==
  ASSUME NEW base \in Transactions, NEW t \in Table, NEW ms \in Seq(Message),
         ~ base.failed, Holds(base.rows, t), FitsAll(t, ms),
         \A i \in 1 .. Len(ms) : Addressed(ms[i])
  PROVE  /\ ~ ExecuteAll(base, ms).failed
         /\ Holds(ExecuteAll(base, ms).rows, Replay(t, ms))
<1> DEFINE n == Len(ms)
<1>1. n \in Nat
  OBVIOUS
<1>2. PICK f : TablesOf(f, t, ms) /\ Replay(t, ms) = f[Len(ms)]
  BY ReplayStages, Zenon
<1>3. PICK x : TransactionsOf(x, base, ms) /\ ExecuteAll(base, ms) = x[Len(ms)]
  BY TransactionStages, Zenon
<1>4. \A i \in 1 .. n : Fits(ms[i], f[i - 1])
  BY <1>2, FitsStages
<1> DEFINE S == {i \in 0 .. n : ~ x[i].failed /\ Holds(x[i].rows, f[i])}
<1>5. 0 \in S
  BY <1>2, <1>3 DEF TablesOf, TransactionsOf
<1>6. ASSUME NEW i \in 0 .. n - 1, i \in S PROVE i + 1 \in S
  <2>1. i + 1 \in 1 .. n /\ i \in 0 .. n /\ i + 1 \in 0 .. n /\ (i + 1) - 1 = i
    BY <1>1
  <2>2. x[i + 1] = Execute(x[i], ms[i + 1]) /\ x[i] \in Transactions
    BY <1>3, <2>1 DEF TransactionsOf
  <2>3. f[i + 1] = Effect(f[i], ms[i + 1]) /\ f[i] \in Table
    BY <1>2, <2>1 DEF TablesOf
  <2>4. ms[i + 1] \in Message /\ Fits(ms[i + 1], f[i]) /\ Addressed(ms[i + 1])
    BY <1>4, <2>1
  <2>5. ~ x[i].failed /\ Holds(x[i].rows, f[i])
    BY <1>6
  <2>6. /\ ~ Execute(x[i], ms[i + 1]).failed
        /\ Holds(Execute(x[i], ms[i + 1]).rows, Effect(f[i], ms[i + 1]))
    BY <2>2, <2>3, <2>4, <2>5, ExecuteFits
  <2> QED BY <2>1, <2>2, <2>3, <2>6
<1>7. n \in S
  <2> HIDE DEF S, n
  <2>1. 0 .. n \subseteq S
    BY <1>1, <1>5, <1>6, SetInduction
  <2> QED BY <1>1, <2>1
<1> QED BY <1>2, <1>3, <1>7

(***************************************************************************)
(* The stages are no others than the ones the transaction goes through.    *)
(***************************************************************************)
LEMMA TransactionUnique ==
  ASSUME NEW base \in Transactions, NEW ms \in Seq(Message),
         NEW f, TransactionsOf(f, base, ms)
  PROVE  ExecuteAll(base, ms) = f[Len(ms)]
<1> DEFINE n == Len(ms)
           S == {i \in 0 .. n : \A g : TransactionsOf(g, base, ms) => g[i] = f[i]}
<1>1. n \in Nat
  OBVIOUS
<1>2. 0 \in S
  BY DEF TransactionsOf
<1>3. ASSUME NEW i \in 0 .. n - 1, i \in S PROVE i + 1 \in S
  <2>1. i + 1 \in 1 .. n /\ i + 1 \in 0 .. n /\ (i + 1) - 1 = i
    BY <1>1
  <2>2. ASSUME NEW g, TransactionsOf(g, base, ms) PROVE g[i + 1] = f[i + 1]
    <3>1. g[i + 1] = Execute(g[i], ms[i + 1])
      BY <2>1, <2>2 DEF TransactionsOf
    <3>2. f[i + 1] = Execute(f[i], ms[i + 1])
      BY <2>1 DEF TransactionsOf
    <3>3. g[i] = f[i]
      BY <1>3, <2>2
    <3> QED BY <3>1, <3>2, <3>3
  <2> QED BY <2>1, <2>2
<1>4. n \in S
  <2> HIDE DEF S, n
  <2>1. 0 .. n \subseteq S
    BY <1>1, <1>2, <1>3, SetInduction
  <2> QED BY <1>1, <2>1
<1>5. PICK g : /\ TransactionsOf(g, base, ms)
               /\ ExecuteAll(base, ms) = g[Len(ms)]
  BY TransactionStages, Zenon
<1>6. g[n] = f[n]
  BY <1>4, <1>5
<1> QED BY <1>5, <1>6

(***************************************************************************)
(* No message changes nothing.                                             *)
(***************************************************************************)
LEMMA ExecuteAllEmpty ==
  ASSUME NEW base \in Transactions
  PROVE  ExecuteAll(base, << >>) = base
<1>1. << >> \in Seq(Message) /\ Len(<< >>) = 0
  OBVIOUS
<1>2. PICK f : /\ TransactionsOf(f, base, << >>)
               /\ ExecuteAll(base, << >>) = f[Len(<< >>)]
  BY <1>1, TransactionStages, Zenon
<1> QED BY <1>1, <1>2 DEF TransactionsOf

LEMMA TransactionEmpty ==
  ASSUME NEW table \in [Ids -> Record]
  PROVE  Transaction(table, << >>) = Begin(table)
BY BeginType, ExecuteAllEmpty DEF Transaction

(***************************************************************************)
(* Messages behind others start from what the others came to: it makes no  *)
(* difference where a sequence is cut.                                     *)
(***************************************************************************)
LEMMA ExecuteAllConcat ==
  ASSUME NEW base \in Transactions, NEW a \in Seq(Message), NEW b \in Seq(Message)
  PROVE  /\ a \o b \in Seq(Message)
         /\ ExecuteAll(base, a \o b) = ExecuteAll(ExecuteAll(base, a), b)
<1> DEFINE la == Len(a)
           lb == Len(b)
           mid == ExecuteAll(base, a)
           all == a \o b
<1>1. la \in Nat /\ lb \in Nat
  OBVIOUS
<1>2. /\ all \in Seq(Message) /\ Len(all) = la + lb
      /\ \A i \in 1 .. la : all[i] = a[i]
      /\ \A i \in 1 .. lb : all[la + i] = b[i]
  OBVIOUS
<1>3. PICK f : TransactionsOf(f, base, a) /\ mid = f[Len(a)]
  BY TransactionStages, Zenon
<1>4. mid \in Transactions
  BY ExecuteAllType
<1>6. PICK g : TransactionsOf(g, mid, b) /\ ExecuteAll(mid, b) = g[Len(b)]
  <2> HIDE DEF mid
  <2> QED BY <1>4, TransactionStages, Zenon
<1>7. /\ f \in [0 .. la -> Transactions] /\ f[0] = base
      /\ \A i \in 1 .. la : f[i] = Execute(f[i - 1], a[i])
      /\ g \in [0 .. lb -> Transactions] /\ g[0] = f[la]
      /\ \A i \in 1 .. lb : g[i] = Execute(g[i - 1], b[i])
  <2> HIDE DEF mid
  <2> QED BY <1>3, <1>6 DEF TransactionsOf
<1> DEFINE h == [i \in 0 .. la + lb |-> IF i <= la THEN f[i] ELSE g[i - la]]
<1>8. \A i \in 0 .. la : h[i] = f[i]
  BY <1>1
<1>9. \A i \in 0 .. lb : h[la + i] = g[i]
  <2> HIDE DEF la, lb
  <2> SUFFICES ASSUME NEW i \in 0 .. lb PROVE h[la + i] = g[i]
    OBVIOUS
  <2>1. CASE i = 0
    BY <1>1, <1>7, <1>8, <2>1
  <2>2. CASE i > 0
    BY <1>1, <2>2
  <2> QED BY <1>1, <2>1, <2>2
<1>10. ASSUME NEW i \in 0 .. la + lb
       PROVE  \/ i \in 0 .. la
              \/ i - la \in 0 .. lb /\ la + (i - la) = i
  BY <1>1
<1>11. h \in [0 .. la + lb -> Transactions]
  <2>1. ASSUME NEW i \in 0 .. la + lb PROVE h[i] \in Transactions
    <3> HIDE DEF h, la, lb
    <3>1. CASE i \in 0 .. la
      BY <1>7, <1>8, <3>1
    <3>2. CASE i - la \in 0 .. lb /\ la + (i - la) = i
      <4>1. h[i] = g[i - la]
        BY <1>9, <3>2
      <4> QED BY <1>7, <3>2, <4>1
    <3> QED BY <1>10, <3>1, <3>2
  <2> HIDE DEF la, lb
  <2>2. h = [i \in 0 .. la + lb |-> h[i]]
    OBVIOUS
  <2> HIDE DEF h
  <2> QED BY <2>1, <2>2
<1>12. ASSUME NEW i \in 1 .. la + lb PROVE h[i] = Execute(h[i - 1], all[i])
  <2> HIDE DEF h, la, lb, all
  <2>1. CASE i <= la
    <3>1. i \in 1 .. la /\ i \in 0 .. la /\ i - 1 \in 0 .. la
      BY <1>1, <2>1
    <3> QED BY <1>2, <1>7, <1>8, <3>1
  <2>2. CASE i > la
    <3> DEFINE j == i - la
    <3>1. /\ j \in 1 .. lb /\ j \in 0 .. lb /\ j - 1 \in 0 .. lb
          /\ la + j = i /\ la + (j - 1) = i - 1
      BY <1>1, <2>2
    <3> HIDE DEF j
    <3>2. h[i] = g[j] /\ h[i - 1] = g[j - 1] /\ all[i] = b[j]
      BY <1>2, <1>9, <3>1
    <3> QED BY <1>7, <3>1, <3>2
  <2> QED BY <1>1, <2>1, <2>2
<1>13. h[0] = base /\ h[la + lb] = g[lb]
  <2>1. 0 \in 0 .. la /\ lb \in 0 .. lb
    BY <1>1
  <2> HIDE DEF h, la, lb
  <2> QED BY <1>7, <1>8, <1>9, <2>1
<1>14. TransactionsOf(h, base, all)
  <2> HIDE DEF h, la, lb, all
  <2> QED BY <1>2, <1>11, <1>12, <1>13 DEF TransactionsOf
<1>15. ExecuteAll(base, all) = h[Len(all)]
  <2> HIDE DEF h, all
  <2> QED BY <1>2, <1>14, TransactionUnique
<1>16. ExecuteAll(base, all) = g[lb]
  <2> HIDE DEF h, all, la, lb
  <2> QED BY <1>2, <1>13, <1>15
<1> QED BY <1>2, <1>6, <1>16

(***************************************************************************)
(* Messages behind messages that were accepted are executed as if the      *)
(* earlier had been a transaction of their own: where the sink cuts its    *)
(* batches makes no difference to what is accepted.                        *)
(***************************************************************************)
LEMMA TransactionConcat ==
  ASSUME NEW table \in [Ids -> Record], NEW a \in Seq(Message), NEW b \in Seq(Message),
         ~ Transaction(table, a).failed
  PROVE  /\ a \o b \in Seq(Message)
         /\ Transaction(table, a \o b) = Transaction(Transaction(table, a).rows, b)
<1>1. Begin(table) \in Transactions
  BY BeginType
<1>2. Begin(Transaction(table, a).rows) = Transaction(table, a)
  BY TransactionType DEF Begin, Transactions
<1>3. /\ a \o b \in Seq(Message)
      /\ Transaction(table, a \o b) = ExecuteAll(Transaction(table, a), b)
  BY <1>1, ExecuteAllConcat DEF Transaction
<1> QED BY <1>2, <1>3 DEF Transaction

(***************************************************************************)
(* Creates of records that have no row, each of its own key, are accepted, *)
(* and no other row comes to be.                                           *)
(***************************************************************************)
LEMMA CreatesAccepted ==
  ASSUME TextKeys = {}, NEW table \in [Ids -> Record], NEW ms \in Seq(Message),
         \A i \in 1 .. Len(ms) :
           /\ ms[i].operation = "create" /\ ms[i].after # None
           /\ table[KeyId(ms[i].key)] = None
         , \A i, j \in 1 .. Len(ms) : i # j => ms[i].key # ms[j].key
  PROVE  /\ ~ Transaction(table, ms).failed
         /\ \A id \in Ids : Transaction(table, ms).rows[id] # None =>
              table[id] # None \/ \E i \in 1 .. Len(ms) : id = KeyId(ms[i].key)
<1> DEFINE n == Len(ms)
<1>1. n \in Nat
  OBVIOUS
<1>2. PICK x : TransactionsOf(x, Begin(table), ms) /\ Transaction(table, ms) = x[Len(ms)]
  <2>1. Begin(table) \in Transactions
    BY BeginType
  <2> HIDE DEF n
  <2> QED BY <2>1, TransactionStages DEF Transaction
<1>3. /\ x \in [0 .. n -> Transactions] /\ x[0] = Begin(table)
      /\ \A i \in 1 .. n : x[i] = Execute(x[i - 1], ms[i])
  BY <1>2 DEF TransactionsOf
<1> DEFINE Accepted(i) ==
             /\ ~ x[i].failed
             /\ \A id \in Ids : x[i].rows[id] # None =>
                  table[id] # None \/ \E j \in 1 .. i : id = KeyId(ms[j].key)
           S == {i \in 0 .. n : Accepted(i)}
<1>4. 0 \in S
  BY <1>1, <1>3 DEF Begin
<1>5. ASSUME NEW i \in 0 .. n - 1, i \in S PROVE i + 1 \in S
  <2> DEFINE m == ms[i + 1]
  <2>1. /\ i + 1 \in 1 .. n /\ i + 1 \in 0 .. n /\ i \in 0 .. n
        /\ (i + 1) - 1 = i /\ 1 .. i \subseteq 1 .. n /\ i + 1 \notin 1 .. i
        /\ 1 .. i + 1 = (1 .. i) \cup {i + 1}
    BY <1>1
  <2>2. Accepted(i)
    BY <1>5
  <2>3. m \in Message /\ m.operation = "create" /\ m.after # None
        /\ table[KeyId(m.key)] = None
    BY <2>1
  <2>4. x[i + 1] = Execute(x[i], m) /\ x[i] \in Transactions
    BY <1>3, <2>1
  <2>5. m.key \in Key /\ StoredId(m.key) = KeyId(m.key) /\ KeyId(m.key) \in Ids
    BY <2>3 DEF Message, StoredId, KeyId, Ids
  <2>6. \A j \in 1 .. i : KeyId(m.key) # KeyId(ms[j].key)
    <3>1. \A j \in 1 .. i : m.key # ms[j].key
      BY <2>1
    <3> QED BY <3>1 DEF KeyId
  <2> HIDE DEF m, n
  <2>7. x[i].rows[KeyId(m.key)] = None
    BY <2>2, <2>3, <2>5, <2>6
  <2>8. x[i + 1] = [x[i] EXCEPT !.rows[KeyId(m.key)] = m.after]
    BY <2>2, <2>3, <2>4, <2>5, <2>7 DEF Execute, Insert
  <2>9. ~ x[i + 1].failed
        /\ x[i + 1].rows = [x[i].rows EXCEPT ![KeyId(m.key)] = m.after]
        /\ x[i].rows \in [Ids -> Record]
    BY <2>2, <2>4, <2>8 DEF Transactions
  <2>10. ASSUME NEW id \in Ids, x[i + 1].rows[id] # None, id # KeyId(m.key)
         PROVE  table[id] # None \/ \E j \in 1 .. i : id = KeyId(ms[j].key)
    BY <2>2, <2>9, <2>10
  <2>11. Accepted(i + 1)
    BY <2>1, <2>9, <2>10 DEF m
  <2> HIDE DEF Accepted
  <2> QED BY <2>1, <2>11
<1>6. n \in S
  <2> HIDE DEF S, n
  <2>1. 0 .. n \subseteq S
    BY <1>1, <1>4, <1>5, SetInduction
  <2> QED BY <1>1, <2>1
<1> QED BY <1>2, <1>6

(***************************************************************************)
(* Deletes are accepted whatever the rows are, and leave none of theirs.   *)
(***************************************************************************)
LEMMA DeletesAccepted ==
  ASSUME NEW table \in [Ids -> Record], NEW ms \in Seq(Message),
         \A i \in 1 .. Len(ms) : ms[i].operation = "delete"
  PROVE  /\ ~ Transaction(table, ms).failed
         /\ \A id \in Ids : Transaction(table, ms).rows[id] # None =>
              table[id] # None /\ \A i \in 1 .. Len(ms) : id # KeyId(ms[i].key)
<1> DEFINE n == Len(ms)
<1>1. n \in Nat
  OBVIOUS
<1>2. PICK x : TransactionsOf(x, Begin(table), ms) /\ Transaction(table, ms) = x[Len(ms)]
  <2>1. Begin(table) \in Transactions
    BY BeginType
  <2> HIDE DEF n
  <2> QED BY <2>1, TransactionStages DEF Transaction
<1>3. /\ x \in [0 .. n -> Transactions] /\ x[0] = Begin(table)
      /\ \A i \in 1 .. n : x[i] = Execute(x[i - 1], ms[i])
  BY <1>2 DEF TransactionsOf
<1> DEFINE Accepted(i) ==
             /\ ~ x[i].failed
             /\ \A id \in Ids : x[i].rows[id] # None =>
                  table[id] # None /\ \A j \in 1 .. i : id # KeyId(ms[j].key)
           S == {i \in 0 .. n : Accepted(i)}
<1>4. 0 \in S
  BY <1>1, <1>3 DEF Begin
<1>5. ASSUME NEW i \in 0 .. n - 1, i \in S PROVE i + 1 \in S
  <2> DEFINE m == ms[i + 1]
  <2>1. /\ i + 1 \in 1 .. n /\ i + 1 \in 0 .. n /\ i \in 0 .. n
        /\ (i + 1) - 1 = i
        /\ 1 .. i + 1 = (1 .. i) \cup {i + 1}
    BY <1>1
  <2>2. Accepted(i)
    BY <1>5
  <2>3. m \in Message /\ m.operation = "delete"
    BY <2>1
  <2>4. x[i + 1] = Execute(x[i], m) /\ x[i] \in Transactions
    BY <1>3, <2>1
  <2>5. KeyId(m.key) \in Ids
    BY <2>3 DEF Message, KeyId, Ids
  <2> HIDE DEF m, n
  <2>6. x[i + 1] = [x[i] EXCEPT !.rows[KeyId(m.key)] = None]
    BY <2>2, <2>3, <2>4 DEF Execute, Delete
  <2>7. ~ x[i + 1].failed
        /\ x[i + 1].rows = [x[i].rows EXCEPT ![KeyId(m.key)] = None]
        /\ x[i].rows \in [Ids -> Record]
    BY <2>2, <2>4, <2>6 DEF Transactions
  <2>8. ASSUME NEW id \in Ids, x[i + 1].rows[id] # None
        PROVE  id # KeyId(m.key) /\ x[i].rows[id] # None
    BY <2>5, <2>7, <2>8
  <2>9. Accepted(i + 1)
    BY <2>1, <2>2, <2>7, <2>8 DEF m
  <2> HIDE DEF Accepted
  <2> QED BY <2>1, <2>9
<1>6. n \in S
  <2> HIDE DEF S, n
  <2>1. 0 .. n \subseteq S
    BY <1>1, <1>4, <1>5, SetInduction
  <2> QED BY <1>1, <2>1
<1> QED BY <1>2, <1>6

=============================================================================
