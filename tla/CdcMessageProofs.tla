------------------------- MODULE CdcMessageProofs -------------------------
(***************************************************************************)
(* Facts about CDC messages and their inverses, for every set of keys and  *)
(* of record states and for blocks of any length.                          *)
(*                                                                         *)
(* The library's induction theorems take the induction hypothesis as an    *)
(* operator; its WFMin is about sets, and SetInduction below is induction  *)
(* for the set of the numbers a fact holds of.  What a recursive function  *)
(* is follows from it: StagesExist.                                        *)
(***************************************************************************)
EXTENDS CdcMessages, WellFoundedInduction, TLAPS

-----------------------------------------------------------------------------
(***************************************************************************)
(* Induction.                                                              *)
(***************************************************************************)

(***************************************************************************)
(* A set that has 0, and i + 1 whenever it has i < n, has 0 .. n: a least  *)
(* number missing would be the successor of one that is there.             *)
(***************************************************************************)
LEMMA SetInduction ==
  ASSUME NEW n \in Nat, NEW S, 0 \in S,
         \A i \in 0 .. n - 1 : i \in S => i + 1 \in S
  PROVE  0 .. n \subseteq S
<1> DEFINE R == {p \in Nat \X Nat : p[1] < p[2]}
           T == {i \in Nat : i <= n /\ i \notin S}
<1>1. SUFFICES ASSUME T # {} PROVE FALSE
  OBVIOUS
<1>2. IsWellFoundedOn(R, Nat)
  BY NatLessThanWellFounded DEF OpToRel
<1>3. PICK x \in T : \A y \in T : ~ (<<y, x>> \in R)
  <2> HIDE DEF R
  <2>1. T \subseteq Nat
    OBVIOUS
  <2> HIDE DEF T
  <2> QED BY <1>1, <1>2, <2>1, WFMin, Zenon
<1>4. x \in Nat /\ x <= n /\ x \notin S
  OBVIOUS
<1>5. x # 0
  BY <1>4
<1>6. x - 1 \in Nat /\ x - 1 < x /\ x - 1 \in 0 .. n - 1
  BY <1>4, <1>5
<1>7. x - 1 \notin S
  BY <1>4, <1>6
<1>8. x - 1 \in T
  BY <1>4, <1>6, <1>7
<1>9. <<x - 1, x>> \in R
  BY <1>4, <1>6
<1> QED BY <1>3, <1>8, <1>9

\* The values after 0, 1, .. n steps from base, step[i] being the i-th.
Stages(n, X, base, step) ==
  {f \in [0 .. n -> X] :
     f[0] = base /\ \A i \in 1 .. n : f[i] = step[i][f[i - 1]]}

(***************************************************************************)
(* Any n steps on any set have a sequence of stages: a function defined by *)
(* recursion on 0 .. n exists.                                             *)
(***************************************************************************)
LEMMA StagesExist ==
  ASSUME NEW n \in Nat, NEW X, NEW base \in X,
         NEW step \in [1 .. n -> [X -> X]]
  PROVE  \E f : f \in Stages(n, X, base, step)
<1> USE DEF Stages
<1> DEFINE S == {k \in 0 .. n : \E f \in [0 .. k -> X] :
                    f[0] = base /\ \A i \in 1 .. k : f[i] = step[i][f[i - 1]]}
<1>1. 0 \in S
  <2> DEFINE g == [i \in 0 .. 0 |-> base]
  <2>1. g \in [0 .. 0 -> X] /\ g[0] = base
    OBVIOUS
  <2>2. 0 \in 0 .. n /\ 1 .. 0 = {}
    OBVIOUS
  <2> HIDE DEF g
  <2> QED BY <2>1, <2>2
<1>2. ASSUME NEW k \in 0 .. n - 1, k \in S
      PROVE  k + 1 \in S
  <2>1. PICK f \in [0 .. k -> X] :
          f[0] = base /\ \A i \in 1 .. k : f[i] = step[i][f[i - 1]]
    BY <1>2
  <2> DEFINE g == [i \in 0 .. k + 1 |-> IF i <= k THEN f[i] ELSE step[i][f[k]]]
  <2>2. g \in [0 .. k + 1 -> X]
    OBVIOUS
  <2>3. g[0] = base /\ \A i \in 1 .. k + 1 : g[i] = step[i][g[i - 1]]
    <3>1. g[0] = base
      BY <2>1
    <3>2. ASSUME NEW i \in 1 .. k + 1
          PROVE  g[i] = step[i][g[i - 1]]
      <4>1. CASE i <= k
        BY <2>1, <4>1
      <4>2. CASE i = k + 1
        BY <4>2
      <4> QED BY <4>1, <4>2
    <3> QED BY <3>1, <3>2
  <2> HIDE DEF g
  <2>4. k + 1 \in 0 .. n
    OBVIOUS
  <2> QED BY <2>2, <2>3, <2>4
<1>3. n \in S
  <2> HIDE DEF S
  <2>1. \A k \in 0 .. n - 1 : k \in S => k + 1 \in S
    BY <1>2
  <2>2. 0 .. n \subseteq S
    BY <1>1, <2>1, SetInduction, Zenon
  <2> QED BY <2>2
<1> QED BY <1>3

-----------------------------------------------------------------------------
(***************************************************************************)
(* One message.                                                            *)
(***************************************************************************)

(***************************************************************************)
(* The inverse of a message is a message of the format the documents ask   *)
(* for, whatever the operation (invert_cdc_message).                       *)
(***************************************************************************)
LEMMA InverseWellFormed ==
  ASSUME NEW m \in Message, WellFormed(m)
  PROVE  InverseMessage(m) \in Message /\ WellFormed(InverseMessage(m))
  BY DEF Message, WellFormed, InverseMessage, Opposite, Operation

(***************************************************************************)
(* Inverting a well-formed message twice gives it back: undoing an undo, as *)
(* a reorg that returns to a block does, is the block's own change again.  *)
(* Of a create with a `before`, or a delete with an `after`, the inverse   *)
(* drops a part (invert_cdc_message), which no second inverse brings back. *)
(***************************************************************************)
THEOREM InverseIsInvolution ==
  ASSUME NEW m \in Message
  PROVE  /\ WellFormed(m) => InverseMessage(InverseMessage(m)) = m
         /\ m.operation = "create" /\ m.before # None
              => InverseMessage(InverseMessage(m)) # m
         /\ m.operation = "delete" /\ m.after # None
              => InverseMessage(InverseMessage(m)) # m
<1>1. /\ m = [operation |-> m.operation, key |-> m.key,
              before |-> m.before, after |-> m.after]
      /\ m.operation \in {"create", "update", "delete"}
  BY DEF Message, Operation
<1>2. /\ InverseMessage(InverseMessage(m))
           \in [operation : Operation, key : Key, before : Record, after : Record]
      /\ InverseMessage(InverseMessage(m)).operation = m.operation
      /\ InverseMessage(InverseMessage(m)).key = m.key
      /\ InverseMessage(InverseMessage(m)).before =
           IF m.operation = "create" THEN None ELSE m.before
      /\ InverseMessage(InverseMessage(m)).after =
           IF m.operation = "delete" THEN None ELSE m.after
  BY <1>1 DEF Message, InverseMessage, Opposite, Operation, Record
<1>3. WellFormed(m) => InverseMessage(InverseMessage(m)) = m
  BY <1>1, <1>2 DEF WellFormed
<1> QED BY <1>1, <1>2, <1>3

(***************************************************************************)
(* A message that fits the records leaves records its inverse fits, so     *)
(* the inverse is a change a consumer can apply; and the inverse brings    *)
(* every record back, the other keys' included.                            *)
(***************************************************************************)
THEOREM InverseRestores ==
  ASSUME NEW table \in Table, NEW m \in Message, Fits(m, table)
  PROVE  /\ Effect(table, m) \in Table
         /\ Fits(InverseMessage(m), Effect(table, m))
         /\ Effect(Effect(table, m), InverseMessage(m)) = table
<1>1. WellFormed(m) /\ m.before = table[m.key]
  BY DEF Fits
<1>2. m.key \in Key /\ m.before \in Record /\ m.after \in Record
  BY DEF Message
<1>3. Effect(table, m) \in Table
  BY <1>2 DEF Effect, Table
<1>4. InverseMessage(m) \in Message /\ WellFormed(InverseMessage(m))
  BY <1>1, InverseWellFormed
<1>5. /\ InverseMessage(m).key = m.key
      /\ InverseMessage(m).before = m.after
      /\ InverseMessage(m).after = m.before
  BY <1>1 DEF Message, InverseMessage, WellFormed
<1>6. Effect(table, m)[m.key] = m.after
  BY <1>2 DEF Effect, Table
<1>7. Fits(InverseMessage(m), Effect(table, m))
  BY <1>4, <1>5, <1>6 DEF Fits
<1>8. Effect(Effect(table, m), InverseMessage(m)) = table
  BY <1>1, <1>2, <1>5 DEF Effect, Table
<1> QED BY <1>3, <1>7, <1>8

-----------------------------------------------------------------------------
(***************************************************************************)
(* A sequence of messages.                                                 *)
(***************************************************************************)

\* f has the tables before and after each message.
TablesOf(f, table, ms) ==
  /\ f \in [0 .. Len(ms) -> Table]
  /\ f[0] = table
  /\ \A i \in 1 .. Len(ms) : f[i] = Effect(f[i - 1], ms[i])

(***************************************************************************)
(* A message changes a table into a table.                                 *)
(***************************************************************************)
LEMMA EffectType ==
  ASSUME NEW t \in Table, NEW m \in Message
  PROVE  Effect(t, m) \in Table
<1>1. m.key \in Key /\ m.after \in Record
  BY DEF Message
<1> QED BY <1>1 DEF Effect, Table

(***************************************************************************)
(* Replay goes from table to table, one message at a time.                 *)
(***************************************************************************)
LEMMA ReplayStages ==
  ASSUME NEW table \in Table, NEW ms \in Seq(Message)
  PROVE  \E f : TablesOf(f, table, ms) /\ Replay(table, ms) = f[Len(ms)]
<1> DEFINE n == Len(ms)
           step == [i \in 1 .. n |-> [t \in Table |-> Effect(t, ms[i])]]
           Defines(f) == f = [i \in 0 .. n |-> IF i = 0 THEN table
                                               ELSE Effect(f[i - 1], ms[i])]
           after == CHOOSE f : Defines(f)
<1>1. n \in Nat
  OBVIOUS
<1>2. step \in [1 .. n -> [Table -> Table]]
  <2>1. ASSUME NEW i \in 1 .. n, NEW t \in Table
        PROVE  Effect(t, ms[i]) \in Table
    <3>1. ms[i] \in Message
      OBVIOUS
    <3> QED BY <3>1, EffectType
  <2> QED BY <2>1
<1>3. PICK f : f \in Stages(n, Table, table, step)
  <2> HIDE DEF n, step
  <2>1. table \in Table
    OBVIOUS
  <2> QED BY <1>1, <1>2, <2>1, StagesExist, Zenon
<1>4. Defines(f)
  <2>1. /\ f \in [0 .. n -> Table] /\ f[0] = table
        /\ \A i \in 1 .. n : f[i] = step[i][f[i - 1]]
    <3> HIDE DEF n, step
    <3> QED BY <1>3 DEF Stages
  <2>2. ASSUME NEW i \in 1 .. n PROVE f[i] = Effect(f[i - 1], ms[i])
    <3>1. i - 1 \in 0 .. n
      BY <1>1
    <3>2. f[i - 1] \in Table
      BY <2>1, <3>1
    <3>3. step[i] = [t \in Table |-> Effect(t, ms[i])]
      OBVIOUS
    <3> HIDE DEF step
    <3> QED BY <2>1, <3>2, <3>3
  <2>3. f = [i \in 0 .. n |-> f[i]]
    BY <2>1
  <2>4. \A i \in 0 .. n :
          f[i] = IF i = 0 THEN table ELSE Effect(f[i - 1], ms[i])
    BY <1>1, <2>1, <2>2
  <2> HIDE DEF n
  <2> QED BY <2>3, <2>4, Zenon
<1>5. Defines(after)
  <2> HIDE DEF Defines
  <2> QED BY <1>4, Zenon
<1>6. Replay(table, ms) = after[n]
  BY Zenon DEF Replay
<1> HIDE DEF after
<1>7. after[0] = table
  BY <1>1, <1>5
<1>8. \A i \in 1 .. n : after[i] = Effect(after[i - 1], ms[i])
  BY <1>1, <1>5
<1>9. after \in [0 .. n -> Table]
  <2> DEFINE S == {i \in 0 .. n : after[i] \in Table}
  <2>1. 0 \in S
    BY <1>1, <1>7
  <2>2. ASSUME NEW i \in 0 .. n - 1, i \in S PROVE i + 1 \in S
    <3>1. i + 1 \in 1 .. n /\ i + 1 \in 0 .. n /\ (i + 1) - 1 = i
      BY <1>1
    <3>2. after[i + 1] = Effect(after[i], ms[i + 1])
      BY <1>8, <3>1
    <3>3. ms[i + 1] \in Message
      BY <3>1
    <3> QED BY <2>2, <3>1, <3>2, <3>3, EffectType
  <2>3. 0 .. n \subseteq S
    <3> HIDE DEF S, n
    <3> QED BY <1>1, <2>1, <2>2, SetInduction
  <2>4. \A i \in 0 .. n : after[i] \in Table
    BY <2>3
  <2>5. DOMAIN after = 0 .. n /\ after = [i \in 0 .. n |-> after[i]]
    BY <1>5
  <2> HIDE DEF n
  <2> QED BY <2>4, <2>5
<1>10. TablesOf(after, table, ms)
  BY <1>7, <1>8, <1>9 DEF TablesOf
<1> QED BY <1>6, <1>10, Zenon

(***************************************************************************)
(* The stages are no others than the ones Replay goes through.             *)
(***************************************************************************)
LEMMA ReplayUnique ==
  ASSUME NEW table \in Table, NEW ms \in Seq(Message),
         NEW f, TablesOf(f, table, ms)
  PROVE  Replay(table, ms) = f[Len(ms)]
<1> DEFINE n == Len(ms)
           S == {i \in 0 .. n : \A g : TablesOf(g, table, ms) => g[i] = f[i]}
<1>1. n \in Nat
  OBVIOUS
<1>2. 0 \in S
  BY DEF TablesOf
<1>3. ASSUME NEW i \in 0 .. n - 1, i \in S PROVE i + 1 \in S
  <2>1. i + 1 \in 1 .. n /\ i + 1 \in 0 .. n /\ (i + 1) - 1 = i
    BY <1>1
  <2>2. ASSUME NEW g, TablesOf(g, table, ms) PROVE g[i + 1] = f[i + 1]
    <3>1. g[i + 1] = Effect(g[i], ms[i + 1])
      BY <2>1, <2>2 DEF TablesOf
    <3>2. f[i + 1] = Effect(f[i], ms[i + 1])
      BY <2>1 DEF TablesOf
    <3>3. g[i] = f[i]
      BY <1>3, <2>2
    <3> QED BY <3>1, <3>2, <3>3
  <2> QED BY <2>1, <2>2
<1>4. n \in S
  <2> HIDE DEF S, n
  <2>1. 0 .. n \subseteq S
    BY <1>1, <1>2, <1>3, SetInduction
  <2> QED BY <1>1, <2>1
<1>5. PICK g : TablesOf(g, table, ms) /\ Replay(table, ms) = g[Len(ms)]
  BY ReplayStages, Zenon
<1>6. g[n] = f[n]
  BY <1>4, <1>5
<1> QED BY <1>5, <1>6

(***************************************************************************)
(* No message, no change.                                                  *)
(***************************************************************************)
LEMMA ReplayEmpty ==
  ASSUME NEW table \in Table
  PROVE  Replay(table, << >>) = table /\ FitsAll(table, << >>)
<1>1. << >> \in Seq(Message) /\ Len(<< >>) = 0 /\ DOMAIN << >> = {}
  OBVIOUS
<1>2. PICK f : TablesOf(f, table, << >>) /\ Replay(table, << >>) = f[Len(<< >>)]
  BY <1>1, ReplayStages, Zenon
<1> QED BY <1>1, <1>2 DEF TablesOf, FitsAll

(***************************************************************************)
(* The stages of a block are what Replay makes of its first messages.      *)
(***************************************************************************)
LEMMA ReplayPrefix ==
  ASSUME NEW table \in Table, NEW ms \in Seq(Message),
         NEW f, TablesOf(f, table, ms), NEW i \in 0 .. Len(ms)
  PROVE  Replay(table, SubSeq(ms, 1, i)) = f[i]
<1> DEFINE p == SubSeq(ms, 1, i)
           g == [j \in 0 .. i |-> f[j]]
<1>1. p \in Seq(Message) /\ Len(p) = i /\ \A j \in 1 .. i : p[j] = ms[j]
  OBVIOUS
<1>2. 0 .. i \subseteq 0 .. Len(ms) /\ 1 .. i \subseteq 1 .. Len(ms)
  OBVIOUS
<1>3. f \in [0 .. Len(ms) -> Table]
  BY DEF TablesOf
<1>4. g \in [0 .. i -> Table] /\ g[0] = table
  BY <1>2, <1>3 DEF TablesOf
<1>5. ASSUME NEW j \in 1 .. i PROVE g[j] = Effect(g[j - 1], p[j])
  <2>1. j - 1 \in 0 .. i /\ j \in 0 .. i /\ j \in 1 .. Len(ms)
    BY <1>2
  <2>2. g[j] = f[j] /\ g[j - 1] = f[j - 1]
    BY <2>1
  <2>3. f[j] = Effect(f[j - 1], ms[j])
    BY <2>1 DEF TablesOf
  <2> HIDE DEF g, p
  <2> QED BY <1>1, <2>2, <2>3
<1>6. TablesOf(g, table, p)
  <2> HIDE DEF g, p
  <2> QED BY <1>1, <1>4, <1>5 DEF TablesOf
<1>7. Replay(table, p) = g[i]
  <2> HIDE DEF g, p
  <2> QED BY <1>1, <1>6, ReplayUnique
<1> QED BY <1>7

(***************************************************************************)
(* Replay ends at a table.                                                 *)
(***************************************************************************)
LEMMA ReplayType ==
  ASSUME NEW table \in Table, NEW ms \in Seq(Message)
  PROVE  Replay(table, ms) \in Table
<1>1. PICK f : TablesOf(f, table, ms) /\ Replay(table, ms) = f[Len(ms)]
  BY ReplayStages, Zenon
<1>2. Len(ms) \in 0 .. Len(ms)
  OBVIOUS
<1> QED BY <1>1, <1>2 DEF TablesOf

(***************************************************************************)
(* Two batches in a row do what one batch of all their messages does: it   *)
(* makes no difference to the records where PostgresSink::send cuts.       *)
(***************************************************************************)
LEMMA ReplayConcat ==
  ASSUME NEW table \in Table, NEW a \in Seq(Message), NEW b \in Seq(Message)
  PROVE  /\ a \o b \in Seq(Message)
         /\ Replay(table, a \o b) = Replay(Replay(table, a), b)
<1> DEFINE la == Len(a)
           lb == Len(b)
<1>1. la \in Nat /\ lb \in Nat
  OBVIOUS
<1>2. /\ a \o b \in Seq(Message) /\ Len(a \o b) = la + lb
      /\ \A i \in 1 .. la : (a \o b)[i] = a[i]
      /\ \A i \in la + 1 .. la + lb : (a \o b)[i] = b[i - la]
  OBVIOUS
<1>3. PICK f : TablesOf(f, table, a) /\ Replay(table, a) = f[Len(a)]
  BY ReplayStages, Zenon
<1>4. Replay(table, a) \in Table
  BY ReplayType
<1>5. PICK g : /\ TablesOf(g, Replay(table, a), b)
               /\ Replay(Replay(table, a), b) = g[Len(b)]
  BY <1>4, ReplayStages, Zenon
<1> DEFINE h == [i \in 0 .. la + lb |-> IF i <= la THEN f[i] ELSE g[i - la]]
           all == a \o b
<1>6. /\ f \in [0 .. la -> Table] /\ f[0] = table
      /\ \A i \in 1 .. la : f[i] = Effect(f[i - 1], a[i])
      /\ g \in [0 .. lb -> Table] /\ g[0] = f[la]
      /\ \A i \in 1 .. lb : g[i] = Effect(g[i - 1], b[i])
  BY <1>3, <1>5 DEF TablesOf
<1>7. h \in [0 .. la + lb -> Table] /\ h[0] = table
  <2> HIDE DEF la, lb
  <2>1. ASSUME NEW i \in 0 .. la + lb PROVE h[i] \in Table
    <3>1. CASE i <= la
      BY <1>1, <1>6, <3>1
    <3>2. CASE i > la
      <4>1. i - la \in 0 .. lb
        BY <1>1, <3>2
      <4> QED BY <1>1, <1>6, <3>2, <4>1
    <3> QED BY <1>1, <3>1, <3>2
  <2> QED BY <1>1, <1>6, <2>1
<1>8. ASSUME NEW i \in 1 .. la + lb PROVE h[i] = Effect(h[i - 1], all[i])
  <2> HIDE DEF la, lb, all
  <2>1. CASE i <= la
    <3>1. h[i] = f[i] /\ h[i - 1] = f[i - 1] /\ i \in 1 .. la
      BY <1>1, <2>1
    <3>2. all[i] = a[i]
      BY <1>2, <3>1 DEF all
    <3> HIDE DEF h
    <3> QED BY <1>6, <3>1, <3>2
  <2>2. CASE i > la
    <3>1. h[i] = g[i - la] /\ i - la \in 1 .. lb /\ i \in la + 1 .. la + lb
      BY <1>1, <2>2
    <3>2. h[i - 1] = g[(i - la) - 1]
      <4>1. CASE i - 1 = la
        <5>1. i - 1 \in 0 .. la + lb /\ i - 1 <= la /\ (i - la) - 1 = 0
          BY <1>1, <4>1
        <5>2. h[i - 1] = f[la]
          BY <4>1, <5>1
        <5> HIDE DEF h
        <5> QED BY <1>6, <5>1, <5>2
      <4>2. CASE i - 1 > la
        <5>1. i - 1 \in 0 .. la + lb /\ ~ (i - 1 <= la)
          BY <1>1, <4>2
        <5>2. (i - 1) - la = (i - la) - 1
          BY <1>1
        <5>3. h[i - 1] = g[(i - 1) - la]
          BY <5>1
        <5> QED BY <5>2, <5>3
      <4> QED BY <1>1, <2>2, <4>1, <4>2
    <3>3. all[i] = b[i - la]
      BY <1>2, <3>1 DEF all
    <3> HIDE DEF h
    <3> QED BY <1>6, <3>1, <3>2, <3>3
  <2> QED BY <1>1, <2>1, <2>2
<1>9. h[la + lb] = g[lb]
  <2> HIDE DEF la, lb
  <2> QED BY <1>1, <1>6
<1>10. TablesOf(h, table, all)
  <2>1. all \in Seq(Message) /\ Len(all) = la + lb
    BY <1>2
  <2> HIDE DEF la, lb, all, h
  <2> QED BY <1>7, <1>8, <2>1 DEF TablesOf
<1>11. Replay(table, all) = h[Len(all)]
  <2>1. all \in Seq(Message)
    BY <1>2
  <2> HIDE DEF h, all
  <2> QED BY <1>10, <2>1, ReplayUnique
<1>12. Replay(table, all) = g[lb]
  <2>1. Len(all) = la + lb
    BY <1>2
  <2> HIDE DEF h, all, la, lb
  <2> QED BY <1>9, <1>11, <2>1
<1> QED BY <1>2, <1>5, <1>12

(***************************************************************************)
(* Whatever fits the records its stages leave fits them as FitsAll says.   *)
(***************************************************************************)
LEMMA FitsStages ==
  ASSUME NEW table \in Table, NEW ms \in Seq(Message),
         NEW f, TablesOf(f, table, ms)
  PROVE  FitsAll(table, ms) <=> \A i \in 1 .. Len(ms) : Fits(ms[i], f[i - 1])
<1>1. ASSUME NEW i \in 1 .. Len(ms)
      PROVE  Replay(table, SubSeq(ms, 1, i - 1)) = f[i - 1]
  <2>1. i - 1 \in 0 .. Len(ms)
    OBVIOUS
  <2> QED BY <2>1, ReplayPrefix
<1>2. DOMAIN ms = 1 .. Len(ms)
  OBVIOUS
<1> QED BY <1>1, <1>2 DEF FitsAll

(***************************************************************************)
(* Messages that fit, behind messages that fit: a batch of several blocks. *)
(***************************************************************************)
LEMMA FitsConcat ==
  ASSUME NEW table \in Table, NEW a \in Seq(Message), NEW b \in Seq(Message),
         FitsAll(table, a), FitsAll(Replay(table, a), b)
  PROVE  FitsAll(table, a \o b)
<1> SUFFICES ASSUME NEW i \in DOMAIN (a \o b)
             PROVE  Fits((a \o b)[i], Replay(table, SubSeq(a \o b, 1, i - 1)))
  BY DEF FitsAll
<1>1. i \in 1 .. Len(a) + Len(b) /\ Len(a) \in Nat /\ Len(b) \in Nat
  OBVIOUS
<1>2. CASE i <= Len(a)
  <2>1. (a \o b)[i] = a[i] /\ i \in DOMAIN a
    BY <1>1, <1>2
  <2>2. SubSeq(a \o b, 1, i - 1) = SubSeq(a, 1, i - 1)
    BY <1>1, <1>2
  <2> QED BY <2>1, <2>2 DEF FitsAll
<1>3. CASE i > Len(a)
  <2> DEFINE j == i - Len(a)
             p == SubSeq(b, 1, j - 1)
  <2>1. (a \o b)[i] = b[j] /\ j \in DOMAIN b /\ j \in 1 .. Len(b)
    BY <1>1, <1>3
  <2>2. p \in Seq(Message) /\ Len(p) = j - 1
    BY <2>1
  <2>3. SubSeq(a \o b, 1, i - 1) = a \o p
    <3> DEFINE s == SubSeq(a \o b, 1, i - 1)
               t == a \o p
    <3>1. a \o b \in Seq(Message) /\ Len(a \o b) = Len(a) + Len(b)
      OBVIOUS
    <3>2. i - 1 \in 0 .. Len(a) + Len(b)
      BY <1>1
    <3>3. s \in Seq(Message) /\ Len(s) = i - 1
      BY <3>1, <3>2
    <3>4. t \in Seq(Message) /\ Len(t) = i - 1
      <4> HIDE DEF p
      <4>1. p \in Seq(Message)
        BY <2>2
      <4>2. t \in Seq(Message) /\ Len(t) = Len(a) + Len(p)
        BY <4>1
      <4>3. Len(a) + (j - 1) = i - 1
        BY <1>1
      <4> QED BY <2>2, <4>2, <4>3
    <3>5. ASSUME NEW q \in 1 .. i - 1 PROVE s[q] = t[q]
      <4>1. s[q] = (a \o b)[q]
        BY <3>1, <3>2
      <4>2. CASE q <= Len(a)
        BY <1>1, <4>1, <4>2
      <4>3. CASE q > Len(a)
        <5>1. q - Len(a) \in 1 .. j - 1
          BY <1>1, <4>3
        <5>2. (a \o b)[q] = b[q - Len(a)]
          BY <1>1, <4>3
        <5>3. p[q - Len(a)] = b[q - Len(a)]
          BY <2>1, <5>1
        <5>4. t[q] = p[q - Len(a)]
          BY <1>1, <2>2, <4>3, <5>1
        <5> QED BY <4>1, <5>2, <5>3, <5>4
      <4> QED BY <1>1, <4>2, <4>3
    <3> DEFINE u == [q \in 1 .. i - 1 |-> s[q]]
               v == [q \in 1 .. i - 1 |-> t[q]]
    <3>6. s = u /\ t = v
      <4> HIDE DEF s, t
      <4> QED BY <3>3, <3>4
    <3>7. u = v
      <4> HIDE DEF s, t
      <4> QED BY <3>5
    <3>8. s = t
      <4> HIDE DEF s, t, u, v
      <4> QED BY <3>6, <3>7
    <3> QED BY <3>8
  <2>4. Replay(table, a \o p) = Replay(Replay(table, a), p)
    <3> HIDE DEF p
    <3> QED BY <2>2, ReplayConcat
  <2>5. Fits(b[j], Replay(Replay(table, a), p))
    BY <2>1 DEF FitsAll
  <2> HIDE DEF j, p
  <2> QED BY <2>1, <2>3, <2>4, <2>5
<1> QED BY <1>1, <1>2, <1>3

(***************************************************************************)
(* The inverses of messages are messages, also of messages that fit        *)
(* nothing.                                                                *)
(***************************************************************************)
LEMMA InverseMessagesType ==
  ASSUME NEW ms \in Seq(Message)
  PROVE  InverseMessages(ms) \in Seq(Message)
<1> DEFINE n == Len(ms)
           inv == InverseMessages(ms)
<1>1. n \in Nat
  OBVIOUS
<1>2. ASSUME NEW m \in Message
      PROVE  InverseMessage(m) \in Message
  BY DEF Message, InverseMessage, Opposite, Operation, Record
<1>3. \A i \in 1 .. n : ms[n + 1 - i] \in Message
  BY <1>1
<1>4. inv = [i \in 1 .. n |-> InverseMessage(ms[n + 1 - i])]
  BY DEF InverseMessages
<1>5. inv \in [1 .. n -> Message]
  BY <1>2, <1>3, <1>4
<1> HIDE DEF inv, n
<1> QED BY <1>1, <1>5 DEF inv

(***************************************************************************)
(* The inverse messages of a block, last message first, are changes of the *)
(* records the block leaves, and bring back the records it found.          *)
(***************************************************************************)
THEOREM InverseMessagesRestore ==
  ASSUME NEW table \in Table, NEW ms \in Seq(Message), FitsAll(table, ms)
  PROVE  /\ InverseMessages(ms) \in Seq(Message)
         /\ FitsAll(Replay(table, ms), InverseMessages(ms))
         /\ Replay(Replay(table, ms), InverseMessages(ms)) = table
<1> DEFINE n == Len(ms)
           inv == InverseMessages(ms)
<1>1. n \in Nat /\ DOMAIN ms = 1 .. n
  OBVIOUS
<1>2. PICK f : TablesOf(f, table, ms) /\ Replay(table, ms) = f[Len(ms)]
  BY ReplayStages, Zenon
<1>3. /\ f \in [0 .. n -> Table] /\ f[0] = table
      /\ \A i \in 1 .. n : f[i] = Effect(f[i - 1], ms[i])
  BY <1>2 DEF TablesOf
<1>4. \A i \in 1 .. n : Fits(ms[i], f[i - 1])
  BY <1>2, FitsStages
<1>5. ASSUME NEW i \in 1 .. n
      PROVE  /\ InverseMessage(ms[i]) \in Message
             /\ Fits(InverseMessage(ms[i]), f[i])
             /\ Effect(f[i], InverseMessage(ms[i])) = f[i - 1]
  <2>1. i - 1 \in 0 .. n /\ ms[i] \in Message
    BY <1>1
  <2>2. f[i - 1] \in Table
    BY <1>3, <2>1
  <2>3. Fits(ms[i], f[i - 1]) /\ f[i] = Effect(f[i - 1], ms[i])
    BY <1>3, <1>4
  <2>4. WellFormed(ms[i])
    BY <2>3 DEF Fits
  <2> QED BY <2>1, <2>2, <2>3, <2>4, InverseRestores, InverseWellFormed
<1>6. ASSUME NEW i \in 1 .. n
      PROVE  n + 1 - i \in 1 .. n
  BY <1>1
<1>7. inv = [i \in 1 .. n |-> InverseMessage(ms[n + 1 - i])]
  BY DEF InverseMessages
<1>8. inv \in Seq(Message) /\ Len(inv) = n
  <2>1. \A i \in 1 .. n : InverseMessage(ms[n + 1 - i]) \in Message
    BY <1>5, <1>6
  <2>2. inv \in [1 .. n -> Message]
    BY <1>7, <2>1
  <2> HIDE DEF inv, n
  <2> QED BY <1>1, <2>2
<1> DEFINE g == [i \in 0 .. n |-> f[n - i]]
<1>9. g \in [0 .. n -> Table] /\ g[0] = Replay(table, ms) /\ g[n] = table
  <2>1. \A i \in 0 .. n : n - i \in 0 .. n
    BY <1>1
  <2>2. 0 \in 0 .. n /\ n \in 0 .. n /\ n - 0 = n /\ n - n = 0
    BY <1>1
  <2> HIDE DEF n
  <2> QED BY <1>2, <1>3, <2>1, <2>2 DEF n
<1>10. ASSUME NEW i \in 1 .. n
       PROVE  Fits(inv[i], g[i - 1]) /\ g[i] = Effect(g[i - 1], inv[i])
  <2> DEFINE j == n + 1 - i
  <2>1. j \in 1 .. n
    BY <1>6
  <2>2. inv[i] = InverseMessage(ms[j])
    BY <1>7
  <2>3. /\ i \in 0 .. n /\ i - 1 \in 0 .. n
        /\ n - i = j - 1 /\ n - (i - 1) = j
    BY <1>1
  <2> HIDE DEF inv, j, n
  <2>4. g[i] = f[j - 1] /\ g[i - 1] = f[j]
    BY <2>3
  <2> QED BY <1>5, <2>1, <2>2, <2>4
<1>11. TablesOf(g, Replay(table, ms), inv)
  <2> HIDE DEF inv, g, n
  <2> QED BY <1>8, <1>9, <1>10 DEF TablesOf
<1>12. Replay(table, ms) \in Table
  BY ReplayType
<1>13. Replay(Replay(table, ms), inv) = g[Len(inv)]
  <2> HIDE DEF inv, g
  <2> QED BY <1>8, <1>11, <1>12, ReplayUnique
<1>14. FitsAll(Replay(table, ms), inv)
  <2> HIDE DEF inv, g, n
  <2> QED BY <1>8, <1>10, <1>11, <1>12, FitsStages
<1>15. Replay(Replay(table, ms), inv) = table
  <2> HIDE DEF inv, g, n
  <2> QED BY <1>8, <1>9, <1>13
<1> QED BY <1>8, <1>14, <1>15

\* d has the inverse messages of the blocks from k down to a + 1.
DownTo(d, blocks, a, top) ==
  /\ d \in [a .. top -> Seq(Message)]
  /\ d[a] = << >>
  /\ \A k \in a + 1 .. top : d[k] = InverseMessages(blocks[k]) \o d[k - 1]

(***************************************************************************)
(* The inverse messages of several blocks go down from the highest, one    *)
(* block at a time.                                                        *)
(***************************************************************************)
LEMMA InverseBlocksStages ==
  ASSUME NEW a \in Nat, NEW top \in Nat, a <= top, NEW blocks,
         \A k \in a + 1 .. top : InverseMessages(blocks[k]) \in Seq(Message)
  PROVE  \E d : DownTo(d, blocks, a, top) /\ InverseBlocks(blocks, a, top) = d[top]
<1> DEFINE n == top - a
           X == Seq(Message)
           inv == [k \in a + 1 .. top |-> InverseMessages(blocks[k])]
           step == [i \in 1 .. n |-> [ms \in X |-> inv[a + i] \o ms]]
           Defines(d) == d = [k \in a .. top |->
                               IF k = a THEN << >>
                               ELSE InverseMessages(blocks[k]) \o d[k - 1]]
           down == CHOOSE d : Defines(d)
<1>1. a \in Nat /\ top \in Nat /\ n \in Nat /\ a <= top
  OBVIOUS
<1>2. inv \in [a + 1 .. top -> X]
  OBVIOUS
<1>3. step \in [1 .. n -> [X -> X]]
  <2> HIDE DEF inv
  <2>1. ASSUME NEW i \in 1 .. n, NEW ms \in X
        PROVE  inv[a + i] \o ms \in X
    <3>1. a + i \in a + 1 .. top
      BY <1>1
    <3>2. inv[a + i] \in Seq(Message)
      BY <1>2, <3>1
    <3> QED BY <3>2
  <2> HIDE DEF X
  <2> QED BY <2>1
<1>4. << >> \in X
  OBVIOUS
<1>5. PICK f : f \in Stages(n, X, << >>, step)
  <2> HIDE DEF n, X, step
  <2> QED BY <1>1, <1>3, <1>4, StagesExist, Zenon
<1>6. /\ f \in [0 .. n -> X] /\ f[0] = << >>
      /\ \A i \in 1 .. n : f[i] = step[i][f[i - 1]]
  <2> HIDE DEF n, X, step
  <2> QED BY <1>5 DEF Stages
<1> DEFINE g == [k \in a .. top |-> f[k - a]]
<1>7. Defines(g)
  <2>1. ASSUME NEW k \in a + 1 .. top
        PROVE  f[k - a] = InverseMessages(blocks[k]) \o f[(k - 1) - a]
    <3> DEFINE i == k - a
    <3>1. /\ i \in 1 .. n /\ i - 1 \in 0 .. n
          /\ (k - 1) - a = i - 1 /\ a + i = k
      BY <1>1
    <3>2. f[i - 1] \in X
      BY <1>6, <3>1
    <3>3. step[i] = [ms \in X |-> inv[a + i] \o ms]
      BY <3>1
    <3>4. inv[k] = InverseMessages(blocks[k])
      OBVIOUS
    <3>5. f[i] = step[i][f[i - 1]]
      BY <1>6, <3>1
    <3> HIDE DEF step, inv, X, i
    <3>6. step[i][f[i - 1]] = inv[a + i] \o f[i - 1]
      BY <3>2, <3>3
    <3> QED BY <3>1, <3>4, <3>5, <3>6 DEF i
  <2>2. ASSUME NEW k \in a .. top
        PROVE  f[k - a] = IF k = a THEN << >>
                          ELSE InverseMessages(blocks[k]) \o g[k - 1]
    <3>1. CASE k = a
      BY <1>1, <1>6, <3>1
    <3>2. CASE k # a
      <4>1. k \in a + 1 .. top /\ k - 1 \in a .. top
        BY <1>1, <3>2
      <4>2. g[k - 1] = f[(k - 1) - a]
        BY <4>1
      <4> HIDE DEF g
      <4> QED BY <2>1, <3>2, <4>1, <4>2
    <3> QED BY <3>1, <3>2
  <2> QED BY <2>2
<1>8. Defines(down)
  <2> HIDE DEF Defines, g
  <2> QED BY <1>7, Zenon
<1>9. InverseBlocks(blocks, a, top) = down[top]
  BY Zenon DEF InverseBlocks
<1> HIDE DEF down
<1>10. down[a] = << >>
  BY <1>1, <1>8
<1>11. ASSUME NEW k \in a + 1 .. top
       PROVE  down[k] = InverseMessages(blocks[k]) \o down[k - 1]
  <2>1. k \in a .. top /\ k # a
    BY <1>1
  <2> QED BY <1>8, <2>1
<1>12. down \in [a .. top -> X]
  <2> DEFINE S == {i \in 0 .. n : down[a + i] \in X}
  <2>1. 0 \in S
    <3>1. a + 0 = a /\ 0 \in 0 .. n
      BY <1>1
    <3> HIDE DEF X, n
    <3> QED BY <1>4, <1>10, <3>1
  <2>2. ASSUME NEW i \in 0 .. n - 1, i \in S PROVE i + 1 \in S
    <3>1. /\ a + (i + 1) \in a + 1 .. top /\ i + 1 \in 0 .. n
          /\ (a + (i + 1)) - 1 = a + i
      BY <1>1
    <3>2. down[a + (i + 1)] = InverseMessages(blocks[a + (i + 1)]) \o down[a + i]
      BY <1>11, <3>1
    <3>3. InverseMessages(blocks[a + (i + 1)]) \in Seq(Message)
      BY <3>1
    <3>4. down[a + i] \in Seq(Message)
      BY <2>2
    <3>5. down[a + (i + 1)] \in Seq(Message)
      BY <3>2, <3>3, <3>4
    <3> QED BY <3>1, <3>5
  <2>3. 0 .. n \subseteq S
    <3> HIDE DEF S, n
    <3> QED BY <1>1, <2>1, <2>2, SetInduction
  <2>4. ASSUME NEW k \in a .. top PROVE down[k] \in X
    <3>1. k - a \in 0 .. n /\ a + (k - a) = k
      BY <1>1
    <3> QED BY <2>3, <3>1
  <2>5. down = [k \in a .. top |-> down[k]]
    BY <1>8
  <2> HIDE DEF X
  <2> QED BY <2>4, <2>5
<1>13. DownTo(down, blocks, a, top)
  BY <1>10, <1>11, <1>12 DEF DownTo
<1> QED BY <1>9, <1>13, Zenon

\* The blocks above a, and their inverses, are messages.
Withdrawable(blocks, a, top) ==
  \A k \in a + 1 .. top :
    blocks[k] \in Seq(Message) /\ InverseMessages(blocks[k]) \in Seq(Message)

\* The messages are the inverses of those of the blocks above a, and no others.
Withdraws(messages, blocks, a, top) ==
  /\ messages \in Seq(Message)
  /\ \A i \in 1 .. Len(messages) :
       \E k \in a + 1 .. top : \E j \in 1 .. Len(blocks[k]) :
         messages[i] = InverseMessage(blocks[k][j])
  /\ \A k \in a + 1 .. top : \A j \in 1 .. Len(blocks[k]) :
       \E i \in 1 .. Len(messages) : messages[i] = InverseMessage(blocks[k][j])

(***************************************************************************)
(* The inverse messages of several blocks are the inverses of every        *)
(* message of these blocks, and no others.                                 *)
(***************************************************************************)
LEMMA InverseBlocksElements ==
  ASSUME NEW a \in Nat, NEW top \in Nat, a <= top, NEW blocks,
         Withdrawable(blocks, a, top)
  PROVE  Withdraws(InverseBlocks(blocks, a, top), blocks, a, top)
<1> DEFINE n == top - a
<1>1. a \in Nat /\ top \in Nat /\ n \in Nat /\ a + n = top
  OBVIOUS
<1>2. PICK d : DownTo(d, blocks, a, top) /\ InverseBlocks(blocks, a, top) = d[top]
  <2>1. \A k \in a + 1 .. top :
          blocks[k] \in Seq(Message) /\ InverseMessages(blocks[k]) \in Seq(Message)
    BY DEF Withdrawable
  <2> QED BY <2>1, InverseBlocksStages
<1>3. /\ \A k \in a .. top : d[k] \in Seq(Message)
      /\ d[a] = << >>
      /\ \A k \in a + 1 .. top : d[k] = InverseMessages(blocks[k]) \o d[k - 1]
  BY <1>2 DEF DownTo
<1> DEFINE FromBlocks(t) ==
             \A i \in 1 .. Len(d[t]) :
               \E k \in a + 1 .. t : \E j \in 1 .. Len(blocks[k]) :
                 d[t][i] = InverseMessage(blocks[k][j])
           AllBlocks(t) ==
             \A k \in a + 1 .. t : \A j \in 1 .. Len(blocks[k]) :
               \E i \in 1 .. Len(d[t]) : d[t][i] = InverseMessage(blocks[k][j])
           S == {i \in 0 .. n : FromBlocks(a + i) /\ AllBlocks(a + i)}
<1>4. 0 \in S
  <2>1. a + 0 = a /\ a + 1 .. a = {} /\ Len(d[a]) = 0 /\ 0 \in 0 .. n
    BY <1>1, <1>3
  <2> HIDE DEF n
  <2>2. FromBlocks(a) /\ AllBlocks(a)
    BY <2>1
  <2> QED BY <2>1, <2>2
<1>5. ASSUME NEW i \in 0 .. n - 1, i \in S PROVE i + 1 \in S
  <2> DEFINE t == a + i
             u == t + 1
             inv == InverseMessages(blocks[u])
  <2>1. /\ u \in a + 1 .. top /\ t \in a .. top /\ u - 1 = t
        /\ a + (i + 1) = u /\ i + 1 \in 0 .. n
        /\ a + 1 .. u = (a + 1 .. t) \cup {u}
    <3>1. i \in Nat /\ i + 1 <= n
      BY <1>1
    <3>2. t \in Nat /\ u \in Nat /\ a <= t /\ u <= top /\ u = t + 1
      BY <1>1, <3>1
    <3>3. a + (i + 1) = u /\ i + 1 \in 0 .. n
      BY <1>1, <3>1
    <3> HIDE DEF t, u, n
    <3>4. u \in a + 1 .. top /\ t \in a .. top /\ u - 1 = t
      BY <1>1, <3>2
    <3>5. a + 1 .. u = (a + 1 .. t) \cup {u}
      BY <1>1, <3>2
    <3> QED BY <3>3, <3>4, <3>5
  <2>2. FromBlocks(t) /\ AllBlocks(t)
    BY <1>5
  <2>3. inv \in Seq(Message) /\ blocks[u] \in Seq(Message)
    BY <2>1 DEF Withdrawable
  <2>4. d[u] = inv \o d[t] /\ d[t] \in Seq(Message)
    BY <1>3, <2>1
  <2>5. /\ Len(inv) = Len(blocks[u]) /\ Len(blocks[u]) \in Nat
        /\ \A j \in 1 .. Len(inv) :
             inv[j] = InverseMessage(blocks[u][Len(blocks[u]) + 1 - j])
    <3>1. DOMAIN blocks[u] = 1 .. Len(blocks[u]) /\ Len(blocks[u]) \in Nat
      BY <2>3
    <3>2. inv = [j \in 1 .. Len(blocks[u]) |->
                  InverseMessage(blocks[u][Len(blocks[u]) + 1 - j])]
      BY <3>1 DEF InverseMessages
    <3> HIDE DEF inv, u
    <3>3. Len(inv) = Len(blocks[u])
      BY <2>3, <3>1, <3>2
    <3> QED BY <3>1, <3>2, <3>3
  <2> HIDE DEF inv, u, t, n
  <2>6. /\ Len(d[u]) = Len(inv) + Len(d[t]) /\ Len(d[t]) \in Nat
        /\ \A j \in 1 .. Len(inv) : d[u][j] = inv[j]
        /\ \A j \in 1 .. Len(d[t]) : d[u][Len(inv) + j] = d[t][j]
    BY <2>3, <2>4
  <2>7. FromBlocks(u)
    <3> SUFFICES ASSUME NEW q \in 1 .. Len(d[u])
                 PROVE  \E k \in a + 1 .. u : \E j \in 1 .. Len(blocks[k]) :
                          d[u][q] = InverseMessage(blocks[k][j])
      OBVIOUS
    <3>1. CASE q <= Len(inv)
      <4>1. q \in 1 .. Len(inv) /\ Len(blocks[u]) + 1 - q \in 1 .. Len(blocks[u])
        BY <2>5, <3>1
      <4>2. d[u][q] = InverseMessage(blocks[u][Len(blocks[u]) + 1 - q])
        BY <2>5, <2>6, <4>1
      <4> QED BY <2>1, <4>1, <4>2
    <3>2. CASE q > Len(inv)
      <4>1. q - Len(inv) \in 1 .. Len(d[t]) /\ Len(inv) + (q - Len(inv)) = q
        <5>1. /\ Len(inv) \in Nat /\ Len(d[t]) \in Nat
              /\ Len(d[u]) = Len(inv) + Len(d[t])
          BY <2>5, <2>6
        <5> QED BY <3>2, <5>1
      <4>2. d[u][q] = d[t][q - Len(inv)]
        BY <2>6, <4>1
      <4>3. PICK k \in a + 1 .. t : \E j \in 1 .. Len(blocks[k]) :
              d[t][q - Len(inv)] = InverseMessage(blocks[k][j])
        BY <2>2, <4>1
      <4> QED BY <2>1, <4>2, <4>3
    <3> QED BY <2>5, <3>1, <3>2
  <2>8. AllBlocks(u)
    <3> SUFFICES ASSUME NEW k \in a + 1 .. u, NEW j \in 1 .. Len(blocks[k])
                 PROVE  \E q \in 1 .. Len(d[u]) : d[u][q] = InverseMessage(blocks[k][j])
      OBVIOUS
    <3>1. CASE k = u
      <4> DEFINE q == Len(blocks[u]) + 1 - j
      <4>1. q \in 1 .. Len(inv) /\ q \in 1 .. Len(d[u])
            /\ Len(blocks[u]) + 1 - q = j
        <5>1. /\ Len(inv) \in Nat /\ Len(d[t]) \in Nat
              /\ Len(blocks[u]) = Len(inv) /\ Len(d[u]) = Len(inv) + Len(d[t])
          BY <2>5, <2>6
        <5>2. j \in 1 .. Len(inv)
          BY <3>1, <5>1
        <5>3. q = Len(inv) + 1 - j
          BY <5>1
        <5> HIDE DEF q
        <5> QED BY <5>1, <5>2, <5>3
      <4>2. d[u][q] = InverseMessage(blocks[u][j])
        BY <2>5, <2>6, <4>1
      <4> QED BY <3>1, <4>1, <4>2
    <3>2. CASE k \in a + 1 .. t
      <4>1. PICK q \in 1 .. Len(d[t]) : d[t][q] = InverseMessage(blocks[k][j])
        BY <2>2, <3>2
      <4>2. Len(inv) + q \in 1 .. Len(d[u])
        <5>1. /\ Len(inv) \in Nat /\ Len(d[t]) \in Nat
              /\ Len(d[u]) = Len(inv) + Len(d[t])
          BY <2>5, <2>6
        <5> QED BY <5>1
      <4>3. d[u][Len(inv) + q] = d[t][q]
        BY <2>6
      <4> QED BY <4>1, <4>2, <4>3
    <3> QED BY <2>1, <3>1, <3>2
  <2> HIDE DEF FromBlocks, AllBlocks
  <2> QED BY <2>1, <2>7, <2>8
<1>6. n \in S
  <2> HIDE DEF S, n
  <2>1. 0 .. n \subseteq S
    BY <1>1, <1>4, <1>5, SetInduction
  <2> QED BY <1>1, <2>1
<1>7. FromBlocks(top) /\ AllBlocks(top)
  <2> HIDE DEF FromBlocks, AllBlocks, n
  <2> QED BY <1>1, <1>6
<1>8. d[top] \in Seq(Message)
  BY <1>1, <1>3
<1> QED BY <1>2, <1>7, <1>8 DEF Withdraws

=============================================================================
