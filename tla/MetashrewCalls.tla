--------------------------- MODULE MetashrewCalls ---------------------------
(***************************************************************************)
(* What the service relies on when it asks metashrew something, whatever   *)
(* carries the question: a call ends with what metashrew held at a moment  *)
(* between question and answer, or with a default or an error for a reason *)
(* that arose in between.  Synchronizer's ReadHash, ReadHashNotFound,      *)
(* ReadHashFails, GetHeight and BlockCounts assume no more than this.      *)
(***************************************************************************)
EXTENDS Integers

CONSTANTS
  HashKey,   \* the heights a block hash is asked for
  ViewKey,   \* the heights a view is asked for
  Value,     \* hashes, results of views and numbers, as triples
  Width      \* one more than the largest u32

VARIABLES
  held,      \* what metashrew holds for every question
  call,      \* the question being asked, or NoCall
  seen,      \* what metashrew has held for `call` since it was asked
  faulty,    \* did something go wrong since it was asked?
  answer     \* what the last call ended with

vars == <<held, call, seen, faulty, answer>>

Question == ({"height", "count", "healthy"} \X {0})
            \cup ({"hash"} \X HashKey) \cup ({"view"} \X ViewKey)

NoCall == <<"none", 0>>

Number(n) == <<"number", n, 0>>
Absent == <<"absent", 0, 0>>

Answered(v) == <<"ok", v>>
Unavailable == <<"unavailable", Absent>>
Failed == <<"failed", Absent>>
NoAnswer == <<"none", Absent>>

\* The result the client makes of what metashrew holds, where it can.
Usable(v) ==
  CASE call[1] \in {"height", "healthy"} -> v[2] < Width
    [] call[1] \in {"hash", "view"}      -> v # Absent
    [] call[1] = "count"                 -> TRUE

Shown(v) ==
  CASE call[1] = "healthy"                   -> Number(1)
    [] call[1] = "count"                     -> Number(v[2] % Width)
    [] call[1] \in {"height", "hash", "view"} -> v

\* What a call that cannot be answered ends with; `wrong`: after a mishap.
Fallback(wrong) ==
  CASE call[1] = "healthy"            -> {Answered(Number(0))}
    [] call[1] = "count"              -> {Answered(Number(1))}
    [] call[1] \in {"height", "view"} -> {Failed}
    [] call[1] = "hash"               -> {Unavailable} \cup IF wrong THEN {Failed} ELSE {}

Answers(wrong) ==
  {Answered(Shown(v)) : v \in {w \in seen : Usable(w)}}
  \cup IF wrong \/ \E v \in seen : ~ Usable(v) THEN Fallback(wrong) ELSE {}

-----------------------------------------------------------------------------
Init ==
  /\ held \in [Question -> Value]
  /\ call = NoCall
  /\ seen = {}
  /\ faulty = FALSE
  /\ answer = NoAnswer

Change ==
  /\ held' \in [Question -> Value]
  /\ seen' = IF call = NoCall THEN seen ELSE seen \cup {held'[call]}
  /\ UNCHANGED <<call, faulty, answer>>

Mishap ==
  /\ call # NoCall
  /\ faulty' = TRUE
  /\ UNCHANGED <<held, call, seen, answer>>

Ask ==
  /\ call = NoCall
  /\ call' \in Question
  /\ seen' = {held[call']}
  /\ faulty' = FALSE
  /\ answer' = NoAnswer
  /\ UNCHANGED held

Return ==
  /\ call # NoCall
  /\ faulty' \in {faulty, TRUE}
  /\ answer' \in Answers(faulty')
  /\ call' = NoCall
  /\ seen' = {}
  /\ UNCHANGED held

Next == Change \/ Mishap \/ Ask \/ Return

Spec == Init /\ [][Next]_vars

=============================================================================
