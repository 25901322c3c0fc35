--------------------------- MODULE RecursiveQuery ---------------------------
(***************************************************************************)
(* recursive_query: a payload is split into a tree, the sub-model is asked *)
(* about the leaves, answers are merged upward and shrunk by further       *)
(* calls, all charged to one ledger.  A text is its length; the sub-model  *)
(* (external) answers with any length.  The cuts of chunk() are any the    *)
(* algorithm of Chunking.tla may make; the overlap is the default, none.   *)
(* The run is the call stack of solve and reduce_to_budget.                *)
(***************************************************************************)
EXTENDS Integers, Sequences, FiniteSets

CONSTANTS
    CharsPerToken, MaxChunkTokens, MaxDepth, MaxCalls, MaxTotalTokens, Fanout,
    MaxReduceRounds,
    MaxText,       \* characters of the payload (bound)
    MaxAnswer      \* characters of an answer of the sub-model (bound)

(* RecursionBudget.__post_init__                                           *)
ASSUME BudgetAssumption ==
    /\ CharsPerToken \in Nat \ {0} /\ MaxChunkTokens \in Nat \ {0} /\ MaxDepth \in Nat
    /\ MaxCalls \in Nat \ {0} /\ MaxTotalTokens \in Nat \ {0}
    /\ Fanout \in Nat /\ Fanout >= 2
    /\ MaxReduceRounds \in Nat /\ MaxText \in Nat /\ MaxAnswer \in Nat

VARIABLES
    payload,   \* len(text)
    raising,   \* on_exceeded = "raise"
    control,   \* what happens next: [op, len]
    stack,     \* frames of solve
    calls, tokens, stops,   \* BudgetLedger
    seen,      \* characters of the payload the sub-model was given (history)
    widest     \* the largest text it was given (history)

queryVars == <<payload, raising, control, stack, calls, tokens, stops, seen, widest>>

CeilDiv(a, b) == (a + b - 1) \div b
EstimateTokens(len) == CeilDiv(len, CharsPerToken)
MaxChunkChars == MaxChunkTokens * CharsPerToken
LevelChars(len) == IF CeilDiv(len, Fanout) > MaxChunkChars THEN CeilDiv(len, Fanout) ELSE MaxChunkChars

(* Pieces no wider than max; two neighbours that fit together are one.     *)
SumOf(s) == LET sum[k \in 0..Len(s)] == IF k = 0 THEN 0 ELSE sum[k - 1] + s[k] IN sum[Len(s)]
Cuts(len, max) ==
    {s \in UNION {[1..n -> 1..max] : n \in 1..CeilDiv(2 * len, max)} :
        /\ SumOf(s) = len
        /\ \A k \in 2..Len(s) : s[k - 1] + s[k] > max}

(* children still to solve; body merged so far; the round of reduction, 0 *)
(* while the children are solved; what this round has made.                *)
Frame(pieces, depth) == [depth |-> depth, todo |-> pieces, body |-> 0, round |-> 0, outs |-> 0]
Top == stack[Len(stack)]
Replace(frame) == [stack EXCEPT ![Len(stack)] = frame]
PopFrame == SubSeq(stack, 1, Len(stack) - 1)

Ops == {"solve", "return", "next", "reduce", "piece", "done", "raised"}
Do(op, len) == control' = [op |-> op, len |-> len]

QueryTypes ==
    /\ payload \in 0..MaxText /\ raising \in BOOLEAN
    /\ control \in [op : Ops, len : Nat]
    /\ calls \in Nat /\ tokens \in Nat
    /\ stops \subseteq {"max_calls", "max_total_tokens", "max_depth_truncated",
                        "reduce_not_converging", "reduce_rounds_exhausted"}
    /\ seen \in Nat /\ widest \in Nat

QueryInit ==
    /\ payload \in 0..MaxText /\ raising \in BOOLEAN
    /\ control = [op |-> IF payload = 0 THEN "done" ELSE "solve", len |-> payload]
    /\ stack = <<>>
    /\ calls = 0 /\ tokens = 0 /\ stops = {} /\ seen = 0 /\ widest = 0

-----------------------------------------------------------------------------

(* BudgetLedger.blocked_by                                                 *)
BlockedBy(n) ==
    IF calls >= MaxCalls THEN {"max_calls"}
    ELSE IF tokens + n > MaxTotalTokens THEN {"max_total_tokens"}
    ELSE {}

\* Mutant: a stop is not noted once the query goes on.
NotedOnRaise(reasons, op, len) ==
    /\ stops' = IF raising THEN stops \cup reasons ELSE stops
    /\ IF raising /\ reasons # {} THEN Do("raised", 0) ELSE Do(op, len)

(* note(): go on to op, unless the budget says to raise.                   *)
NoteAnd(reasons, op, len) ==
    /\ stops' = stops \cup reasons
    /\ IF raising /\ reasons # {} THEN Do("raised", 0) ELSE Do(op, len)

(* spend() and the call itself, with a text of len characters.             *)
Ask(len) ==
    /\ calls' = calls + 1
    /\ tokens' = tokens + EstimateTokens(len)
    /\ widest' = IF len > widest THEN len ELSE widest

NoCall == UNCHANGED <<calls, tokens, widest>>

IsLeaf(len, depth) == EstimateTokens(len) <= MaxChunkTokens \/ depth >= MaxDepth
Depth == Len(stack)

(* leaf(): an oversized body is cut and noted first, then the ledger asked. *)
SolveLeaf ==
    /\ control.op = "solve" /\ IsLeaf(control.len, Depth)
    /\ LET body == IF control.len > MaxChunkChars THEN MaxChunkChars ELSE control.len
           cut == IF body < control.len THEN {"max_depth_truncated"} ELSE {}
           blocked == BlockedBy(EstimateTokens(body))
       IN IF raising /\ cut # {}
          THEN NoteAnd(cut, "raised", 0) /\ NoCall /\ UNCHANGED seen
          ELSE IF blocked # {}
          THEN NoteAnd(cut \cup blocked, "return", 0) /\ NoCall /\ UNCHANGED seen
          ELSE /\ Ask(body)
               /\ seen' = seen + body
               /\ \E answer \in 0..MaxAnswer : NoteAnd(cut, "return", answer)
    /\ UNCHANGED <<payload, raising, stack>>

SolveSplit ==
    /\ control.op = "solve" /\ ~IsLeaf(control.len, Depth)
    /\ \E pieces \in Cuts(control.len, LevelChars(control.len)) :
         stack' = Append(stack, Frame(pieces, Depth))
    /\ Do("next", 0)
    /\ NoCall /\ UNCHANGED <<payload, raising, stops, seen>>

NextChild ==
    /\ control.op = "next" /\ Top.todo # <<>>
    /\ LET blocked == BlockedBy(0) IN
       IF blocked # {}
       THEN /\ NoteAnd(blocked, "next", 0)
            /\ stack' = Replace([Top EXCEPT !.todo = <<>>])
       ELSE /\ stack' = Replace([Top EXCEPT !.todo = Tail(@)])
            /\ Do("solve", Head(Top.todo)) /\ UNCHANGED stops
    /\ NoCall /\ UNCHANGED <<payload, raising, seen>>

(* default_combine: lossless, with a mark before each non-empty answer.    *)
Merged(body, answer) == IF answer = 0 THEN body ELSE body + answer + 1

ChildReturns ==
    /\ control.op = "return" /\ stack # <<>>
    /\ stack' = Replace([Top EXCEPT !.body = Merged(@, control.len)])
    /\ Do("next", 0)
    /\ NoCall /\ UNCHANGED <<payload, raising, stops, seen>>

AllReturned ==
    /\ control.op = "next" /\ Top.todo = <<>>
    /\ stack' = Replace([Top EXCEPT !.round = 1])
    /\ Do("reduce", 0)
    /\ NoCall /\ UNCHANGED <<payload, raising, stops, seen>>

-----------------------------------------------------------------------------

Fits(len) == EstimateTokens(len) <= MaxChunkTokens

ReduceRound ==
    /\ control.op = "reduce" /\ ~Fits(Top.body) /\ Top.round <= MaxReduceRounds
    /\ \E pieces \in Cuts(Top.body, MaxChunkChars) :
         stack' = Replace([Top EXCEPT !.todo = pieces, !.outs = 0])
    /\ Do("piece", 0)
    /\ NoCall /\ UNCHANGED <<payload, raising, stops, seen>>

ReduceEnds ==
    /\ control.op = "reduce" /\ (Fits(Top.body) \/ Top.round > MaxReduceRounds)
    /\ NoteAnd(IF Fits(Top.body) THEN {} ELSE {"reduce_rounds_exhausted"}, "return", Top.body)
    /\ stack' = PopFrame
    /\ NoCall /\ UNCHANGED <<payload, raising, seen>>

(* The budget does not reach: the body is returned as it is.               *)
ReducePiece ==
    /\ control.op = "piece" /\ Top.todo # <<>>
    /\ LET len == Head(Top.todo)
           blocked == BlockedBy(EstimateTokens(len))
       IN IF blocked # {}
          THEN /\ NoteAnd(blocked, "return", Top.body)
               /\ stack' = PopFrame
               /\ NoCall
          ELSE /\ Ask(len)
               /\ \E answer \in 0..MaxAnswer :
                    stack' = Replace([Top EXCEPT !.todo = Tail(@), !.outs = Merged(@, answer)])
               /\ UNCHANGED <<stops, control>>
    /\ UNCHANGED <<payload, raising, seen>>

(* A round that does not shrink the body is the last.                      *)
RoundEnds ==
    /\ control.op = "piece" /\ Top.todo = <<>>
    /\ IF Top.outs = 0 \/ Top.outs >= Top.body
       THEN /\ NoteAnd({"reduce_not_converging"}, "return", IF Top.outs = 0 THEN Top.body ELSE Top.outs)
            /\ stack' = PopFrame
       ELSE /\ stack' = Replace([Top EXCEPT !.body = Top.outs, !.round = @ + 1])
            /\ Do("reduce", 0) /\ UNCHANGED stops
    /\ NoCall /\ UNCHANGED <<payload, raising, seen>>

QueryReturns ==
    /\ control.op = "return" /\ stack = <<>>
    /\ Do("done", control.len)
    /\ NoCall /\ UNCHANGED <<payload, raising, stack, stops, seen>>

QueryNext ==
    \/ SolveLeaf \/ SolveSplit \/ NextChild \/ ChildReturns \/ AllReturned
    \/ ReduceRound \/ ReduceEnds \/ ReducePiece \/ RoundEnds \/ QueryReturns

QuerySpec == QueryInit /\ [][QueryNext]_queryVars

-----------------------------------------------------------------------------

(* recursive_query: the ledger is never overdrawn and no call is wider    *)
(* than a leaf; an answer that is not marked partial was made from every   *)
(* character of the payload, and unless it is the sub-model's own answer   *)
(* to the whole payload it fits a leaf.                                    *)
QueryIsHonest ==
    /\ calls <= MaxCalls /\ tokens <= MaxTotalTokens /\ widest <= MaxChunkChars
    /\ control.op = "done" /\ stops = {} =>
         /\ seen = payload
         /\ calls > 1 => Fits(control.len)

=============================================================================
