---------------------------- MODULE TrackerReads ----------------------------
(***************************************************************************)
(* The read kernel of the tracker adapters (SPEC 11.1): a candidate read   *)
(* walks the pages of a board that people edit between two requests, a     *)
(* refresh asks for known ids.  A cursor stands for the position of the    *)
(* last item of a page.  The GitHub and Linear adapters wait between       *)
(* pages; the memory adapter runs to its end and fails when a fault is     *)
(* armed.                                                                  *)
(***************************************************************************)
EXTENDS Integers, FiniteSets

CONSTANTS Cards,      \* the items of the board
          PageLength, \* page_size, and the ids of one batch
          MaxPages,   \* provider.max_pages
          MaxEdits,   \* bound: edits of the board
          MaxReads    \* bound: reads made

ASSUME ReadAssumption ==
    /\ IsFiniteSet(Cards)
    /\ {PageLength, MaxPages} \subseteq Nat \ {0}
    /\ {MaxEdits, MaxReads} \subseteq Nat

VARIABLES position, \* where each card is on the board
          column,   \* "wanted", "other", or "off" the configured scope
          broken,   \* the cards whose record cannot be normalized
          read,     \* the read being made, or NoRead
          result,   \* what the last read answered
          touched,  \* the cards edited since the last read began
          fault,    \* FaultInjector: what the next calls run into
          edits, reads

readVars == <<position, column, broken, read, result, touched, fault, edits, reads>>

None == [c \in Cards |-> 0]
NoRead == [style |-> "none", op |-> "none", cursor |-> 0, seen |-> {},
           met |-> {}, ids |-> {}, pages |-> 0, out |-> None]
NoFault == [kind |-> "none", after |-> 0, left |-> 0]
Raised == [ok |-> FALSE, op |-> "none", ids |-> {}, pages |-> 0, out |-> None]

ReadsTypes ==
    /\ position \in [Cards -> Nat \ {0}] /\ column \in [Cards -> {"wanted", "other", "off"}]
    /\ broken \subseteq Cards /\ touched \subseteq Cards
    /\ read.style \in {"none", "github", "linear"} /\ read.op \in {"none", "states", "ids"}
    /\ read.pages \in 0..MaxPages /\ read.out \in [Cards -> Nat]
    /\ result.ok \in BOOLEAN /\ result.out \in [Cards -> Nat]
    /\ fault.kind \in {"none", "request", "pagination"} /\ fault.left \in 0..2

ReadInit ==
    /\ position \in [Cards -> 1..Cardinality(Cards)]
    /\ \A c, d \in Cards : c # d => position[c] # position[d]
    /\ column \in [Cards -> {"wanted", "other"}]
    /\ broken \in {b \in SUBSET Cards : Cardinality(b) <= 1}
    /\ read = NoRead /\ result = Raised /\ touched = {} /\ fault = NoFault
    /\ edits = 0 /\ reads = 0

-----------------------------------------------------------------------------

(* What the provider selects from: Linear filters by scope and state or by *)
(* id, GitHub hands out the whole project and the adapter filters.         *)
Selected(r) ==
    {c \in Cards : /\ column[c] # "off"
                   /\ r.style = "linear" /\ r.op = "states" => column[c] = "wanted"
                   /\ r.op = "ids" => c \in r.ids}

Page(r) ==
    LET after == {c \in Selected(r) : position[c] > r.cursor}
    IN {c \in after : Cardinality({d \in after : position[d] < position[c]}) < PageLength}

HasNext(r) == \E c \in Selected(r) \ Page(r) : position[c] > r.cursor

(* The cursors a provider may send: the last position of the page, none    *)
(* (0), or one it has sent before.                                         *)
EndCursors(r) ==
    {position[c] : c \in {d \in Page(r) : \A e \in Page(r) : position[e] <= position[d]}}
        \cup {0} \cup r.seen

\* Mutant: a card seen on an earlier page is taken again.
KeptAgain(r) == Page(r) \ broken

(* The records of a page that become issues.  Broken ones are omitted; a   *)
(* card met before is skipped by GitHub (seen_items).                      *)
Kept(r) == (Page(r) \ broken) \ (IF r.style = "github" THEN r.met ELSE {})

AddTo(out, cards) == [c \in Cards |-> out[c] + (IF c \in cards THEN 1 ELSE 0)]

AfterPage(r) ==
    [r EXCEPT !.pages = @ + 1, !.met = @ \cup Kept(r),
              !.out = AddTo(@, {c \in Kept(r) : r.op = "states" => column[c] = "wanted"})]

(* Checks on a page that is not the last, cursor first and max_pages after.*)
BadCursor(r, cursor) == cursor = 0 \/ cursor \in r.seen
TooManyPages(r) == r.pages + 1 >= MaxPages

StartRead(style, op, ids) ==
    /\ read = NoRead /\ reads < MaxReads
    /\ op = "ids" => ids # {}
    /\ read' = [NoRead EXCEPT !.style = style, !.op = op, !.ids = ids]
    /\ touched' = {} /\ reads' = reads + 1 /\ result' = Raised
    /\ UNCHANGED <<position, column, broken, fault, edits>>

Raise == read' = NoRead /\ result' = Raised
Return(r) ==
    /\ read' = NoRead
    /\ result' = [ok |-> TRUE, op |-> r.op, ids |-> r.ids, pages |-> r.pages, out |-> r.out]

(* A page arrives: GitHub fetch_issues_by_states, Linear _paginate.        *)
PageArrives ==
    /\ read.style = "linear" \/ read.op = "states"
    /\ IF read.op = "ids" /\ Page(read) \cap broken # {}
       THEN Raise                                   \* strict
       ELSE IF ~HasNext(read) THEN Return(AfterPage(read))
       ELSE \E cursor \in EndCursors(read) :
                IF BadCursor(read, cursor) \/ TooManyPages(read) THEN Raise
                ELSE /\ read' = [AfterPage(read) EXCEPT !.cursor = cursor,
                                                        !.seen = @ \cup {cursor}]
                     /\ UNCHANGED result
    /\ UNCHANGED <<position, column, broken, touched, fault, edits, reads>>

(* GitHub fetch_issues_by_ids: a batch of nodes(ids:); ids that resolve to *)
(* nothing or to another project are omitted.                              *)
BatchArrives ==
    /\ read.style = "github" /\ read.op = "ids"
    /\ \E batch \in SUBSET (read.ids \ read.met) :
        /\ batch # {} /\ Cardinality(batch) <= PageLength
        /\ LET found == batch \cap Selected(read)
               out == AddTo(read.out, found)
           IN IF found \cap broken # {} THEN Raise
              ELSE IF read.met \cup batch = read.ids THEN Return([read EXCEPT !.out = out])
              ELSE /\ read' = [read EXCEPT !.met = @ \cup batch, !.out = out]
                   /\ UNCHANGED result
    /\ UNCHANGED <<position, column, broken, touched, fault, edits, reads>>

(* The request of a page fails, or its answer is refused.                  *)
RequestFails ==
    /\ read # NoRead /\ Raise
    /\ UNCHANGED <<position, column, broken, touched, fault, edits, reads>>

-----------------------------------------------------------------------------

(* MemoryTrackerAdapter: the arm operations replace the fault (times = 0:  *)
(* until cleared); consume burns one use.                                  *)
Arm(kind, after, times) ==
    /\ fault = NoFault /\ edits < MaxEdits
    /\ fault' = [kind |-> kind, after |-> after, left |-> times]
    /\ edits' = edits + 1
    /\ UNCHANGED <<position, column, broken, read, result, touched, reads>>

ClearFaults ==
    /\ fault # NoFault /\ fault' = NoFault
    /\ UNCHANGED <<position, column, broken, read, result, touched, edits, reads>>

Consumed == CASE fault.left = 0 -> fault
              [] fault.left = 1 -> NoFault
              [] OTHER -> [fault EXCEPT !.left = @ - 1]

PagesFor(cards) == (Cardinality(cards) + PageLength - 1) \div PageLength

(* A pagination fault is met when a page after the first `after` is asked; *)
(* at least one page is.  A refresh by ids never meets it.                 *)
MeetsFault(r) ==
    \/ fault.kind = "request"
    \/ fault.kind = "pagination" /\ r.op = "states"
         /\ fault.after < (IF Selected(r) = {} THEN 1 ELSE PagesFor(Selected(r)))

MemoryRead(op, ids) ==
    LET r == [NoRead EXCEPT !.style = "linear", !.op = op, !.ids = ids]
        chosen == Selected(r)
    IN /\ read = NoRead /\ reads < MaxReads
       /\ op = "ids" => ids # {}
       /\ reads' = reads + 1 /\ touched' = {}
       /\ IF MeetsFault(r) THEN Raise /\ fault' = Consumed
          ELSE /\ UNCHANGED fault
               /\ IF op = "ids" /\ chosen \cap broken # {} THEN Raise
                  ELSE Return([r EXCEPT !.out = AddTo(None, chosen \ broken)])
       /\ UNCHANGED <<position, column, broken, edits>>

-----------------------------------------------------------------------------

(* People edit the board.  Only GitHub's order can be changed by hand:     *)
(* Linear's is orderBy createdAt, and the memory read does not wait.       *)
Drag(c) ==
    /\ edits < MaxEdits /\ read.style = "github"
    /\ \E p \in 1..(Cardinality(Cards) + MaxEdits) :
        /\ \A d \in Cards : position[d] # p
        /\ position' = [position EXCEPT ![c] = p]
    /\ edits' = edits + 1 /\ touched' = touched \cup {c}
    /\ UNCHANGED <<column, broken, read, result, fault, reads>>

MoveColumn(c, to) ==
    /\ edits < MaxEdits /\ column[c] # to
    /\ column' = [column EXCEPT ![c] = to]
    /\ edits' = edits + 1 /\ touched' = touched \cup {c}
    /\ UNCHANGED <<position, broken, read, result, fault, reads>>

ReadNext ==
    \/ \E style \in {"github", "linear"}, op \in {"states", "ids"}, ids \in SUBSET Cards :
        StartRead(style, op, ids)
    \/ PageArrives \/ BatchArrives \/ RequestFails
    \/ \E kind \in {"request", "pagination"}, after \in 0..1, times \in 0..2 :
        Arm(kind, after, times)
    \/ ClearFaults
    \/ \E op \in {"states", "ids"}, ids \in SUBSET Cards : MemoryRead(op, ids)
    \/ \E c \in Cards : Drag(c) \/ \E to \in {"wanted", "other", "off"} : MoveColumn(c, to)

ReadSpec == ReadInit /\ [][ReadNext]_readVars

(* fetch_issues_by_states and fetch_issues_by_ids, "rather than returning  *)
(* a silently truncated page set": a read that answers holds each card     *)
(* that nobody edited during it exactly once if it was asked for and can   *)
(* be normalized, and not otherwise; no card at all is held twice; and a   *)
(* refresh never answers while an asked card, visible all along, is broken.*)
ReadIsWhole ==
    result.ok =>
        /\ \A c \in Cards : result.out[c] <= 1
        /\ result.op = "states" => \A c \in Cards \ touched :
                (result.out[c] = 1) = (column[c] = "wanted" /\ c \notin broken)
        /\ result.op = "ids" => \A c \in Cards \ touched :
                /\ (result.out[c] = 1) = (column[c] # "off" /\ c \in result.ids)
                /\ result.out[c] = 1 => c \notin broken

=============================================================================
