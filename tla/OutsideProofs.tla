---------------------------- MODULE OutsideProofs ----------------------------
(***************************************************************************)
(* Theorems about what lives outside the process: the trackers             *)
(* (TrackerReads, for every board, page length and number of pages,        *)
(* however the board is edited while it is read), the worker hosts         *)
(* (HostPool, for every number of hosts, cap, finite set of tickets and    *)
(* number of leases), the hooks of an attempt (HookRun) and its Claude     *)
(* Code processes (ClaudeTurns).                                           *)
(***************************************************************************)
EXTENDS TrackerReads, HostPool, HookRun, ClaudeTurns, FiniteSetTheorems,
        WellFoundedInduction, TLAPS

-----------------------------------------------------------------------------
(* TrackerReads                                                            *)

USE ReadAssumption

ReadRecord ==
    [style : {"none", "github", "linear"}, op : {"none", "states", "ids"}, cursor : Nat,
     seen : SUBSET Nat, met : SUBSET Cards, ids : SUBSET Cards, pages : Nat, out : [Cards -> Nat]]

Board ==
    /\ position \in [Cards -> Nat \ {0}] /\ column \in [Cards -> {"wanted", "other", "off"}]
    /\ broken \subseteq Cards /\ touched \subseteq Cards

\* What a read that nobody disturbs is to answer.
Asked(r, c) ==
    IF r.op = "states" THEN column[c] = "wanted" /\ c \notin broken
    ELSE column[c] # "off" /\ c \in r.ids

Paging(r) == r.style = "linear" \/ (r.style = "github" /\ r.op = "states")
Batching(r) == r.style = "github" /\ r.op = "ids"

\* The cards that nobody edited are split by the cursor: those before it were
\* taken if asked for, those after it were not met.
PagesSoFar(r) ==
    Paging(r) => \A c \in Cards :
        /\ c \notin touched => (r.out[c] = 1 <=> (Asked(r, c) /\ position[c] <= r.cursor))
        /\ (r.style = "github" /\ c \in r.met \ touched) => position[c] <= r.cursor
        /\ (r.style = "linear" /\ r.out[c] = 1) => position[c] <= r.cursor

BatchesSoFar(r) ==
    Batching(r) =>
        /\ r.met \subseteq r.ids
        /\ \A c \in Cards \ touched : r.out[c] = 1 <=> (Asked(r, c) /\ c \in r.met)

\* Edited or not: a card is taken once, GitHub's adapter remembers it, and a
\* broken one is not taken.
TakenOnce(r) ==
    \A c \in Cards :
        /\ r.out[c] <= 1
        /\ r.out[c] = 1 => c \notin broken
        /\ (r.style = "github" /\ r.out[c] = 1) => c \in r.met

ReadInv ==
    /\ Board /\ read \in ReadRecord
    /\ read.style = "none" <=> read.op = "none"
    /\ PagesSoFar(read) /\ BatchesSoFar(read) /\ TakenOnce(read)
    /\ ReadIsWhole

-----------------------------------------------------------------------------
(* Pages                                                                   *)

LEMMA PageOf ==
    ASSUME Board, NEW r \in ReadRecord
    PROVE  /\ Selected(r) \subseteq Cards
           /\ Page(r) \subseteq {c \in Selected(r) : position[c] > r.cursor}
    BY DEF Selected, Page

\* A page holds with a card every selected one between the cursor and it.
LEMMA PageIsPrefix ==
    ASSUME Board, NEW r \in ReadRecord, NEW m \in Page(r),
           NEW c \in Selected(r), position[c] > r.cursor, position[c] <= position[m]
    PROVE  c \in Page(r)
<1>. DEFINE after == {d \in Selected(r) : position[d] > r.cursor}
            below(x) == {d \in after : position[d] < position[x]}
<1>1. /\ c \in after /\ m \in after /\ after \subseteq Cards
      /\ Cardinality(below(m)) < PageLength
    BY DEF Page, Selected
<1>2. \A d \in Cards : position[d] \in Nat
    BY DEF Board
<1>3. below(c) \subseteq below(m)
    BY <1>1, <1>2
<1>4. IsFiniteSet(below(m))
    BY <1>1, FS_Subset
<1>5. Cardinality(below(c)) <= Cardinality(below(m))
    BY <1>3, <1>4, FS_Subset
<1>6. Cardinality(below(c)) \in Nat /\ Cardinality(below(m)) \in Nat
    BY <1>3, <1>4, FS_Subset, FS_CardinalityType
<1>7. Cardinality(below(c)) < PageLength
    <2>1. PageLength \in Nat
        OBVIOUS
    <2>. QED
        BY <1>1, <1>5, <1>6, <2>1
<1>. QED
    BY <1>1, <1>7 DEF Page

\* A cursor that passes the checks stands for the last card of the page.
LEMMA NextCursor ==
    ASSUME Board, NEW r \in ReadRecord, NEW cursor \in EndCursors(r), ~BadCursor(r, cursor)
    PROVE  /\ cursor \in Nat /\ cursor > r.cursor
           /\ \A c \in Selected(r) :
                 c \in Page(r) <=> (position[c] > r.cursor /\ position[c] <= cursor)
<1>1. PICK m \in Page(r) : cursor = position[m] /\ \A e \in Page(r) : position[e] <= position[m]
    BY DEF EndCursors, BadCursor
<1>2. m \in Cards /\ position[m] > r.cursor /\ position[m] \in Nat
    BY <1>1, PageOf DEF Board
<1>. QED
    BY <1>1, <1>2, PageOf, PageIsPrefix

LEMMA AddToIs ==
    ASSUME NEW out \in [Cards -> Nat], NEW taken
    PROVE  /\ AddTo(out, taken) \in [Cards -> Nat]
           /\ \A c \in Cards : AddTo(out, taken)[c] = IF c \in taken THEN out[c] + 1 ELSE out[c]
    BY DEF AddTo

\* The cards of a page that count.
Tallied(r) == {c \in Kept(r) : r.op = "states" => column[c] = "wanted"}

LEMMA KeptIs ==
    ASSUME NEW r
    PROVE  \A c : c \in Kept(r) <=> /\ c \in Page(r) /\ c \notin broken
                                    /\ r.style = "github" => c \notin r.met
    BY DEF Kept

LEMMA AfterPageIs ==
    ASSUME Board, NEW r \in ReadRecord
    PROVE  /\ AfterPage(r) \in ReadRecord
           /\ AfterPage(r).style = r.style /\ AfterPage(r).op = r.op
           /\ AfterPage(r).ids = r.ids /\ AfterPage(r).cursor = r.cursor
           /\ AfterPage(r).seen = r.seen
           /\ AfterPage(r).met = r.met \cup Kept(r)
           /\ AfterPage(r).out = AddTo(r.out, Tallied(r))
<1>1. Kept(r) \subseteq Cards
    BY KeptIs, PageOf
<1>2. AddTo(r.out, Tallied(r)) \in [Cards -> Nat]
    BY AddToIs DEF ReadRecord
<1>3. PICK pages, met, out :
        /\ pages = r.pages + 1 /\ met = r.met \cup Kept(r) /\ out = AddTo(r.out, Tallied(r))
        /\ AfterPage(r) = [r EXCEPT !.pages = pages, !.met = met, !.out = out]
    BY Zenon DEF AfterPage, Tallied
<1>4. pages \in Nat /\ met \in SUBSET Cards /\ out \in [Cards -> Nat]
    BY <1>1, <1>2, <1>3 DEF ReadRecord
<1>. QED
    BY <1>3, <1>4 DEF ReadRecord

-----------------------------------------------------------------------------
(* A page arrives                                                          *)

\* What a page adds: each card asked for and not edited that it holds, once.
LEMMA PageTaken ==
    ASSUME Board, NEW r \in ReadRecord, Paging(r), PagesSoFar(r), TakenOnce(r),
           r.op # "none", r.op = "ids" => Page(r) \cap broken = {}
    PROVE  /\ TakenOnce(AfterPage(r))
           /\ \A c \in Cards \ touched :
                 AfterPage(r).out[c] = 1
                    <=> (Asked(r, c) /\ (position[c] <= r.cursor \/ c \in Page(r)))
           /\ \A c \in Cards : AfterPage(r).out[c] = 1 => r.out[c] = 1 \/ c \in Page(r)
<1>1. \A c \in Cards : AfterPage(r).out[c] = IF c \in Tallied(r) THEN r.out[c] + 1 ELSE r.out[c]
    BY AfterPageIs, AddToIs DEF ReadRecord
<1>2. /\ AfterPage(r).style = r.style /\ AfterPage(r).met = r.met \cup Kept(r)
      /\ \A c \in Cards : r.out[c] \in Nat /\ position[c] \in Nat
      /\ r.cursor \in Nat /\ r.op \in {"states", "ids"}
    BY AfterPageIs DEF ReadRecord, Board
<1>3. \A c \in Page(r) : c \in Selected(r) /\ position[c] > r.cursor
    BY PageOf
<1>4. \A c \in Tallied(r) : /\ c \in Page(r) /\ c \notin broken /\ c \in Kept(r)
                            /\ r.style = "github" => c \notin r.met
                            /\ r.op = "states" => column[c] = "wanted"
    BY KeptIs DEF Tallied
<1>5. ASSUME NEW c \in Cards, c \in Tallied(r) PROVE r.out[c] = 0 /\ Asked(r, c)
    <2>1. r.out[c] # 1
        BY <1>2, <1>3, <1>4, <1>5 DEF PagesSoFar, TakenOnce, Paging
    <2>2. r.out[c] = 0
        BY <2>1, <1>2 DEF TakenOnce
    <2>3. Asked(r, c)
        BY <1>2, <1>3, <1>4, <1>5 DEF Asked, Selected
    <2>. QED
        BY <2>2, <2>3
<1>6. ASSUME NEW c \in Cards, c \notin Tallied(r), c \notin touched, c \in Page(r)
      PROVE  ~Asked(r, c)
    <2>1. ~(c \in r.met /\ r.style = "github")
        BY <1>2, <1>3, <1>6 DEF PagesSoFar
    <2>2. c \in broken \/ (r.op = "states" /\ column[c] # "wanted")
        BY <2>1, <1>6, KeptIs DEF Tallied
    <2>. QED
        BY <2>2, <1>2, <1>6 DEF Asked
<1>7. TakenOnce(AfterPage(r))
    BY <1>1, <1>2, <1>4, <1>5 DEF TakenOnce
<1>8. ASSUME NEW c \in Cards \ touched
      PROVE  AfterPage(r).out[c] = 1
                <=> (Asked(r, c) /\ (position[c] <= r.cursor \/ c \in Page(r)))
    <2>1. CASE c \in Tallied(r)
        BY <2>1, <1>1, <1>4, <1>5
    <2>2. CASE c \notin Tallied(r)
        <3>1. AfterPage(r).out[c] = r.out[c]
            BY <2>2, <1>1
        <3>2. r.out[c] = 1 <=> (Asked(r, c) /\ position[c] <= r.cursor)
            BY DEF PagesSoFar
        <3>. QED
            BY <3>1, <3>2, <2>2, <1>6
    <2>. QED
        BY <2>1, <2>2
<1>9. \A c \in Cards : AfterPage(r).out[c] = 1 => r.out[c] = 1 \/ c \in Page(r)
    BY <1>1, <1>4
<1>. QED
    BY <1>7, <1>8, <1>9

LEMMA AskedIsSelected ==
    ASSUME Board, NEW r \in ReadRecord, r.op # "none", NEW c \in Cards, Asked(r, c)
    PROVE  c \in Selected(r)
    BY DEF Asked, Selected, ReadRecord, Board

LEMMA RaiseKeeps ==
    ASSUME ReadInv, Raise, UNCHANGED <<position, column, broken, touched>>
    PROVE  ReadInv'
<1>1. NoRead \in ReadRecord /\ NoRead.style = "none" /\ NoRead.op = "none"
      /\ \A c \in Cards : NoRead.out[c] = 0
    BY DEF NoRead, None, ReadRecord
<1>2. read' = NoRead /\ result'.ok = FALSE
    BY DEF Raise, Raised
<1>3. Board'
    BY DEF ReadInv, Board
<1>. QED
    BY <1>1, <1>2, <1>3 DEF ReadInv, PagesSoFar, BatchesSoFar, TakenOnce, Paging, Batching, ReadIsWhole

LEMMA ReturnKeeps ==
    ASSUME Board, NEW r \in ReadRecord, Return(r), UNCHANGED <<position, column, broken, touched>>,
           r.op # "none", TakenOnce(r), \A c \in Cards \ touched : r.out[c] = 1 <=> Asked(r, c)
    PROVE  ReadInv'
<1>1. NoRead \in ReadRecord /\ NoRead.style = "none" /\ NoRead.op = "none"
      /\ \A c \in Cards : NoRead.out[c] = 0
    BY DEF NoRead, None, ReadRecord
<1>2. /\ read' = NoRead
      /\ result'.op = r.op /\ result'.ids = r.ids /\ result'.out = r.out
    BY DEF Return
<1>3. Board'
    BY DEF Board
<1>4. ReadIsWhole'
    <2>1. \A c \in Cards : r.out[c] <= 1 /\ (r.out[c] = 1 => c \notin broken)
        BY DEF TakenOnce
    <2>2. ASSUME r.op = "states", NEW c \in Cards \ touched
          PROVE  (r.out[c] = 1) = (column[c] = "wanted" /\ c \notin broken)
        BY <2>2 DEF Asked
    <2>3. ASSUME r.op = "ids", NEW c \in Cards \ touched
          PROVE  (r.out[c] = 1) = (column[c] # "off" /\ c \in r.ids)
        BY <2>3 DEF Asked
    <2>. QED
        BY <1>2, <2>1, <2>2, <2>3 DEF ReadIsWhole
<1>. QED
    BY <1>1, <1>2, <1>3, <1>4 DEF ReadInv, PagesSoFar, BatchesSoFar, TakenOnce, Paging, Batching

LEMMA PageKeeps == ASSUME ReadInv, PageArrives PROVE ReadInv'
<1>1. /\ Board /\ read \in ReadRecord /\ Paging(read) /\ read.op \in {"states", "ids"}
      /\ PagesSoFar(read) /\ TakenOnce(read)
      /\ UNCHANGED <<position, column, broken, touched>>
    <2>1. read.style = "linear" \/ read.op = "states"
        BY Zenon DEF PageArrives
    <2>2. UNCHANGED <<position, column, broken, touched>>
        BY Zenon DEF PageArrives
    <2>. QED
        BY <2>1, <2>2 DEF ReadInv, Paging, ReadRecord
<1>2. CASE Raise
    BY <1>1, <1>2, RaiseKeeps
<1>3. ASSUME ~Raise PROVE read.op = "ids" => Page(read) \cap broken = {}
    BY <1>3, Zenon DEF PageArrives
<1>4. CASE ~Raise /\ Return(AfterPage(read)) /\ ~HasNext(read)
    <2>1. /\ AfterPage(read) \in ReadRecord /\ AfterPage(read).op = read.op
          /\ AfterPage(read).ids = read.ids
        BY <1>1, AfterPageIs
    <2>2. \A c \in Selected(read) : position[c] <= read.cursor \/ c \in Page(read)
        BY <1>1, <1>4, PageOf DEF HasNext, Board, ReadRecord
    <2>3. \A c \in Cards \ touched : AfterPage(read).out[c] = 1 <=> Asked(read, c)
        BY <1>1, <1>3, <1>4, <2>2, PageTaken, AskedIsSelected
    <2>4. \A c \in Cards : Asked(AfterPage(read), c) <=> Asked(read, c)
        BY <2>1 DEF Asked
    <2>5. TakenOnce(AfterPage(read))
        BY <1>1, <1>3, <1>4, PageTaken
    <2>. QED
        BY <1>1, <1>4, <2>1, <2>3, <2>4, <2>5, ReturnKeeps
<1>5. ASSUME ~Raise, NEW cursor \in EndCursors(read), ~BadCursor(read, cursor),
             read' = [AfterPage(read) EXCEPT !.cursor = cursor, !.seen = @ \cup {cursor}],
             UNCHANGED result
      PROVE  ReadInv'
    <2>. DEFINE a == AfterPage(read)
    <2>1. /\ a \in ReadRecord /\ a.style = read.style /\ a.op = read.op /\ a.ids = read.ids
          /\ a.met = read.met \cup Kept(read)
        BY <1>1, AfterPageIs
    <2>2. /\ cursor \in Nat /\ cursor > read.cursor
          /\ \A c \in Selected(read) :
                c \in Page(read) <=> (position[c] > read.cursor /\ position[c] <= cursor)
        BY <1>1, <1>5, NextCursor
    <2>. HIDE DEF a
    <2>3. /\ read' \in ReadRecord /\ read'.style = read.style /\ read'.op = read.op
          /\ read'.ids = read.ids /\ read'.met = read.met \cup Kept(read)
          /\ read'.out = a.out /\ read'.cursor = cursor
        BY <1>5, <2>1, <2>2 DEF ReadRecord, a
    <2>4. /\ TakenOnce(a)
          /\ \A c \in Cards \ touched :
                 a.out[c] = 1 <=> (Asked(read, c) /\ (position[c] <= read.cursor \/ c \in Page(read)))
          /\ \A c \in Cards : a.out[c] = 1 => read.out[c] = 1 \/ c \in Page(read)
        BY <1>1, <1>3, <1>5, PageTaken DEF a
    <2>5. \A c \in Cards : position[c] \in Nat /\ read.cursor \in Nat
        BY <1>1 DEF Board, ReadRecord
    <2>6. \A c \in Cards : Asked(read, c)' <=> Asked(read, c)
        BY <1>1, <2>3 DEF Asked
    <2>7. TakenOnce(read)'
        BY <1>1, <2>1, <2>3, <2>4 DEF TakenOnce
    <2>8. PagesSoFar(read)'
        <3>1. ASSUME NEW c \in Cards \ touched
              PROVE  read'.out[c] = 1 <=> (Asked(read, c) /\ position[c] <= cursor)
            BY <1>1, <2>2, <2>3, <2>4, <2>5, AskedIsSelected
        <3>2. ASSUME NEW c \in (read.met \cup Kept(read)) \ touched, read.style = "github", c \in Cards
              PROVE  position[c] <= cursor
            <4>1. CASE c \in Kept(read)
                BY <1>1, <4>1, <2>2, KeptIs, PageOf
            <4>2. CASE c \in read.met
                <5>1. position[c] <= read.cursor
                    BY <1>1, <3>2, <4>2 DEF PagesSoFar
                <5>. QED
                    BY <5>1, <2>2, <2>5, <3>2
            <4>. QED
                BY <3>2, <4>1, <4>2
        <3>3. ASSUME NEW c \in Cards, read.style = "linear", a.out[c] = 1
              PROVE  position[c] <= cursor
            <4>1. CASE c \in Page(read)
                BY <1>1, <4>1, <2>2, PageOf
            <4>2. CASE read.out[c] = 1
                <5>1. position[c] <= read.cursor
                    BY <1>1, <3>3, <4>2 DEF PagesSoFar
                <5>. QED
                    BY <5>1, <2>2, <2>5
            <4>. QED
                BY <3>3, <2>4, <4>1, <4>2
        <3>. QED
            BY <1>1, <2>3, <2>6, <3>1, <3>2, <3>3 DEF PagesSoFar
    <2>9. BatchesSoFar(read)'
        BY <1>1, <2>3 DEF BatchesSoFar, Batching, Paging
    <2>10. Board' /\ ReadIsWhole'
        BY <1>1, <1>5 DEF ReadInv, Board, ReadIsWhole
    <2>. QED
        BY <1>1, <2>3, <2>7, <2>8, <2>9, <2>10 DEF ReadInv, Paging
<1>. QED
    BY <1>2, <1>4, <1>5, Zenon DEF PageArrives

-----------------------------------------------------------------------------
(* The other steps                                                         *)

LEMMA StartKeeps ==
    ASSUME ReadInv, NEW style \in {"github", "linear"}, NEW op \in {"states", "ids"},
           NEW ids \in SUBSET Cards, StartRead(style, op, ids)
    PROVE  ReadInv'
<1>1. /\ read' = [NoRead EXCEPT !.style = style, !.op = op, !.ids = ids]
      /\ touched' = {} /\ result' = Raised
      /\ UNCHANGED <<position, column, broken>>
    BY Zenon DEF StartRead
<1>2. /\ read' \in ReadRecord /\ read'.style = style /\ read'.op = op /\ read'.ids = ids
      /\ read'.met = {} /\ read'.cursor = 0 /\ \A c \in Cards : read'.out[c] = 0
    BY <1>1 DEF NoRead, None, ReadRecord
<1>3. Board' /\ \A c \in Cards : position'[c] > 0 /\ position'[c] \in Nat
    BY <1>1 DEF ReadInv, Board
<1>4. ReadIsWhole'
    BY <1>1 DEF Raised, ReadIsWhole
<1>. QED
    BY <1>2, <1>3, <1>4 DEF ReadInv, PagesSoFar, BatchesSoFar, TakenOnce, Paging, Batching

\* A batch of ids that resolve: what is found of it is new.
LEMMA BatchTaken ==
    ASSUME Board, NEW r \in ReadRecord, Batching(r), BatchesSoFar(r), TakenOnce(r),
           NEW batch \in SUBSET (r.ids \ r.met), batch \cap Selected(r) \cap broken = {},
           NEW s \in ReadRecord, s.style = r.style, s.op = r.op, s.ids = r.ids,
           s.met = r.met \cup batch, s.out = AddTo(r.out, batch \cap Selected(r))
    PROVE  TakenOnce(s) /\ BatchesSoFar(s)
<1>. DEFINE found == batch \cap Selected(r)
<1>1. \A c \in Cards : s.out[c] = IF c \in found THEN r.out[c] + 1 ELSE r.out[c]
    BY AddToIs DEF ReadRecord
<1>2. \A c \in Cards : r.out[c] \in Nat
    BY DEF ReadRecord
<1>. HIDE DEF found
<1>3. ASSUME NEW c \in found PROVE s.out[c] = 1
    <2>1. c \in Cards /\ c \notin r.met
        BY DEF ReadRecord, found
    <2>2. r.out[c] = 0
        BY <1>2, <2>1 DEF Batching, TakenOnce
    <2>3. s.out[c] = r.out[c] + 1
        BY <1>1, <2>1, Zenon
    <2>. QED
        BY <2>2, <2>3
<1>4. TakenOnce(s)
    <2>1. \A c \in Cards : r.out[c] <= 1 /\ (r.out[c] = 1 => c \notin broken /\ c \in r.met)
        BY DEF TakenOnce, Batching
    <2>2. \A c \in found : c \notin broken /\ c \in s.met
        BY DEF found
    <2>3. \A c \in Cards : c \in r.met => c \in s.met
        OBVIOUS
    <2>4. ASSUME NEW c \in Cards
          PROVE  s.out[c] <= 1 /\ (s.out[c] = 1 => c \notin broken /\ c \in s.met)
        <3>1. CASE c \in found
            BY <3>1, <1>3, <2>2
        <3>2. CASE c \notin found
            BY <3>2, <1>1, <2>1, <2>3
        <3>. QED
            BY <3>1, <3>2
    <2>. QED
        BY <2>4 DEF TakenOnce
<1>5. ASSUME NEW c \in Cards \ touched PROVE s.out[c] = 1 <=> (Asked(s, c) /\ c \in s.met)
    <2>1. Asked(s, c) <=> (column[c] # "off" /\ c \in r.ids)
        BY DEF Asked, Batching
    <2>2. r.out[c] = 1 <=> (column[c] # "off" /\ c \in r.ids /\ c \in r.met)
        BY DEF BatchesSoFar, Asked, Batching
    <2>3. c \in found <=> c \in batch /\ column[c] # "off" /\ c \in r.ids
        BY DEF Selected, Batching, found
    <2>4. CASE c \in found
        BY <2>4, <1>1, <1>3, <2>1, <2>3
    <2>5. CASE c \notin found
        <3>1. s.out[c] = r.out[c] /\ (c \in s.met <=> c \in r.met \/ c \in batch)
            BY <2>5, <1>1
        <3>. QED
            BY <2>5, <2>1, <2>2, <2>3, <3>1
    <2>. QED
        BY <2>4, <2>5
<1>. QED
    BY <1>4, <1>5 DEF BatchesSoFar

LEMMA BatchKeeps == ASSUME ReadInv, BatchArrives PROVE ReadInv'
<1>1. /\ Batching(read) /\ UNCHANGED <<position, column, broken, touched>>
    BY Zenon DEF BatchArrives, Batching
<1>2. Board /\ read \in ReadRecord /\ BatchesSoFar(read) /\ TakenOnce(read)
    BY DEF ReadInv
<1>3. CASE Raise
    BY <1>1, <1>3, RaiseKeeps
<1>4. CASE ~Raise
    <2>. DEFINE Adds(batch, out) ==
            /\ out = AddTo(read.out, batch \cap Selected(read))
            /\ (batch \cap Selected(read)) \cap broken = {}
            /\ IF read.met \cup batch = read.ids THEN Return([read EXCEPT !.out = out])
               ELSE /\ read' = [read EXCEPT !.met = @ \cup batch, !.out = out]
                    /\ UNCHANGED result
    <2>0. PICK batch \in SUBSET (read.ids \ read.met) : \E out : Adds(batch, out)
        BY <1>4, Zenon DEF BatchArrives
    <2>1. PICK out : Adds(batch, out)
        BY <2>0, Zenon
    <2>2. out \in [Cards -> Nat] /\ batch \subseteq Cards
        BY <1>2, <2>1, AddToIs DEF ReadRecord
    <2>. DEFINE s == [read EXCEPT !.met = @ \cup batch, !.out = out]
    <2>3. /\ s \in ReadRecord /\ s.style = read.style /\ s.op = read.op /\ s.ids = read.ids
          /\ s.met = read.met \cup batch /\ s.out = out
        BY <1>2, <2>2 DEF ReadRecord
    <2>. HIDE DEF s
    <2>4. TakenOnce(s) /\ BatchesSoFar(s)
        BY <1>1, <1>2, <2>1, <2>3, BatchTaken
    <2>5. CASE read.met \cup batch = read.ids
        <3>. DEFINE t == [read EXCEPT !.out = out]
        <3>1. /\ t \in ReadRecord /\ t.style = read.style /\ t.op = read.op /\ t.ids = read.ids
              /\ t.met = read.met /\ t.out = out
            BY <1>2, <2>2 DEF ReadRecord
        <3>2. Return(t)
            BY <2>1, <2>5
        <3>. HIDE DEF t
        <3>3. t.op = "ids" /\ s.op = "ids" /\ s.style = "github"
            BY <1>1, <2>3, <3>1 DEF Batching
        <3>4. \A c \in Cards : Asked(t, c) <=> column[c] # "off" /\ c \in s.met
            BY <2>3, <2>5, <3>1, <3>3 DEF Asked
        <3>5. \A c \in Cards \ touched : t.out[c] = 1 <=> Asked(t, c)
            BY <2>3, <2>4, <2>5, <3>1, <3>3, <3>4 DEF BatchesSoFar, Batching, Asked
        <3>. DEFINE u == [t EXCEPT !.met = Cards]
        <3>6. /\ u \in ReadRecord /\ u.op = t.op /\ u.ids = t.ids /\ u.pages = t.pages /\ u.out = t.out
              /\ u.met = Cards
            BY <3>1 DEF ReadRecord
        <3>7. Return(u)
            BY <3>2, <3>6 DEF Return
        <3>. HIDE DEF u
        <3>8. TakenOnce(u)
            BY <2>3, <2>4, <3>1, <3>6 DEF TakenOnce
        <3>9. \A c \in Cards \ touched : u.out[c] = 1 <=> Asked(u, c)
            BY <3>5, <3>6 DEF Asked
        <3>. QED
            BY <1>1, <1>2, <3>3, <3>6, <3>7, <3>8, <3>9, ReturnKeeps
    <2>6. CASE read.met \cup batch # read.ids
        <3>1. read' = s /\ UNCHANGED result
            BY <2>1, <2>6 DEF s
        <3>2. Board' /\ ReadIsWhole' /\ TakenOnce(read)' /\ BatchesSoFar(read)'
            BY <1>1, <1>2, <2>4, <3>1 DEF ReadInv, Board, ReadIsWhole, TakenOnce, BatchesSoFar, Asked
        <3>3. ~Paging(read)' /\ read'.style = "github" /\ read'.op = "ids"
            BY <1>1, <2>3, <3>1 DEF Paging, Batching
        <3>. QED
            BY <2>3, <3>1, <3>2, <3>3 DEF ReadInv, PagesSoFar
    <2>. QED
        BY <2>5, <2>6
<1>. QED
    BY <1>3, <1>4

LEMMA MemoryKeeps ==
    ASSUME ReadInv, NEW op \in {"states", "ids"}, NEW ids \in SUBSET Cards, MemoryRead(op, ids)
    PROVE  ReadInv'
<1>. DEFINE r == [NoRead EXCEPT !.style = "linear", !.op = op, !.ids = ids]
            answer == [r EXCEPT !.out = AddTo(None, Selected(r) \ broken)]
<1>1. /\ read = NoRead /\ touched' = {} /\ UNCHANGED <<position, column, broken>>
      /\ \/ Raise
         \/ /\ Return(answer)
            /\ ~(op = "ids" /\ Selected(r) \cap broken # {})
    BY Zenon DEF MemoryRead
<1>2. /\ r \in ReadRecord /\ r.style = "linear" /\ r.op = op /\ r.ids = ids
    BY DEF NoRead, None, ReadRecord
<1>3. None \in [Cards -> Nat] /\ \A c \in Cards : None[c] = 0
    BY DEF None
<1>4. /\ AddTo(None, Selected(r) \ broken) \in [Cards -> Nat]
      /\ \A c \in Cards : AddTo(None, Selected(r) \ broken)[c]
                            = IF c \in Selected(r) \ broken THEN 1 ELSE 0
    BY <1>3, AddToIs
<1>5. /\ answer \in ReadRecord /\ answer.style = "linear" /\ answer.op = op /\ answer.ids = ids
      /\ answer.out = AddTo(None, Selected(r) \ broken)
    BY <1>2, <1>4 DEF ReadRecord
<1>. HIDE DEF r, answer
<1>6. /\ op = "states" => \A c \in Cards : c \in Selected(r) <=> column[c] = "wanted"
      /\ op = "ids" => \A c \in Cards : c \in Selected(r) <=> (column[c] # "off" /\ c \in ids)
    BY <1>2 DEF Selected
<1>7. TakenOnce(answer)
    BY <1>4, <1>5 DEF TakenOnce
<1>8. /\ read'.style = "none" /\ read'.op = "none" /\ read' \in ReadRecord
      /\ \A c \in Cards : read'.out[c] = 0
    BY <1>1 DEF Raise, Return, NoRead, None, ReadRecord
<1>9. Board'
    BY <1>1 DEF ReadInv, Board
<1>10. ReadIsWhole'
    <2>1. CASE Raise
        BY <2>1 DEF Raise, Raised, ReadIsWhole
    <2>2. CASE Return(answer) /\ ~(op = "ids" /\ Selected(r) \cap broken # {})
        <3>1. result'.op = op /\ result'.ids = ids /\ result'.out = answer.out
            BY <2>2, <1>5 DEF Return
        <3>2. \A c \in Cards : answer.out[c] <= 1 /\ (answer.out[c] = 1 <=> c \in Selected(r) \ broken)
            BY <1>4, <1>5
        <3>3. ASSUME op = "states", NEW c \in Cards
              PROVE  answer.out[c] = 1 <=> (column[c] = "wanted" /\ c \notin broken)
            BY <3>2, <3>3, <1>6
        <3>4. ASSUME op = "ids", NEW c \in Cards
              PROVE  /\ answer.out[c] = 1 <=> (column[c] # "off" /\ c \in ids)
                     /\ answer.out[c] = 1 => c \notin broken
            BY <3>2, <3>4, <1>6, <2>2
        <3>. QED
            BY <1>1, <3>1, <3>2, <3>3, <3>4 DEF ReadIsWhole
    <2>. QED
        BY <1>1, <2>1, <2>2
<1>. QED
    BY <1>8, <1>9, <1>10 DEF ReadInv, PagesSoFar, BatchesSoFar, TakenOnce, Paging, Batching

\* Who edits a card is named: the rest of the board is as it was.
LEMMA EditKeeps ==
    ASSUME ReadInv, NEW e \in Cards, Drag(e) \/ \E to \in {"wanted", "other", "off"} : MoveColumn(e, to)
    PROVE  ReadInv'
<1>1. /\ touched' = touched \cup {e} /\ UNCHANGED <<broken, read, result>>
      /\ \A c \in Cards \ {e} : position'[c] = position[c] /\ column'[c] = column[c]
      /\ Board' /\ (position' = position \/ read.style = "github")
    BY DEF ReadInv, Board, Drag, MoveColumn
<1>2. \A c \in Cards \ touched' : Asked(read, c)' <=> Asked(read, c)
    BY <1>1 DEF Asked
<1>3. PagesSoFar(read)' /\ BatchesSoFar(read)'
    BY <1>1, <1>2 DEF ReadInv, PagesSoFar, BatchesSoFar, Paging, Batching
<1>4. TakenOnce(read)' /\ ReadIsWhole'
    BY <1>1 DEF ReadInv, TakenOnce, ReadIsWhole
<1>. QED
    BY <1>1, <1>3, <1>4 DEF ReadInv

LEMMA ReadInvStep == ASSUME ReadInv, [ReadNext]_readVars PROVE ReadInv'
<1>1. CASE \E style \in {"github", "linear"}, op \in {"states", "ids"}, ids \in SUBSET Cards :
              StartRead(style, op, ids)
    BY <1>1, StartKeeps
<1>2. CASE PageArrives \/ BatchArrives
    BY <1>2, PageKeeps, BatchKeeps
<1>3. CASE RequestFails
    BY <1>3, RaiseKeeps DEF RequestFails
<1>4. CASE \E op \in {"states", "ids"}, ids \in SUBSET Cards : MemoryRead(op, ids)
    BY <1>4, MemoryKeeps
<1>5. CASE \E c \in Cards : Drag(c) \/ \E to \in {"wanted", "other", "off"} : MoveColumn(c, to)
    BY <1>5, EditKeeps
<1>6. CASE UNCHANGED <<position, column, broken, read, result, touched>>
    BY <1>6 DEF ReadInv, Board, PagesSoFar, BatchesSoFar, TakenOnce, ReadIsWhole, Paging, Batching, Asked
<1>7. CASE \/ \E kind \in {"request", "pagination"}, after \in 0 .. 1, times \in 0 .. 2 :
                Arm(kind, after, times)
           \/ ClearFaults \/ UNCHANGED readVars
    BY <1>6, <1>7 DEF Arm, ClearFaults, readVars
<1>. QED
    BY <1>1, <1>2, <1>3, <1>4, <1>5, <1>7 DEF ReadNext

LEMMA ReadInvInit == ReadInit => ReadInv
<1>. SUFFICES ASSUME ReadInit PROVE ReadInv
    OBVIOUS
<1>1. read = NoRead /\ result = Raised
    BY DEF ReadInit
<1>2. NoRead \in ReadRecord /\ NoRead.style = "none" /\ NoRead.op = "none"
      /\ \A c \in Cards : NoRead.out[c] = 0
    BY DEF NoRead, None, ReadRecord
<1>3. Board
    BY FS_CardinalityType DEF ReadInit, Board
<1>. QED
    BY <1>1, <1>2, <1>3 DEF ReadInv, PagesSoFar, BatchesSoFar, TakenOnce, Paging, Batching,
       ReadIsWhole, Raised

(* fetch_issues_by_states and fetch_issues_by_ids of the three adapters:   *)
(* on every board, with pages of any length and however people move and    *)
(* drag cards between two requests, a read that answers is whole for the   *)
(* cards that nobody touched, and counts no card twice.                    *)
THEOREM ReadsAreWhole == ReadSpec => []ReadIsWhole
<1>1. ReadInit => ReadInv
    BY ReadInvInit
<1>2. ReadInv /\ [ReadNext]_readVars => ReadInv'
    BY ReadInvStep
<1>3. ReadInv => ReadIsWhole
    BY DEF ReadInv
<1>. QED
    BY <1>1, <1>2, <1>3, PTL DEF ReadSpec

-----------------------------------------------------------------------------
(* HostPool                                                                *)

USE PoolAssumption

-----------------------------------------------------------------------------
(* The choice of a host                                                    *)

\* Every nonempty set of naturals has a least element.
LEMMA LeastNatural ==
    ASSUME NEW S \in SUBSET Nat, S # {}
    PROVE  \E m \in S : \A n \in S : m <= n
<1>1. PICK m \in S : \A n \in S : ~(<<n, m>> \in OpToRel(<, Nat))
    BY WFMin, NatLessThanWellFounded, Zenon
<1>2. \A n \in S : ~(n < m)
    BY <1>1 DEF OpToRel
<1>. QED
    BY <1>2

\* Among the hosts with room there is one the pool prefers to all others:
\* the first in config order of those with the fewest workers.
LEMMA LeastLoadedExists ==
    ASSUME PoolTypes, Available # {}
    PROVE  \E h \in Available : LeastLoaded(h)
<1> DEFINE Loads == {inUse[h] : h \in Available}
<1>1. Available \subseteq Hosts /\ Hosts \subseteq Nat
    BY DEF Available, Hosts
<1>2. \A h \in Available : inUse[h] \in Nat
    BY <1>1 DEF PoolTypes
<1>3. Loads \in SUBSET Nat /\ Loads # {}
    BY <1>2
<1>4. PICK load \in Loads : \A n \in Loads : load <= n
    BY <1>3, LeastNatural
<1> DEFINE Firsts == {h \in Available : inUse[h] = load}
<1>5. Firsts \in SUBSET Nat /\ Firsts # {}
    BY <1>1, <1>4
<1>6. PICK h \in Firsts : \A g \in Firsts : h <= g
    BY <1>5, LeastNatural
<1>7. ASSUME NEW g \in Available
      PROVE  inUse[h] < inUse[g] \/ (inUse[h] = inUse[g] /\ h <= g)
    <2>1. inUse[h] = load /\ load \in Nat
        BY <1>3, <1>6
    <2>2. load <= inUse[g] /\ inUse[g] \in Nat
        BY <1>2, <1>4
    <2>3. inUse[g] = load => h <= g
        BY <1>6
    <2>. QED
        BY <2>1, <2>2, <2>3
<1>. QED
    BY <1>6, <1>7 DEF LeastLoaded

(* HostPool._select: whatever host is preferred, the one it reserves on is *)
(* configured and has room.                                                *)
LEMMA SelectHasRoom ==
    ASSUME PoolTypes, Available # {}, NEW p
    PROVE  Select(p) \in Available /\ Select(p) \in Hosts
<1>1. PICK h \in Available : LeastLoaded(h)
    BY LeastLoadedExists
<1>2. (CHOOSE g \in Available : LeastLoaded(g)) \in Available
    BY <1>1, Zenon
<1>3. Select(p) \in Available
    BY <1>2, Zenon DEF Select
<1>. QED
    BY <1>3 DEF Available

-----------------------------------------------------------------------------
(* Types                                                                   *)

Asleep == {"waiting", "woken"}

\* Waking the waiters changes nothing else.
LEMMA NotifiedTypes ==
    ASSUME NEW states \in [Tickets -> LeaseStates]
    PROVE  /\ Notified(states) \in [Tickets -> LeaseStates]
           /\ \A t \in Tickets :
                /\ Notified(states)[t] # "waiting"
                /\ states[t] \notin Asleep => Notified(states)[t] = states[t]
                /\ states[t] \in Asleep => Notified(states)[t] = "woken"
    BY DEF Notified, LeaseStates, Leased, Asleep

LEMMA PoolTypesInit == PoolInit => PoolTypes
    BY DEF PoolInit, PoolTypes, LeaseStates, Leased, Hosts

LEMMA TryAcquireTypes ==
    ASSUME PoolTypes, NEW t \in Tickets, TryAcquire(t),
           UNCHANGED <<reachable, prefer, attempt, effects>>
    PROVE  PoolTypes'
<1>1. CASE Available = {}
    BY <1>1 DEF TryAcquire, PoolTypes, LeaseStates, Leased, Hosts
<1>2. CASE Available # {}
    <2> DEFINE h == Select(prefer[t])
    <2>1. h \in Hosts
        BY <1>2, SelectHasRoom
    <2>2. /\ inUse' = [inUse EXCEPT ![h] = @ + 1] /\ host' = [host EXCEPT ![t] = h]
          /\ latch' = [latch EXCEPT ![t] = FALSE] /\ lease' = [lease EXCEPT ![t] = "leased"]
          /\ runs' = [runs EXCEPT ![t] = @ + 1]
        BY <1>2 DEF TryAcquire
    <2> HIDE DEF h
    <2>. QED
        BY <2>1, <2>2 DEF PoolTypes, LeaseStates, Leased
<1>. QED
    BY <1>1, <1>2

LEMMA ReleaseTypes ==
    ASSUME PoolTypes, NEW t \in Tickets, NEW next \in {"ended", "idle"}, Release(t, next)
    PROVE  /\ inUse' \in [Hosts -> Nat] /\ lease' \in [Tickets -> LeaseStates]
           /\ host' \in [Tickets -> Hosts \cup {0}] /\ prefer' \in [Tickets -> Hosts \cup {0}]
<1>1. [lease EXCEPT ![t] = next] \in [Tickets -> LeaseStates]
    BY DEF PoolTypes, LeaseStates
<1>2. lease' \in [Tickets -> LeaseStates]
    BY <1>1, NotifiedTypes DEF Release
<1>3. host[t] \in Hosts \cup {0}
    BY DEF PoolTypes
<1>4. inUse' \in [Hosts -> Nat]
    <2>1. inUse' = [inUse EXCEPT ![host[t]] = IF @ > 0 THEN @ - 1 ELSE @]
        BY DEF Release
    <2>2. inUse \in [Hosts -> Nat]
        BY DEF PoolTypes
    <2>3. \A h \in Hosts : inUse'[h] \in Nat
        BY <2>1, <2>2
    <2>. QED
        BY <2>1, <2>2, <2>3
<1>5. host' = [host EXCEPT ![t] = 0] /\ prefer' = [prefer EXCEPT ![t] = host[t]]
    BY DEF Release
<1>6. host' \in [Tickets -> Hosts \cup {0}]
    BY <1>5 DEF PoolTypes
<1>7. prefer' \in [Tickets -> Hosts \cup {0}]
    BY <1>3, <1>5 DEF PoolTypes
<1>. QED
    BY <1>2, <1>4, <1>6, <1>7

\* Who still holds a lease after one was released held it before, and holds
\* the same host.
LEMMA ReleaseLeases ==
    ASSUME PoolTypes, NEW t \in Tickets, NEW next \in {"ended", "idle"}, Release(t, next),
           NEW u \in Tickets
    PROVE  lease'[u] \in Leased <=> u # t /\ lease[u] \in Leased
<1>1. [lease EXCEPT ![t] = next] \in [Tickets -> LeaseStates]
    BY DEF PoolTypes, LeaseStates
<1> DEFINE states == [lease EXCEPT ![t] = next]
<1>2. lease' = Notified(states)
    BY DEF Release
<1>3. states[u] = IF u = t THEN next ELSE lease[u]
    BY DEF PoolTypes
<1>4. states[u] \in LeaseStates
    BY <1>1
<1> HIDE DEF states
<1>5. lease'[u] \in Leased <=> states[u] \in Leased
    BY <1>1, <1>2, <1>4, NotifiedTypes DEF Leased, Asleep, states
<1>. QED
    BY <1>3, <1>5 DEF Leased

\* Of the others a release only wakes those that wait.
LEMMA ReleaseOthers ==
    ASSUME PoolTypes, NEW t \in Tickets, NEW next \in {"ended", "idle"}, Release(t, next),
           NEW u \in Tickets, u # t
    PROVE  lease'[u] = lease[u] \/ (lease[u] \in Asleep /\ lease'[u] \in Asleep)
<1> DEFINE states == [lease EXCEPT ![t] = next]
<1>1. states \in [Tickets -> LeaseStates] /\ states[u] = lease[u]
    BY DEF PoolTypes, LeaseStates
<1>2. lease' = Notified(states)
    BY DEF Release
<1> HIDE DEF states
<1>. QED
    BY <1>1, <1>2, NotifiedTypes DEF Asleep

LEMMA ReleasedTicket ==
    ASSUME PoolTypes, NEW t \in Tickets, NEW next \in {"ended", "idle"}, Release(t, next)
    PROVE  lease'[t] = next
<1> DEFINE states == [lease EXCEPT ![t] = next]
<1>1. states \in [Tickets -> LeaseStates] /\ states[t] = next
    BY DEF PoolTypes, LeaseStates
<1>2. lease' = Notified(states)
    BY DEF Release
<1> HIDE DEF states
<1>. QED
    BY <1>1, <1>2, NotifiedTypes DEF Asleep

LEMMA ReleaseHosts ==
    ASSUME PoolTypes, NEW t \in Tickets, NEW next \in {"ended", "idle"}, Release(t, next),
           NEW u \in Tickets, u # t
    PROVE  host'[u] = host[u]
    BY DEF Release, PoolTypes

\* A ticket holds a host as long as its lease lasts.
LeasesHaveHosts == \A t \in Tickets : lease[t] \in Leased => host[t] \in Hosts

LEMMA PoolTypesStep ==
    ASSUME PoolTypes, LeasesHaveHosts, [PoolNext]_poolVars PROVE PoolTypes'
<1>1. ASSUME NEW t \in Tickets, Acquire(t) \/ TryAgain(t) PROVE PoolTypes'
    BY <1>1, TryAcquireTypes DEF Acquire, TryAgain
<1>2. ASSUME NEW t \in Tickets, WaitTimesOut(t) \/ Preflight(t) PROVE PoolTypes'
    <2>1. PICK state \in {"idle", "prepared"} : lease' = [lease EXCEPT ![t] = state]
        BY <1>2 DEF WaitTimesOut, Preflight
    <2>2. UNCHANGED <<inUse, reachable, host, prefer, latch, attempt, runs, effects>>
        BY <1>2 DEF WaitTimesOut, Preflight
    <2>. QED
        BY <2>1, <2>2 DEF PoolTypes, LeaseStates, Leased
<1>3. ASSUME NEW t \in Tickets, MarkHookStarted(t) PROVE PoolTypes'
    <2>1. <<attempt[t], host[t]>> \in Nat \X Hosts
        BY <1>3 DEF MarkHookStarted, LeasesHaveHosts, Leased, PoolTypes
    <2>2. effects' \in [Tickets -> SUBSET (Nat \X Hosts)]
        BY <1>3, <2>1 DEF MarkHookStarted, PoolTypes
    <2>. QED
        BY <1>3, <2>2 DEF MarkHookStarted, MarkSideEffect, PoolTypes, LeaseStates, Leased
<1>4. ASSUME NEW t \in Tickets, MarkTurnDispatched(t) PROVE PoolTypes'
    BY <1>4 DEF MarkTurnDispatched, MarkSideEffect, PoolTypes, LeaseStates, Leased
<1>5. ASSUME NEW t \in Tickets, PromptArrives(t) PROVE PoolTypes'
    <2>1. <<attempt[t], host[t]>> \in Nat \X Hosts
        BY <1>5 DEF PromptArrives, LeasesHaveHosts, Leased, PoolTypes
    <2>2. effects' \in [Tickets -> SUBSET (Nat \X Hosts)]
        BY <1>5, <2>1 DEF PromptArrives, PoolTypes
    <2>. QED
        BY <1>5, <2>2 DEF PromptArrives, PoolTypes, LeaseStates, Leased
<1>6. ASSUME NEW t \in Tickets, Completes(t) PROVE PoolTypes'
    <2>1. Release(t, "ended") /\ UNCHANGED <<reachable, latch, attempt, runs, effects>>
        BY <1>6 DEF Completes
    <2>. QED
        BY <2>1, ReleaseTypes DEF PoolTypes
<1>7. ASSUME NEW t \in Tickets, RunFails(t) PROVE PoolTypes'
    <2>1. PICK next \in {"ended", "idle"} : Release(t, next)
        BY <1>7 DEF RunFails
    <2>2. attempt' \in [Tickets -> Nat]
        BY <1>7 DEF RunFails, PoolTypes
    <2>3. UNCHANGED <<reachable, latch, runs, effects>>
        BY <1>7 DEF RunFails
    <2>. QED
        BY <2>1, <2>2, <2>3, ReleaseTypes DEF PoolTypes
<1>8. ASSUME NEW h \in Hosts, MarkUnreachable(h) \/ MarkReachable(h) PROVE PoolTypes'
    <2>1. lease' \in [Tickets -> LeaseStates]
        BY <1>8, NotifiedTypes DEF MarkUnreachable, MarkReachable, PoolTypes
    <2>. QED
        BY <1>8, <2>1 DEF MarkUnreachable, MarkReachable, PoolTypes
<1>9. CASE UNCHANGED poolVars
    BY <1>9 DEF poolVars, PoolTypes
<1>. QED
    BY <1>1, <1>2, <1>3, <1>4, <1>5, <1>6, <1>7, <1>8, <1>9 DEF PoolNext

LEMMA LeasesHaveHostsStep ==
    ASSUME PoolTypes, LeasesHaveHosts, [PoolNext]_poolVars PROVE LeasesHaveHosts'
<1> SUFFICES ASSUME NEW u \in Tickets PROVE (lease[u] \in Leased => host[u] \in Hosts)'
    BY DEF LeasesHaveHosts
<1>1. ASSUME NEW t \in Tickets, Acquire(t) \/ TryAgain(t)
      PROVE  (lease[u] \in Leased => host[u] \in Hosts)'
    <2>1. TryAcquire(t)
        BY <1>1 DEF Acquire, TryAgain
    <2>2. CASE Available = {}
        BY <2>1, <2>2 DEF TryAcquire, LeasesHaveHosts, PoolTypes, Leased
    <2>3. CASE Available # {}
        <3>1. Select(prefer[t]) \in Hosts
            BY <2>3, SelectHasRoom
        <3>. QED
            BY <2>1, <2>3, <3>1 DEF TryAcquire, LeasesHaveHosts, PoolTypes
    <2>. QED
        BY <2>2, <2>3
<1>2. ASSUME NEW t \in Tickets,
             \/ WaitTimesOut(t) \/ Preflight(t) \/ MarkHookStarted(t)
             \/ MarkTurnDispatched(t) \/ PromptArrives(t)
      PROVE  (lease[u] \in Leased => host[u] \in Hosts)'
    BY <1>2 DEF WaitTimesOut, Preflight, MarkHookStarted, MarkTurnDispatched, PromptArrives,
                LeasesHaveHosts, PoolTypes, Leased
<1>3. ASSUME NEW t \in Tickets, NEW next \in {"ended", "idle"}, Release(t, next)
      PROVE  (lease[u] \in Leased => host[u] \in Hosts)'
    BY <1>3, ReleaseLeases, ReleaseHosts DEF LeasesHaveHosts
<1>4. ASSUME NEW h \in Hosts, MarkUnreachable(h) \/ MarkReachable(h)
      PROVE  (lease[u] \in Leased => host[u] \in Hosts)'
    BY <1>4, NotifiedTypes DEF MarkUnreachable, MarkReachable, LeasesHaveHosts,
                               PoolTypes, Leased, Asleep
<1>5. CASE UNCHANGED poolVars
    BY <1>5 DEF poolVars, LeasesHaveHosts
<1>. QED
    BY <1>1, <1>2, <1>3, <1>4, <1>5 DEF PoolNext, Completes, RunFails

(* The pool's counters and the tickets' latches keep their types.          *)
THEOREM HostPoolTypes == PoolSpec => [](PoolTypes /\ LeasesHaveHosts)
<1>1. PoolInit => LeasesHaveHosts
    BY DEF PoolInit, LeasesHaveHosts, Leased
<1>. QED
    BY <1>1, PoolTypesInit, PoolTypesStep, LeasesHaveHostsStep, PTL DEF PoolSpec

-----------------------------------------------------------------------------
(* Side effects and the latch                                              *)

\* The attempt number of a ticket never falls below one at which it had
\* effects.  Between leases it has none at the present number; under a lease
\* those it has are on the lease's host and the latch tells of them.
OneHostOf(t) ==
    /\ \A x \in effects[t] : x[1] <= attempt[t]
    /\ \A x, y \in effects[t] : x[1] = y[1] => x[2] = y[2]
    /\ lease[t] \in {"idle"} \cup Asleep => \A x \in effects[t] : x[1] # attempt[t]
    /\ lease[t] \in Leased =>
        \A x \in effects[t] : x[1] = attempt[t] => latch[t] /\ x[2] = host[t]
    /\ lease[t] \in {"hooked", "dispatched", "working"} => latch[t]

OneHost == \A t \in Tickets : OneHostOf(t)

\* A step that touches another ticket only.
LEMMA OtherTicket ==
    ASSUME OneHost, NEW u \in Tickets,
           effects'[u] = effects[u], attempt'[u] = attempt[u], latch'[u] = latch[u],
           lease'[u] = lease[u] \/ (lease[u] \in Asleep /\ lease'[u] \in Asleep),
           host'[u] = host[u] \/ lease'[u] \notin Leased
    PROVE  OneHostOf(u)'
    BY DEF OneHost, OneHostOf, Asleep, Leased

\* A new lease starts with a clear latch, and finds no effects.
LEMMA AcquireKeepsOneHost ==
    ASSUME PoolTypes, OneHost, NEW t \in Tickets, NEW u \in Tickets,
           TryAcquire(t), lease[t] \in {"idle", "woken"},
           UNCHANGED <<reachable, prefer, attempt, effects>>
    PROVE  OneHostOf(u)'
<1>1. lease' = [lease EXCEPT ![t] = "waiting"] \/ lease' = [lease EXCEPT ![t] = "leased"]
    BY DEF TryAcquire
<1>2. u # t => latch'[u] = latch[u] /\ host'[u] = host[u]
    BY DEF TryAcquire, PoolTypes
<1>3. lease \in [Tickets -> LeaseStates]
    BY DEF PoolTypes
<1>4. CASE u = t
    <2>1. lease'[u] \in {"waiting", "leased"}
        BY <1>1, <1>3, <1>4
    <2>2. \A x \in effects[u] : x[1] # attempt[u]
        BY <1>4 DEF OneHost, OneHostOf, Asleep
    <2>. QED
        BY <2>1, <2>2 DEF OneHost, OneHostOf, Asleep, Leased
<1>5. CASE u # t
    BY <1>1, <1>2, <1>3, <1>5, OtherTicket
<1>. QED
    BY <1>4, <1>5

\* What a run does and where it does it.
LEMMA EffectKeepsOneHost ==
    ASSUME PoolTypes, OneHost, NEW t \in Tickets, NEW u \in Tickets,
           NEW state \in {"hooked", "working"}, lease[t] \in Leased,
           lease' = [lease EXCEPT ![t] = state],
           effects' = [effects EXCEPT ![t] = @ \cup {<<attempt[t], host[t]>>}],
           latch' = latch \/ latch' = [latch EXCEPT ![t] = TRUE], latch'[t],
           UNCHANGED <<host, attempt>>
    PROVE  OneHostOf(u)'
<1>1. CASE u # t
    <2>1. lease'[u] = lease[u] /\ effects'[u] = effects[u] /\ latch'[u] = latch[u]
        BY <1>1 DEF PoolTypes
    <2>. QED
        BY <2>1, OtherTicket
<1>2. CASE u = t
    <2>1. /\ lease'[u] = state /\ effects'[u] = effects[u] \cup {<<attempt[u], host[u]>>}
          /\ attempt[u] \in Nat
        BY <1>2 DEF PoolTypes
    <2>2. \A x \in effects'[u] :
             x \in effects[u] \/ (x[1] = attempt[u] /\ x[2] = host[u])
        BY <2>1
    <2>3. OneHostOf(u)
        BY DEF OneHost
    <2>4. \A x \in effects'[u] : x[1] <= attempt[u]
        BY <2>1, <2>2, <2>3 DEF OneHostOf
    <2>5. \A x \in effects'[u] : x[1] = attempt[u] => x[2] = host[u]
        BY <1>2, <2>2, <2>3 DEF OneHostOf
    <2>6. \A x, y \in effects'[u] : x[1] = y[1] => x[2] = y[2]
        <3> SUFFICES ASSUME NEW x \in effects'[u], NEW y \in effects'[u], x[1] = y[1]
                     PROVE  x[2] = y[2]
            OBVIOUS
        <3>1. CASE x[1] = attempt[u]
            <4>1. x[2] = host[u]
                BY <3>1, <2>5
            <4>2. y[1] = attempt[u]
                BY <3>1
            <4>3. y[2] = host[u]
                BY <4>2, <2>5
            <4>. QED
                BY <4>1, <4>3
        <3>2. CASE x[1] # attempt[u]
            BY <3>2, <2>2, <2>3 DEF OneHostOf
        <3>. QED
            BY <3>1, <3>2
    <2>. QED
        BY <1>2, <2>1, <2>4, <2>5, <2>6 DEF OneHostOf, Asleep, Leased
<1>. QED
    BY <1>1, <1>2

\* The failover decision: a lease that had effects never ends in a rerun at
\* the same attempt number.
LEMMA FailureKeepsOneHost ==
    ASSUME PoolTypes, OneHost, NEW t \in Tickets, NEW u \in Tickets, RunFails(t)
    PROVE  OneHostOf(u)'
<1>1. PICK e \in Raisable(lease[t]) :
        LET remaining == Cardinality(Available \ {host[t]})
            action == DecideFailover(latch[t], e, remaining) IN
        /\ attempt' = [attempt EXCEPT ![t] = IF action = "new_attempt" THEN @ + 1 ELSE @]
        /\ Release(t, IF action = "fail" THEN "ended" ELSE "idle")
    BY DEF RunFails
<1> DEFINE action == DecideFailover(latch[t], e, Cardinality(Available \ {host[t]}))
<1>2. /\ attempt' = [attempt EXCEPT ![t] = IF action = "new_attempt" THEN @ + 1 ELSE @]
      /\ Release(t, IF action = "fail" THEN "ended" ELSE "idle")
    BY <1>1
<1>3. action \in {"fail", "new_attempt"} \/ ~latch[t]
    BY DEF DecideFailover
<1>4. UNCHANGED <<latch, effects>> /\ lease[t] \in Leased
    BY DEF RunFails
<1> HIDE DEF action
<1>5. CASE u # t
    <2>1. PICK next \in {"ended", "idle"} : Release(t, next)
        BY <1>2
    <2>2. /\ attempt'[u] = attempt[u] /\ host'[u] = host[u]
          /\ lease'[u] = lease[u] \/ (lease[u] \in Asleep /\ lease'[u] \in Asleep)
        BY <1>2, <1>5, <2>1, ReleaseHosts, ReleaseOthers DEF PoolTypes
    <2>. QED
        BY <1>4, <2>2, OtherTicket
<1>6. CASE u = t
    <2>1. lease'[t] = (IF action = "fail" THEN "ended" ELSE "idle")
        BY <1>2, ReleasedTicket
    <2>2. attempt[t] \in Nat /\ attempt'[t] = IF action = "new_attempt" THEN attempt[t] + 1 ELSE attempt[t]
        BY <1>2 DEF PoolTypes
    <2>3. OneHostOf(t)
        BY DEF OneHost
    <2>4. \A x \in effects[t] : x[1] \in Nat
        BY DEF PoolTypes
    <2>5. \A x \in effects[t] : x[1] <= attempt'[t]
        BY <2>2, <2>3, <2>4 DEF OneHostOf
    <2>6. action # "fail" => \A x \in effects[t] : x[1] # attempt'[t]
        <3>1. CASE action = "new_attempt"
            BY <2>2, <2>3, <2>4, <3>1 DEF OneHostOf
        <3>2. CASE action # "new_attempt" /\ action # "fail"
            BY <1>3, <1>4, <2>2, <2>3, <3>2 DEF OneHostOf
        <3>. QED
            BY <3>1, <3>2
    <2>. QED
        BY <1>4, <1>6, <2>1, <2>3, <2>5, <2>6 DEF OneHostOf, Asleep, Leased
<1>. QED
    BY <1>5, <1>6

LEMMA OneHostStep ==
    ASSUME PoolTypes, OneHost, [PoolNext]_poolVars PROVE OneHost'
<1> SUFFICES ASSUME NEW u \in Tickets PROVE OneHostOf(u)'
    BY DEF OneHost
<1>1. ASSUME NEW t \in Tickets, Acquire(t) \/ TryAgain(t) PROVE OneHostOf(u)'
    BY <1>1, AcquireKeepsOneHost DEF Acquire, TryAgain
<1>2. ASSUME NEW t \in Tickets, WaitTimesOut(t) PROVE OneHostOf(u)'
    BY <1>2 DEF WaitTimesOut, OneHost, OneHostOf, PoolTypes, Asleep, Leased
<1>3. ASSUME NEW t \in Tickets, Preflight(t) PROVE OneHostOf(u)'
    BY <1>3 DEF Preflight, OneHost, OneHostOf, PoolTypes, Asleep, Leased
<1>4. ASSUME NEW t \in Tickets, MarkHookStarted(t) PROVE OneHostOf(u)'
    <2>1. latch'[t]
        BY <1>4 DEF MarkHookStarted, MarkSideEffect, PoolTypes
    <2>. QED
        BY <1>4, <2>1, EffectKeepsOneHost DEF MarkHookStarted, MarkSideEffect, Leased
<1>5. ASSUME NEW t \in Tickets, MarkTurnDispatched(t) PROVE OneHostOf(u)'
    BY <1>5 DEF MarkTurnDispatched, MarkSideEffect, OneHost, OneHostOf, PoolTypes, Asleep, Leased
<1>6. ASSUME NEW t \in Tickets, PromptArrives(t) PROVE OneHostOf(u)'
    <2>1. latch'[t]
        BY <1>6 DEF PromptArrives, OneHost, OneHostOf
    <2>. QED
        BY <1>6, <2>1, EffectKeepsOneHost DEF PromptArrives, Leased
<1>7. ASSUME NEW t \in Tickets, Completes(t) PROVE OneHostOf(u)'
    <2>1. Release(t, "ended") /\ UNCHANGED <<latch, attempt, effects>>
        BY <1>7 DEF Completes
    <2>2. CASE u # t
        BY <2>1, <2>2, ReleaseHosts, ReleaseOthers, OtherTicket
    <2>3. CASE u = t
        <3>1. lease'[t] = "ended"
            BY <2>1, ReleasedTicket
        <3>. QED
            BY <2>1, <2>3, <3>1 DEF OneHost, OneHostOf, Asleep, Leased
    <2>. QED
        BY <2>2, <2>3
<1>8. ASSUME NEW t \in Tickets, RunFails(t) PROVE OneHostOf(u)'
    BY <1>8, FailureKeepsOneHost
<1>9. ASSUME NEW h \in Hosts, MarkUnreachable(h) \/ MarkReachable(h) PROVE OneHostOf(u)'
    <2>1. lease' = Notified(lease) /\ UNCHANGED <<host, latch, attempt, effects>>
        BY <1>9 DEF MarkUnreachable, MarkReachable
    <2>2. lease'[u] = lease[u] \/ (lease[u] \in Asleep /\ lease'[u] \in Asleep)
        BY <2>1, NotifiedTypes DEF PoolTypes, Asleep
    <2>. QED
        BY <2>1, <2>2, OtherTicket
<1>10. CASE UNCHANGED poolVars
    BY <1>10, OtherTicket DEF poolVars
<1>. QED
    BY <1>1, <1>2, <1>3, <1>4, <1>5, <1>6, <1>7, <1>8, <1>9, <1>10 DEF PoolNext

(* decide_failover with the side-effect latch of RunProgress: whatever     *)
(* fails and however often, no attempt number of a ticket has effects on   *)
(* two hosts.                                                              *)
THEOREM NoRerunIsInvisible == PoolSpec => []NoInvisibleRerun
<1>1. PoolInit => OneHost
    BY DEF PoolInit, OneHost, OneHostOf, Asleep, Leased
<1>2. OneHost => NoInvisibleRerun
    BY DEF OneHost, OneHostOf, NoInvisibleRerun
<1>. QED
    BY <1>1, <1>2, HostPoolTypes, OneHostStep, PTL DEF PoolSpec

-----------------------------------------------------------------------------
(* The accounting of slots                                                 *)

Counted(h) ==
    /\ inUse[h] = Cardinality(Holders(h))
    /\ PerHost > 0 => inUse[h] <= PerHost

NobodyOverlooked == \A t \in Tickets : lease[t] = "waiting" => Available = {}

Accounted == (\A h \in Hosts : Counted(h)) /\ NobodyOverlooked

LEMMA HoldersFinite ==
    ASSUME NEW h
    PROVE  IsFiniteSet(Holders(h)) /\ Cardinality(Holders(h)) \in Nat
<1>1. Holders(h) \in SUBSET Tickets
    BY DEF Holders
<1>. QED
    BY <1>1, FS_Subset, FS_CardinalityType

\* Steps that neither take nor return a slot.
LEMMA SameHolders ==
    ASSUME Accounted, NEW h \in Hosts, inUse' = inUse, Holders(h)' = Holders(h)
    PROVE  Counted(h)'
    BY DEF Accounted, Counted

LEMMA SameAvailable ==
    ASSUME inUse' = inUse, reachable' = reachable
    PROVE  Available' = Available
    BY DEF Available, HasCapacity

LEMMA AcquireCounts ==
    ASSUME PoolTypes, Accounted, NEW t \in Tickets, TryAcquire(t),
           lease[t] \in {"idle", "woken"}, UNCHANGED reachable
    PROVE  Accounted'
<1>0. lease \in [Tickets -> LeaseStates] /\ host \in [Tickets -> Hosts \cup {0}]
    BY DEF PoolTypes
<1>1. CASE Available = {}
    <2>1. lease' = [lease EXCEPT ![t] = "waiting"] /\ UNCHANGED <<inUse, host>>
        BY <1>1 DEF TryAcquire
    <2>2. \A h : Holders(h)' = Holders(h)
        BY <1>0, <2>1 DEF Holders, Leased
    <2>3. Available' = {}
        BY <1>1, <2>1, SameAvailable
    <2>. QED
        BY <2>1, <2>2, <2>3, SameHolders DEF Accounted, NobodyOverlooked
<1>2. CASE Available # {}
    <2> DEFINE g == Select(prefer[t])
    <2>1. g \in Available /\ g \in Hosts
        BY <1>2, SelectHasRoom
    <2>2. /\ inUse' = [inUse EXCEPT ![g] = @ + 1] /\ host' = [host EXCEPT ![t] = g]
          /\ lease' = [lease EXCEPT ![t] = "leased"]
        BY <1>2 DEF TryAcquire
    <2>3. PerHost <= 0 \/ inUse[g] < PerHost
        BY <2>1 DEF Available, HasCapacity
    <2> HIDE DEF g
    <2>4. \A u \in Tickets : lease'[u] # "waiting"
        BY <1>0, <1>2, <2>2 DEF Accounted, NobodyOverlooked
    <2>5. ASSUME NEW h \in Hosts PROVE Counted(h)'
        <3>1. t \notin Holders(h)
            BY DEF Holders, Leased
        <3>2. CASE h = g
            <4>1. Holders(h)' = Holders(h) \cup {t}
                BY <1>0, <2>2, <3>2 DEF Holders, Leased
            <4>2. Cardinality(Holders(h)') = Cardinality(Holders(h)) + 1
                BY <3>1, <4>1, HoldersFinite, FS_AddElement
            <4>3. inUse'[h] = inUse[h] + 1 /\ inUse[h] \in Nat
                BY <2>2, <3>2 DEF PoolTypes
            <4>. QED
                BY <2>3, <3>2, <4>2, <4>3 DEF Accounted, Counted
        <3>3. CASE h # g
            <4>1. Holders(h)' = Holders(h)
                BY <1>0, <2>2, <3>1, <3>3 DEF Holders, Leased
            <4>2. inUse'[h] = inUse[h]
                BY <2>2, <3>3 DEF PoolTypes
            <4>. QED
                BY <4>1, <4>2 DEF Accounted, Counted
        <3>. QED
            BY <3>2, <3>3
    <2>. QED
        BY <2>4, <2>5 DEF Accounted, NobodyOverlooked
<1>. QED
    BY <1>1, <1>2

LEMMA ReleaseCounts ==
    ASSUME PoolTypes, LeasesHaveHosts, Accounted, NEW t \in Tickets, lease[t] \in Leased,
           NEW next \in {"ended", "idle"}, Release(t, next)
    PROVE  Accounted'
<1>1. \A u \in Tickets : lease'[u] # "waiting"
    <2>1. [lease EXCEPT ![t] = next] \in [Tickets -> LeaseStates]
        BY DEF PoolTypes, LeaseStates
    <2>. QED
        BY <2>1, NotifiedTypes DEF Release
<1>2. host[t] \in Hosts
    BY DEF LeasesHaveHosts
<1>3. \A h : Holders(h)' = Holders(h) \ {t}
    BY ReleaseLeases, ReleaseHosts DEF Holders
<1>4. inUse' = [inUse EXCEPT ![host[t]] = IF @ > 0 THEN @ - 1 ELSE @]
    BY DEF Release
<1>5. ASSUME NEW h \in Hosts PROVE Counted(h)'
    <2>1. inUse[h] \in Nat /\ Counted(h)
        BY DEF PoolTypes, Accounted
    <2>2. CASE h = host[t]
        <3>1. t \in Holders(h)
            BY <2>2 DEF Holders
        <3>2. Cardinality(Holders(h)') = Cardinality(Holders(h)) - 1
            BY <1>3, <3>1, HoldersFinite, FS_RemoveElement
        <3>3. Cardinality(Holders(h)) > 0
            BY <3>1, HoldersFinite, FS_EmptySet
        <3>4. inUse'[h] = inUse[h] - 1
            BY <1>2, <1>4, <2>1, <2>2, <3>3 DEF Counted, PoolTypes
        <3>. QED
            BY <2>1, <3>2, <3>4 DEF Counted
    <2>3. CASE h # host[t]
        <3>1. Holders(h)' = Holders(h)
            BY <1>3, <2>3 DEF Holders
        <3>2. inUse'[h] = inUse[h]
            BY <1>4, <2>3 DEF PoolTypes
        <3>. QED
            BY <2>1, <3>1, <3>2 DEF Counted
    <2>. QED
        BY <2>2, <2>3
<1>. QED
    BY <1>1, <1>5 DEF Accounted, NobodyOverlooked

LEMMA AccountedStep ==
    ASSUME PoolTypes, LeasesHaveHosts, Accounted, [PoolNext]_poolVars
    PROVE  Accounted'
<1>0. lease \in [Tickets -> LeaseStates]
    BY DEF PoolTypes
<1>1. ASSUME NEW t \in Tickets, Acquire(t) \/ TryAgain(t) PROVE Accounted'
    BY <1>1, AcquireCounts DEF Acquire, TryAgain
<1>2. ASSUME NEW t \in Tickets,
             \/ WaitTimesOut(t) \/ Preflight(t) \/ MarkHookStarted(t)
             \/ MarkTurnDispatched(t) \/ PromptArrives(t)
      PROVE  Accounted'
    <2>1. UNCHANGED <<inUse, reachable, host>>
        BY <1>2 DEF WaitTimesOut, Preflight, MarkHookStarted, MarkTurnDispatched, PromptArrives
    <2>2. PICK state \in LeaseStates :
             /\ lease' = [lease EXCEPT ![t] = state] /\ state # "waiting"
             /\ state \in Leased <=> lease[t] \in Leased
        BY <1>2 DEF WaitTimesOut, Preflight, MarkHookStarted, MarkTurnDispatched,
                    PromptArrives, LeaseStates, Leased
    <2>3. \A h : Holders(h)' = Holders(h)
        BY <1>0, <2>1, <2>2 DEF Holders
    <2>4. NobodyOverlooked'
        BY <1>0, <2>1, <2>2, SameAvailable DEF Accounted, NobodyOverlooked
    <2>. QED
        BY <2>1, <2>3, <2>4, SameHolders DEF Accounted
<1>3. ASSUME NEW t \in Tickets, Completes(t) \/ RunFails(t) PROVE Accounted'
    <2>1. PICK next \in {"ended", "idle"} : Release(t, next)
        BY <1>3 DEF Completes, RunFails
    <2>2. lease[t] \in Leased
        BY <1>3 DEF Completes, RunFails, Leased
    <2>. QED
        BY <2>1, <2>2, ReleaseCounts
<1>4. ASSUME NEW h \in Hosts, MarkUnreachable(h) \/ MarkReachable(h) PROVE Accounted'
    <2>1. lease' = Notified(lease) /\ UNCHANGED <<inUse, host>>
        BY <1>4 DEF MarkUnreachable, MarkReachable
    <2>2. \A u \in Tickets : lease'[u] # "waiting" /\ (lease'[u] \in Leased <=> lease[u] \in Leased)
        BY <1>0, <2>1, NotifiedTypes DEF Leased, Asleep
    <2>3. \A g : Holders(g)' = Holders(g)
        BY <2>1, <2>2 DEF Holders
    <2>. QED
        BY <2>1, <2>2, <2>3, SameHolders DEF Accounted, NobodyOverlooked
<1>5. CASE UNCHANGED poolVars
    <2>1. UNCHANGED <<inUse, reachable, host, lease>>
        BY <1>5 DEF poolVars
    <2>2. \A g : Holders(g)' = Holders(g)
        BY <2>1 DEF Holders
    <2>. QED
        BY <2>1, <2>2, SameHolders, SameAvailable DEF Accounted, NobodyOverlooked
<1>. QED
    BY <1>1, <1>2, <1>3, <1>4, <1>5 DEF PoolNext

(* HostPool: a host's in_use counts the leases on it through every failure,*)
(* never above the cap, and no waiter sleeps while a host has room.        *)
THEOREM SlotsAreAlwaysAccounted == PoolSpec => []SlotsAreAccounted
<1>1. PoolInit => Accounted
    <2> SUFFICES ASSUME PoolInit PROVE Accounted
        OBVIOUS
    <2>1. \A h \in Hosts : Holders(h) = {}
        BY DEF PoolInit, Holders, Leased
    <2>. QED
        BY <2>1, FS_EmptySet DEF PoolInit, Accounted, Counted, NobodyOverlooked
<1>2. Accounted => SlotsAreAccounted
    BY DEF Accounted, Counted, NobodyOverlooked, SlotsAreAccounted
<1>. QED
    BY <1>1, <1>2, HostPoolTypes, AccountedStep, PTL DEF PoolSpec

-----------------------------------------------------------------------------
USE HookAssumption, TurnsAssumption

-----------------------------------------------------------------------------
(* HookRun                                                                 *)

LEMMA ReportedTypes ==
    ASSUME NEW reason, NEW isFatal, NEW exit
    PROVE  Reported(reason, isFatal, exit) \in {"returned", "error", "timeout", "cancelled"}
    BY DEF Reported

LEMMA HookTypesStep == ASSUME HookTypes, [HookNext]_hookVars PROVE HookTypes'
<1>1. CASE BeginHook
    <2>1. hook' \in {"waiting", "over"}
        BY <1>1 DEF BeginHook, EndHook
    <2>2. report' \in {"none", "returned", "error", "timeout", "cancelled"}
        BY <1>1, ReportedTypes DEF BeginHook, EndHook
    <2>. QED
        BY <1>1, <2>1, <2>2 DEF BeginHook, HookTypes
<1>2. CASE SkipHook
    BY <1>2 DEF SkipHook, HookTypes
<1>3. CASE ShellForks \/ ShellExits \/ KidsMove \/ KidStrays \/ StraysMove
    BY <1>3 DEF ShellForks, ShellExits, KidsMove, KidStrays, StraysMove, HookTypes
<1>4. CASE HookCompletes
    BY <1>4, ReportedTypes DEF HookCompletes, EndHook, HookTypes
<1>5. CASE Interrupt
    BY <1>5 DEF Interrupt, KillTree, ShellDies, HookTypes
<1>6. CASE HookDrained \/ CancelDrain
    BY <1>6, ReportedTypes DEF HookDrained, CancelDrain, EndHook, HookTypes
<1>7. CASE UNCHANGED hookVars
    BY <1>7 DEF hookVars, HookTypes
<1>. QED
    BY <1>1, <1>2, <1>3, <1>4, <1>5, <1>6, <1>7 DEF HookNext

(* A hook's run keeps its types.                                           *)
THEOREM HookRunTypes == HookSpec => []HookTypes
<1>1. HookInit => HookTypes
    <2>1. HookInit => fatal \in BOOLEAN
        BY Zenon DEF HookInit
    <2>. QED
        BY <2>1 DEF HookInit, HookTypes
<1>. QED
    BY <1>1, HookTypesStep, PTL DEF HookSpec

-----------------------------------------------------------------------------
(* What is left behind                                                     *)

\* Of the group only a shell that exited by itself leaves something behind,
\* or a kill that did not reach it; a run that waits has killed nothing, and
\* one that drains has tried to.
HookOrder ==
    /\ hook \in {"draining", "over"} /\ shell = "alive" => killed = "terminate"
    /\ kids \in {"holding", "released"} =>
        killed = "terminate" \/ shell \in {"alive", "zero", "nonzero"}
    /\ killed = "process_group" => shell # "alive" /\ kids \in {"none", "gone"}
    /\ hook = "over" /\ why = "pipe" => PipeEnded
    /\ hook = "waiting" => shell \in {"alive", "zero", "nonzero"} /\ killed = "none"
    /\ hook = "draining" => killed # "none" /\ why \in {"timeout", "cancel"}
    /\ hook = "idle" => shell = "none"

LEMMA HookOrderStep ==
    ASSUME HookTypes, HookOrder, [HookNext]_hookVars PROVE HookOrder'
<1>1. CASE BeginHook
    BY <1>1 DEF BeginHook, EndHook, PipeEnded, HookOrder
<1>2. CASE SkipHook
    BY <1>2 DEF SkipHook, PipeEnded, HookOrder
<1>3. CASE ShellForks \/ ShellExits \/ KidsMove \/ KidStrays \/ StraysMove
    BY <1>3 DEF ShellForks, ShellExits, KidsMove, KidStrays, StraysMove, PipeEnded, HookOrder
<1>4. CASE HookCompletes
    BY <1>4 DEF HookCompletes, EndHook, PipeEnded, HookOrder
<1>5. CASE Interrupt
    BY <1>5 DEF Interrupt, KillTree, ShellDies, PipeEnded, HookOrder
<1>6. CASE HookDrained \/ CancelDrain
    BY <1>6 DEF HookDrained, CancelDrain, EndHook, PipeEnded, HookOrder
<1>7. CASE UNCHANGED hookVars
    BY <1>7 DEF hookVars, PipeEnded, HookOrder
<1>. QED
    BY <1>1, <1>2, <1>3, <1>4, <1>5, <1>6, <1>7 DEF HookNext

\* What run() tells its caller of a hook that is over.
ReportFits ==
    hook = "over" =>
        /\ report = "returned" /\ fatal /\ why = "pipe" => shell = "zero"
        /\ report = "returned" => ~ fatal \/ why \in {"pipe", "none"}
        /\ report = "timeout" => fatal /\ killed # "none"
        /\ why = "pipe" => killed = "none"

LEMMA ReportFitsStep ==
    ASSUME HookTypes, HookOrder, ReportFits, [HookNext]_hookVars PROVE ReportFits'
<1>1. CASE BeginHook
    BY <1>1 DEF BeginHook, EndHook, Reported, ReportFits
<1>2. CASE SkipHook
    BY <1>2 DEF SkipHook, ReportFits
<1>3. CASE ShellForks \/ ShellExits \/ KidsMove \/ KidStrays \/ StraysMove
    \* The shell of a hook that completed has exited.
    BY <1>3 DEF ShellForks, ShellExits, KidsMove, KidStrays, StraysMove, HookOrder, PipeEnded, ReportFits
<1>4. CASE HookCompletes
    BY <1>4 DEF HookCompletes, EndHook, Reported, HookOrder, ReportFits
<1>5. CASE Interrupt
    BY <1>5 DEF Interrupt, ReportFits
<1>6. CASE HookDrained \/ CancelDrain
    BY <1>6 DEF HookDrained, CancelDrain, EndHook, Reported, HookOrder, ReportFits
<1>7. CASE UNCHANGED hookVars
    BY <1>7 DEF hookVars, ReportFits
<1>. QED
    BY <1>1, <1>2, <1>3, <1>4, <1>5, <1>6, <1>7 DEF HookNext

(* HookRunner.run and execute: whatever the shell and its descendants do,  *)
(* and whenever the timeout or the cancellation comes, a hook that is over *)
(* has left of its process group at most what a shell that exited by       *)
(* itself left or what could not be killed, and was reported as what it    *)
(* was.                                                                    *)
THEOREM HooksEndAsTold == HookSpec => []HookEndsAsTold
<1>1. HookInit => HookOrder /\ ReportFits
    BY DEF HookInit, HookOrder, ReportFits
<1>2. HookOrder /\ ReportFits => HookEndsAsTold
    BY DEF HookOrder, ReportFits, HookEndsAsTold
<1>. QED
    BY <1>1, <1>2, HookRunTypes, HookOrderStep, ReportFitsStep, PTL DEF HookSpec

-----------------------------------------------------------------------------
(* ClaudeTurns: the conversation of an attempt                             *)

\* How a turn that ended with its process's exit is left: the process is gone,
\* or refused its session; the refusal is in the stderr read so far, and
\* nothing ends on it.
ExitIsHandled ==
    ending = "exit" =>
        /\ step \in {"unwinding", "ready", "ended"}
        /\ Newest >= 1 /\ child[Newest] \in {"refused", "gone"}
        /\ step = "ready" /\ child[Newest] = "refused" => tail
        /\ step = "ended" => child[Newest] = "gone"

\* The extra process of an attempt is the one that starts its session over.
\* Only a process that opens the conversation can be refused; it is the first,
\* and the session starts with it or with the one that takes its place.
ConversationIsOpenedOnce ==
    /\ Newest <= session.turns + (IF session.started THEN 1 ELSE 0)
    /\ \A n \in Launched : "--session-id" \in argv[n] => n = 1
    /\ \A n \in Launched : child[n] = "refused" => "--session-id" \in argv[n]
    /\ session.started => Newest >= 1
    /\ session.started /\ Newest = 1 => child[1] \in {"live", "gone"}

StepsAreInOrder ==
    /\ ending = "completed" => session.started
    /\ step \in {"new", "binding", "ready"} /\ ending = "none" => Newest = 0
    /\ step \in {"new", "binding"} => ending = "none"
    /\ step \in {"streaming", "unwinding"} => Newest >= 1
    /\ step = "streaming" => ending = "none"

ClaudeInv ==
    /\ ClaudeTypes
    /\ Newest \in 0 .. 2 * MaxTurns /\ Launched = 1 .. Newest
    /\ ConversationIsOpenedOnce /\ StepsAreInOrder /\ ExitIsHandled

LEMMA CountedIs ==
    ASSUME NEW n \in Nat, Launched = 1 .. n
    PROVE  Newest = n
    BY FS_Interval DEF Newest

LEMMA NothingLaunched ==
    ASSUME ClaudeInv, child' \in [Launches -> {"none", "starting", "live", "refused", "gone"}],
           \A n \in Launches : child'[n] = "none" <=> child[n] = "none"
    PROVE  Launched' = Launched /\ Newest' = Newest
    BY DEF Launched, Newest

\* A process joins the others, with the command line the session asks for.
LEMMA LaunchIs ==
    ASSUME ClaudeInv, NEW started \in BOOLEAN, Launch(started), Newest < 2 * MaxTurns
    PROVE  /\ Newest' = Newest + 1 /\ Launched' = 1 .. Newest'
           /\ child' \in [Launches -> {"none", "starting", "live", "refused", "gone"}]
           /\ argv' \in [Launches -> SUBSET Flags]
           /\ child'[Newest'] = "starting" /\ ("--session-id" \in argv'[Newest'] <=> ~started)
           /\ \A n \in Launched : child'[n] = child[n] /\ argv'[n] = argv[n]
<1>. DEFINE k == Newest + 1
<1>1. k \in Launches /\ k \notin Launched /\ Newest \in Nat
    BY DEF ClaudeInv, Launches
<1>2. /\ child' = [child EXCEPT ![k] = "starting"] /\ argv' = [argv EXCEPT ![k] = Argv(started)]
      /\ child \in [Launches -> {"none", "starting", "live", "refused", "gone"}]
      /\ argv \in [Launches -> SUBSET Flags]
    BY DEF Launch, ClaudeInv, ClaudeTypes
<1>3. Argv(started) \in SUBSET Flags /\ ("--session-id" \in Argv(started) <=> ~started)
    BY DEF Argv, Flags
<1>4. Launched' = 1 .. k
    <2>1. Launched = 1 .. Newest
        BY DEF ClaudeInv
    <2>2. Launched' = Launched \cup {k}
        BY <1>1, <1>2 DEF Launched
    <2>. QED
        BY <1>1, <2>1, <2>2
<1>5. Newest' = k
    BY <1>1, <1>4, FS_Interval DEF Newest
<1>. HIDE DEF k
<1>. QED
    BY <1>1, <1>2, <1>3, <1>4, <1>5 DEF Launched, k

\* What the steps that launch nothing leave alone.
Steady == /\ UNCHANGED <<argv, child>>
          /\ Launched' = Launched /\ Newest' = Newest

LEMMA SteadyStep == ASSUME UNCHANGED <<argv, child>> PROVE Steady
    BY DEF Steady, Launched, Newest

-----------------------------------------------------------------------------

LEMMA RunTurnKeeps == ASSUME ClaudeInv, NextTurn PROVE ClaudeInv'
<1>1. /\ step = "ready" /\ session.turns < MaxTurns /\ ending \in {"none", "completed"}
      /\ session' = [session EXCEPT !.turns = @ + 1]
      /\ Launch(session.started) /\ UNCHANGED <<tail, bridgeVars>>
    BY DEF NextTurn, RunTurn
<1>2. /\ session \in [started : BOOLEAN, turns : 0 .. MaxTurns]
      /\ Newest \in Nat /\ Newest <= session.turns + (IF session.started THEN 1 ELSE 0)
    BY DEF ClaudeInv, ClaudeTypes, ConversationIsOpenedOnce
<1>3. Newest < 2 * MaxTurns
    BY <1>1, <1>2
<1>4. /\ Newest' = Newest + 1 /\ Launched' = 1 .. Newest'
      /\ child' \in [Launches -> {"none", "starting", "live", "refused", "gone"}]
      /\ argv' \in [Launches -> SUBSET Flags]
      /\ child'[Newest'] = "starting" /\ ("--session-id" \in argv'[Newest'] <=> ~session.started)
      /\ \A n \in Launched : child'[n] = child[n] /\ argv'[n] = argv[n]
    BY <1>1, <1>2, <1>3, LaunchIs
<1>5. /\ step' = "streaming" /\ ending' = "none" /\ proc' = Newest + 1 /\ UNCHANGED <<known, signalled>>
    BY <1>1 DEF Launch
<1>6. session.started \/ Newest = 0
    BY <1>1 DEF ClaudeInv, StepsAreInOrder
<1>7. session' \in [started : BOOLEAN, turns : 0 .. MaxTurns] /\ session'.started = session.started
      /\ session'.turns = session.turns + 1
    BY <1>1, <1>2
<1>8. ClaudeTypes'
    <2>1. UNCHANGED <<known, tail, signalled, held, tokenFile, cancelled, bridge, toolCalls>>
        BY <1>1, <1>5 DEF bridgeVars
    <2>2. proc' \in Launches /\ ending' \in Endings
        BY <1>2, <1>3, <1>5 DEF Launches, Endings
    <2>3. /\ {known, tail, held, tokenFile, cancelled} \subseteq BOOLEAN /\ signalled \subseteq Launches
          /\ bridge \in {"off", "binding", "on"} /\ toolCalls \in 0 .. MaxTurns
        BY Zenon DEF ClaudeInv, ClaudeTypes
    <2>. QED
        BY <1>4, <1>5, <1>7, <2>1, <2>2, <2>3 DEF ClaudeTypes
<1>9. ConversationIsOpenedOnce'
    <2>1. /\ Newest' <= session'.turns + (IF session'.started THEN 1 ELSE 0)
          /\ session'.started => Newest' >= 1
        BY <1>2, <1>4, <1>7
    <2>2. Launched' = Launched \cup {Newest'}
        BY <1>2, <1>4 DEF ClaudeInv
    <2>3. \A n \in Launched' : "--session-id" \in argv'[n] => n = 1
        BY <2>2, <1>2, <1>4, <1>6 DEF ClaudeInv, ConversationIsOpenedOnce
    <2>4. \A n \in Launched' : child'[n] = "refused" => "--session-id" \in argv'[n]
        BY <2>2, <1>4 DEF ClaudeInv, ConversationIsOpenedOnce
    <2>5. session'.started /\ Newest' = 1 => child'[1] \in {"live", "gone"}
        BY <1>2, <1>4, <1>7 DEF ClaudeInv, ConversationIsOpenedOnce
    <2>. QED
        BY <2>1, <2>3, <2>4, <2>5 DEF ConversationIsOpenedOnce
<1>10. StepsAreInOrder' /\ ExitIsHandled'
    BY <1>2, <1>4, <1>5 DEF StepsAreInOrder, ExitIsHandled
<1>. QED
    BY <1>2, <1>3, <1>4, <1>8, <1>9, <1>10 DEF ClaudeInv

LEMMA ResumeTurnKeeps == ASSUME ClaudeInv, ResumeTurn PROVE ClaudeInv'
<1>1. /\ step = "ready" /\ ending = "exit" /\ ~session.started
      /\ session' = [session EXCEPT !.started = TRUE] /\ tail' = FALSE
      /\ Launch(TRUE) /\ UNCHANGED bridgeVars
    BY DEF ResumeTurn, CanResume
<1>2. /\ session \in [started : BOOLEAN, turns : 0 .. MaxTurns]
      /\ Newest \in Nat /\ Newest >= 1 /\ Newest <= session.turns
    BY <1>1 DEF ClaudeInv, ClaudeTypes, ConversationIsOpenedOnce, ExitIsHandled
<1>3. Newest < 2 * MaxTurns
    BY <1>1, <1>2
<1>4. /\ Newest' = Newest + 1 /\ Launched' = 1 .. Newest'
      /\ child' \in [Launches -> {"none", "starting", "live", "refused", "gone"}]
      /\ argv' \in [Launches -> SUBSET Flags]
      /\ child'[Newest'] = "starting" /\ "--session-id" \notin argv'[Newest']
      /\ \A n \in Launched : child'[n] = child[n] /\ argv'[n] = argv[n]
    BY <1>1, <1>2, <1>3, LaunchIs
<1>5. /\ step' = "streaming" /\ ending' = "none" /\ proc' = Newest + 1 /\ UNCHANGED <<known, signalled>>
    BY <1>1 DEF Launch
<1>6. session' \in [started : BOOLEAN, turns : 0 .. MaxTurns] /\ session'.started
      /\ session'.turns = session.turns
    BY <1>1, <1>2
<1>7. ClaudeTypes'
    <2>1. proc' \in Launches
        BY <1>2, <1>3, <1>5 DEF Launches
    <2>2. ending' \in Endings
        BY <1>5 DEF Endings
    <2>. QED
        BY <1>1, <1>4, <1>5, <1>6, <2>1, <2>2 DEF ClaudeInv, ClaudeTypes, bridgeVars
<1>8. ConversationIsOpenedOnce'
    <2>1. Launched' = Launched \cup {Newest'}
        BY <1>2, <1>4 DEF ClaudeInv
    <2>2. \A n \in Launched' : /\ "--session-id" \in argv'[n] => n = 1
                               /\ child'[n] = "refused" => "--session-id" \in argv'[n]
        BY <2>1, <1>4 DEF ClaudeInv, ConversationIsOpenedOnce
    <2>. QED
        BY <1>2, <1>4, <1>6, <2>2 DEF ConversationIsOpenedOnce
<1>9. StepsAreInOrder' /\ ExitIsHandled'
    BY <1>2, <1>4, <1>5 DEF StepsAreInOrder, ExitIsHandled
<1>. QED
    BY <1>2, <1>3, <1>4, <1>7, <1>8, <1>9 DEF ClaudeInv

\* A process changes its state; none comes and none is forgotten.
ChildMoves(n) ==
    /\ child[n] \in {"starting", "live"}
    /\ \E state \in {"live", "refused", "gone"} : child' = [child EXCEPT ![n] = state]
    /\ UNCHANGED <<step, argv, signalled, proc, tail, ending, bridgeVars>>
    /\ child'[n] = "refused" => child[n] = "starting" /\ "--session-id" \in argv[n]
    /\ session' # session => n = Newest /\ child'[n] = "live"
    /\ session' \in {session, [session EXCEPT !.started = TRUE]}
    /\ known' \in BOOLEAN

LEMMA ChildMovesIs ==
    ASSUME ClaudeInv, NEW n \in Launches, ChildInit(n) \/ ChildRefuses(n) \/ ChildExits(n)
    PROVE  ChildMoves(n)
<1>1. child \in [Launches -> {"none", "starting", "live", "refused", "gone"}] /\ known \in BOOLEAN
    BY DEF ClaudeInv, ClaudeTypes
<1>2. CASE ChildInit(n)
    BY <1>1, <1>2 DEF ChildInit, ChildMoves
<1>3. CASE ChildRefuses(n)
    BY <1>1, <1>3 DEF ChildRefuses, ChildMoves
<1>4. CASE ChildExits(n)
    BY <1>1, <1>4 DEF ChildExits, ChildMoves, Alive
<1>. QED
    BY <1>2, <1>3, <1>4

LEMMA ChildMovesKeeps == ASSUME ClaudeInv, NEW n \in Launches, ChildMoves(n) PROVE ClaudeInv'
<1>1. /\ child \in [Launches -> {"none", "starting", "live", "refused", "gone"}]
      /\ session \in [started : BOOLEAN, turns : 0 .. MaxTurns]
      /\ Newest \in Nat /\ Launched = 1 .. Newest
    BY DEF ClaudeInv, ClaudeTypes
<1>2. PICK state \in {"live", "refused", "gone"} : child' = [child EXCEPT ![n] = state]
    BY DEF ChildMoves
<1>3. /\ child' \in [Launches -> {"none", "starting", "live", "refused", "gone"}]
      /\ child[n] \in {"starting", "live"} /\ child'[n] = state
      /\ \A m \in Launches \ {n} : child'[m] = child[m]
    BY <1>1, <1>2 DEF ChildMoves
<1>4. Launched' = Launched /\ Newest' = Newest /\ n \in Launched /\ Newest \in Launches
    BY <1>1, <1>3, NothingLaunched DEF Launched
<1>5. /\ session' \in [started : BOOLEAN, turns : 0 .. MaxTurns] /\ session'.turns = session.turns
      /\ session.started => session'.started
      /\ session'.started => session.started \/ (n = Newest /\ state = "live")
    BY <1>1, <1>3 DEF ChildMoves
<1>6. ClaudeTypes'
    BY <1>3, <1>5 DEF ChildMoves, ClaudeInv, ClaudeTypes, bridgeVars
<1>7. ConversationIsOpenedOnce'
    <2>1. \A m \in Launched : child'[m] = "refused" => "--session-id" \in argv[m]
        BY <1>3, <1>4 DEF ChildMoves, ClaudeInv, ConversationIsOpenedOnce, Launched
    <2>2. session'.started /\ Newest = 1 => child'[1] \in {"live", "gone"}
        BY <1>1, <1>3, <1>4, <1>5 DEF ChildMoves, ClaudeInv, ConversationIsOpenedOnce
    <2>. QED
        BY <1>1, <1>4, <1>5, <2>1, <2>2 DEF ChildMoves, ClaudeInv, ConversationIsOpenedOnce
<1>8. StepsAreInOrder'
    BY <1>4, <1>5 DEF ChildMoves, ClaudeInv, StepsAreInOrder
<1>9. ExitIsHandled'
    BY <1>3, <1>4 DEF ChildMoves, ClaudeInv, ExitIsHandled
<1>. QED
    BY <1>1, <1>4, <1>6, <1>7, <1>8, <1>9 DEF ClaudeInv

-----------------------------------------------------------------------------

\* The steps of the client between a launch and the next: no process changes.
LEMMA ClientSteps ==
    ASSUME ClaudeInv,
           \/ StartSession \/ StartBridge \/ BridgeBound
           \/ \E how \in {"completed", "failed"} : ResultArrives(how)
           \/ StreamEnds \/ StreamSilent \/ UnwindTurn \/ EndAttempt
           \/ CancelWorker \/ SwallowCancel
           \/ \E n \in Launches : BridgeCall(n)
    PROVE  ClaudeInv'
<1>. USE DEF childVars, bridgeVars
<1>1. Steady /\ session' = session
    BY SteadyStep DEF StartSession, StartBridge, BridgeBound, ResultArrives, StreamEnds,
       StreamSilent, UnwindTurn, EndAttempt, CancelWorker, SwallowCancel, BridgeCall, StopClient
<1>2. ClaudeTypes'
    <2>. USE DEF ClaudeInv, ClaudeTypes, Endings
    <2>1. CASE StartSession \/ StartBridge \/ BridgeBound
        BY <2>1 DEF StartSession, StartBridge, BridgeBound
    <2>2. CASE \/ \E how \in {"completed", "failed"} : ResultArrives(how)
               \/ StreamEnds \/ EndAttempt \/ SwallowCancel
        BY <2>2 DEF ResultArrives, StreamEnds, EndAttempt, SwallowCancel
    <2>3. CASE StreamSilent
        BY <2>3 DEF StreamSilent, StopClient
    <2>4. CASE UnwindTurn
        BY <2>4 DEF UnwindTurn, DrainStderr
    <2>5. CASE CancelWorker
        BY <2>5 DEF CancelWorker
    <2>6. CASE \E n \in Launches : BridgeCall(n)
        BY <2>6 DEF BridgeCall
    <2>. QED
        BY <2>1, <2>2, <2>3, <2>4, <2>5, <2>6
<1>3. ConversationIsOpenedOnce'
    BY <1>1 DEF Steady, ClaudeInv, ConversationIsOpenedOnce
<1>4. StepsAreInOrder' /\ ExitIsHandled'
    <2>1. Newest \in Nat /\ (ending = "exit" => Newest >= 1) /\ tail \in BOOLEAN
        BY DEF ClaudeInv, ExitIsHandled, ClaudeTypes
    <2>2. CASE StartSession \/ StartBridge \/ BridgeBound
        BY <2>2, <1>1 DEF Steady, StartSession, StartBridge, BridgeBound, ClaudeInv,
           StepsAreInOrder, ExitIsHandled
    <2>3. CASE \E how \in {"completed", "failed"} : ResultArrives(how)
        BY <2>3, <1>1 DEF Steady, ResultArrives, ClaudeInv, StepsAreInOrder, ExitIsHandled
    <2>4. CASE StreamEnds
        BY <2>4, <1>1 DEF Steady, StreamEnds, ClaudeInv, StepsAreInOrder, ExitIsHandled
    <2>5. CASE StreamSilent
        BY <2>5, <1>1 DEF Steady, StreamSilent, ClaudeInv, StepsAreInOrder, ExitIsHandled
    <2>6. CASE UnwindTurn
        BY <2>6, <1>1 DEF Steady, UnwindTurn, DrainStderr, ClaudeInv, StepsAreInOrder, ExitIsHandled
    <2>7. CASE EndAttempt
        <3>1. step = "ready" /\ ~CanResume /\ step' = "ended" /\ UNCHANGED <<tail, ending>>
            BY <2>7 DEF EndAttempt
        <3>2. ending = "exit" => child[Newest] # "refused"
            <4> SUFFICES ASSUME ending = "exit", child[Newest] = "refused" PROVE FALSE
                OBVIOUS
            <4>1. tail /\ Newest >= 1 /\ session.started
                BY <3>1 DEF ClaudeInv, ExitIsHandled, CanResume, ClaudeTypes
            <4>2. Newest = 1
                BY <4>1, <2>1 DEF ClaudeInv, ConversationIsOpenedOnce
            <4>. QED
                BY <4>1, <4>2 DEF ClaudeInv, ConversationIsOpenedOnce
        <3>. QED
            BY <3>1, <3>2, <1>1 DEF Steady, ClaudeInv, StepsAreInOrder, ExitIsHandled
    <2>8. CASE CancelWorker \/ SwallowCancel
        BY <2>8, <1>1 DEF Steady, CancelWorker, SwallowCancel, ClaudeInv, StepsAreInOrder, ExitIsHandled
    <2>9. CASE \E n \in Launches : BridgeCall(n)
        BY <2>9, <1>1 DEF Steady, BridgeCall, ClaudeInv, StepsAreInOrder, ExitIsHandled
    <2>. QED
        BY <2>2, <2>3, <2>4, <2>5, <2>6, <2>7, <2>8, <2>9
<1>. QED
    BY <1>1, <1>2, <1>3, <1>4 DEF Steady, ClaudeInv

LEMMA ClaudeInvInit == ClaudeInit => ClaudeInv
<1>. SUFFICES ASSUME ClaudeInit PROVE ClaudeInv
    OBVIOUS
<1>1. ClaudeTypes
    <2>1. session \in [started : BOOLEAN, turns : 0 .. MaxTurns] /\ toolCalls \in 0 .. MaxTurns
        BY DEF ClaudeInit
    <2>2. {known, tail, held, tokenFile, cancelled} \subseteq BOOLEAN
        BY DEF ClaudeInit
    <2>. QED
        BY <2>1, <2>2 DEF ClaudeInit, ClaudeTypes, Endings
<1>2. Launched = 1 .. 0 /\ Newest = 0
    <2>1. Launched = 1 .. 0
        BY DEF ClaudeInit, Launched
    <2>. QED
        BY <2>1, CountedIs
<1>. QED
    BY <1>1, <1>2 DEF ClaudeInit, ClaudeInv, ConversationIsOpenedOnce, StepsAreInOrder, ExitIsHandled

LEMMA ClaudeInvStep == ASSUME ClaudeInv, [ClaudeNext]_claudeVars PROVE ClaudeInv'
<1>1. CASE NextTurn
    BY <1>1, RunTurnKeeps
<1>2. CASE ResumeTurn
    BY <1>2, ResumeTurnKeeps
<1>3. CASE \E n \in Launches : ChildInit(n) \/ ChildRefuses(n) \/ ChildExits(n)
    BY <1>3, ChildMovesIs, ChildMovesKeeps
<1>4. CASE UNCHANGED claudeVars
    <2>1. Steady /\ UNCHANGED <<session, step, ending, tail>>
        BY <1>4, SteadyStep DEF claudeVars
    <2>2. ClaudeTypes'
        BY <1>4 DEF claudeVars, ClaudeInv, ClaudeTypes
    <2>. QED
        BY <2>1, <2>2 DEF Steady, ClaudeInv, ConversationIsOpenedOnce, StepsAreInOrder, ExitIsHandled
<1>. QED
    BY <1>1, <1>2, <1>3, <1>4, ClientSteps DEF ClaudeNext

(* ClaudeCodeClient.run_turn: whatever the provider remembers of an        *)
(* earlier run and wherever the worker is cancelled, an attempt of any     *)
(* number of turns launches one process more than it has turns at most,    *)
(* opens its conversation with the first alone, and does not end because   *)
(* its session id was in use.                                              *)
THEOREM SessionsSurviveRestarts == ClaudeSpec => []SessionSurvivesRestart
<1>1. ClaudeInit => ClaudeInv
    BY ClaudeInvInit
<1>2. ClaudeInv /\ [ClaudeNext]_claudeVars => ClaudeInv'
    BY ClaudeInvStep
<1>3. ClaudeInv => SessionSurvivesRestart
    BY DEF ClaudeInv, ClaudeTypes, ConversationIsOpenedOnce, ExitIsHandled, SessionSurvivesRestart
<1>. QED
    BY <1>1, <1>2, <1>3, PTL DEF ClaudeSpec

=============================================================================
