------------------------------ MODULE Chunking ------------------------------
(***************************************************************************)
(* chunk() of the RLM's REPL: a text is cut at natural boundaries into     *)
(* pieces that fit a budget.  A text is the sequence of what may follow    *)
(* each of its characters: a paragraph break, a line break, the end of a   *)
(* sentence, or nothing.  A piece is a pair of offsets <<start, end>>.     *)
(***************************************************************************)
EXTENDS Integers, Sequences

Breaks == {"paragraph", "line", "sentence", "char"}
Ladder == <<"paragraph", "line", "sentence", "char">>

Shorter(a, b) == IF a <= b THEN a ELSE b
Longer(a, b) == IF a >= b THEN a ELSE b

(* A paragraph break is a line break too.                                  *)
CutsAfter(text, k, level) ==
    text[k] = level \/ (level = "line" /\ text[k] = "paragraph")

Width(p) == p[2] - p[1]

(* _units: text[p] cut after every character that ends a unit of level.    *)
Units(text, p, level) ==
    LET cut[k \in p[1]..p[2]] ==
            IF k = p[1] THEN <<>>
            ELSE LET done == cut[k - 1]
                     from == IF done = <<>> THEN p[1] ELSE done[Len(done)][2]
                 IN IF k = p[2] \/ CutsAfter(text, k, level) THEN Append(done, <<from, k>>) ELSE done
    IN cut[p[2]]

HardSlices(p, budget) ==
    [k \in 1..((Width(p) + budget - 1) \div budget) |->
        <<p[1] + (k - 1) * budget, Shorter(p[1] + k * budget, p[2])>>]

Flatten(pieces) ==
    LET flat[k \in 0..Len(pieces)] == IF k = 0 THEN <<>> ELSE flat[k - 1] \o pieces[k]
    IN flat[Len(pieces)]

(* _atoms: descend the ladder only where a piece is still too wide.  The   *)
(* argument is the offsets and the first level to try.                     *)
Atoms(text, levels, budget) ==
    LET n == Len(text)
        atoms[a \in 0..n, b \in 0..n, i \in 1..(Len(levels) + 1)] ==
            IF b - a <= budget THEN << <<a, b>> >>
            ELSE IF i > Len(levels) THEN HardSlices(<<a, b>>, budget)
            ELSE LET units == Units(text, <<a, b>>, levels[i]) IN
                 IF Len(units) <= 1 THEN atoms[a, b, i + 1]
                 ELSE Flatten([k \in DOMAIN units |->
                          IF Width(units[k]) <= budget THEN << units[k] >>
                          ELSE atoms[units[k][1], units[k][2], i + 1]])
    IN atoms[0, n, 1]

(* chunk: atoms are packed greedily; a chunk after the first is widened to *)
(* the left by the overlap.                                                *)
Chunks(text, maxChars, wanted, levels) ==
    LET overlap == Shorter(wanted, maxChars - 1)
        budget == Longer(1, maxChars - overlap)
        atoms == Atoms(text, levels, budget)
        packed[k \in 0..Len(atoms)] ==
            IF k = 0 THEN <<>>
            ELSE LET done == packed[k - 1]
                     last == done[Len(done)]
                 IN IF done # <<>> /\ Width(last) + Width(atoms[k]) <= budget
                    THEN [done EXCEPT ![Len(done)] = <<last[1], atoms[k][2]>>]
                    ELSE Append(done, atoms[k])
        bodies == packed[Len(atoms)]
    IN IF text = <<>> THEN <<>>
       ELSE [k \in DOMAIN bodies |->
                <<IF k = 1 THEN bodies[k][1] ELSE Longer(0, bodies[k][1] - overlap), bodies[k][2]>>]

-----------------------------------------------------------------------------

(* chunk: every chunk fits its budget with its overlap, chunks follow each *)
(* other without a gap from the first character to the last, and a cut     *)
(* falls inside a unit only where that unit does not fit.                  *)
ChunksCover(text, maxChars, overlap) ==
    LET c == Chunks(text, maxChars, overlap, Ladder)
        budget == Longer(1, maxChars - Shorter(overlap, maxChars - 1))
    IN /\ \A k \in DOMAIN c : Width(c[k]) \in 1..maxChars
       /\ text # <<>> => c[1][1] = 0 /\ c[Len(c)][2] = Len(text)
       /\ \A k \in 2..Len(c) : c[k][1] <= c[k - 1][2] /\ c[k - 1][2] < c[k][2]
       /\ \A k \in 1..(Len(c) - 1) : LET b == c[k][2] IN
            text[b] = "char" => \E i, j \in 0..Len(text) :
                /\ i < b /\ b < j /\ j - i > budget
                /\ \A m \in (i + 1)..(j - 1) : text[m] = "char"

=============================================================================
