--------------------------- MODULE CountingProofs ---------------------------
(***************************************************************************)
(* Theorems about what is counted: the doublings of a retry delay          *)
(* (RetryDelays), the places of candidates (DispatchRules), the characters *)
(* a recursive query reads (RecursiveQuery) and the tokens sessions are    *)
(* credited (TokenTotals).                                                 *)
(***************************************************************************)
EXTENDS RetryDelays, DispatchRules, RecursiveQuery, TokenTotals, FiniteSetTheorems,
        SequenceTheorems, TLAPS

-----------------------------------------------------------------------------
(* Sums                                                                    *)

(* Induction over the numbers, for a set instead of a predicate: the least *)
(* number outside the set would map an interval into a smaller one.        *)
LEMMA SetInduction ==
    ASSUME NEW S, 0 \in S, \A n \in Nat : n \in S => n + 1 \in S
    PROVE  \A n \in Nat : n \in S
<1>. SUFFICES ASSUME NEW m \in Nat, m \notin S PROVE FALSE
    OBVIOUS
<1>. DEFINE V == {n \in 0 .. m : n \notin S}
            W == V \ {m}
            before == [n \in V |-> n - 1]
<1>1. /\ IsFiniteSet(V) /\ IsFiniteSet(W)
      /\ Cardinality(W) = Cardinality(V) - 1 /\ Cardinality(V) \in Nat
    <2>1. IsFiniteSet(0 .. m) /\ V \subseteq 0 .. m /\ m \in V
        BY FS_Interval
    <2>2. IsFiniteSet(V)
        BY <2>1, FS_Subset
    <2>. HIDE DEF V
    <2>. QED
        BY <2>1, <2>2, FS_RemoveElement, FS_CardinalityType
<1>2. ASSUME NEW n \in V PROVE n - 1 \in W
    <2>1. n # 0 /\ n - 1 \in Nat /\ (n - 1) + 1 = n
        OBVIOUS
    <2>. QED
        BY <2>1
<1>3. before \in [V -> W]
    BY <1>2
<1>4. \A n, k \in V : n # k => before[n] # before[k]
    OBVIOUS
<1>. HIDE DEF V, W, before
<1>. QED
    BY <1>1, <1>3, <1>4, FS_PigeonHole

(* s holds the sums of the first members of f, up to the n-th.             *)
SumsTo(s, f, n) == s = [k \in 0 .. n |-> IF k = 0 THEN 0 ELSE s[k - 1] + f[k]]

LEMMA SumsExist ==
    ASSUME NEW m \in Nat, NEW f \in [1 .. m -> Nat], NEW n \in 0 .. m
    PROVE  \E s \in [0 .. n -> Nat] : SumsTo(s, f, n)
<1>. DEFINE S == {k \in Nat : k <= m => \E s \in [0 .. k -> Nat] : SumsTo(s, f, k)}
<1>1. 0 \in S
    <2>1. SumsTo([w \in 0 .. 0 |-> 0], f, 0)
        BY DEF SumsTo
    <2>. QED
        BY <2>1
<1>2. ASSUME NEW k \in Nat, k \in S PROVE k + 1 \in S
    <2>. SUFFICES ASSUME k + 1 <= m
                  PROVE  \E s \in [0 .. k + 1 -> Nat] : SumsTo(s, f, k + 1)
        OBVIOUS
    <2>0. k <= m /\ k + 1 \in 1 .. m /\ f[k + 1] \in Nat
        OBVIOUS
    <2>1. PICK s \in [0 .. k -> Nat] : SumsTo(s, f, k)
        BY <1>2, <2>0
    <2>. HIDE DEF S
    <2>. DEFINE t == [w \in 0 .. k + 1 |-> IF w = k + 1 THEN s[k] + f[k + 1] ELSE s[w]]
    <2>2. t \in [0 .. k + 1 -> Nat]
        <3>1. s[k] \in Nat /\ s[k] + f[k + 1] \in Nat
            BY <2>0
        <3>2. \A w \in 0 .. k + 1 : w # k + 1 => w \in 0 .. k /\ s[w] \in Nat
            OBVIOUS
        <3>. QED
            BY <3>1, <3>2
    <2>3. \A w \in 0 .. k : t[w] = s[w] /\ s[w] = IF w = 0 THEN 0 ELSE s[w - 1] + f[w]
        BY <2>1 DEF SumsTo
    <2>4. ASSUME NEW w \in 0 .. k + 1 PROVE t[w] = IF w = 0 THEN 0 ELSE t[w - 1] + f[w]
        <3>1. CASE w = k + 1
            BY <3>1, <2>3
        <3>2. CASE w # k + 1
            <4>1. w \in 0 .. k /\ (w # 0 => w - 1 \in 0 .. k)
                BY <3>2
            <4>. HIDE DEF t
            <4>. QED
                BY <4>1, <2>3
        <3>. QED
            BY <3>1, <3>2
    <2>. QED
        BY <2>2, <2>4 DEF SumsTo
<1>. HIDE DEF S
<1>3. \A k \in Nat : k \in S
    BY <1>1, <1>2, SetInduction
<1>4. n \in Nat /\ n <= m
    OBVIOUS
<1>. QED
    BY <1>3, <1>4 DEF S

LEMMA SumsAre ==
    ASSUME NEW m \in Nat, NEW f \in [1 .. m -> Nat], NEW s, SumsTo(s, f, m)
    PROVE  /\ s[0] = 0
           /\ \A k \in 0 .. m : s[k] \in Nat
           /\ \A k \in 1 .. m : s[k] = s[k - 1] + f[k]
<1>3. \A k \in 0 .. m : s[k] = IF k = 0 THEN 0 ELSE s[k - 1] + f[k]
    <2>. DEFINE g == [k \in 0 .. m |-> IF k = 0 THEN 0 ELSE s[k - 1] + f[k]]
    <2>1. s = g
        BY Zenon DEF SumsTo
    <2>2. \A k \in 0 .. m : g[k] = IF k = 0 THEN 0 ELSE s[k - 1] + f[k]
        OBVIOUS
    <2>. HIDE DEF g
    <2>. QED
        BY <2>1, <2>2
<1>. DEFINE S == {k \in Nat : k <= m => s[k] \in Nat}
<1>4. 0 \in S
    BY <1>3
<1>5. ASSUME NEW k \in S PROVE k + 1 \in S
    <2>. SUFFICES ASSUME k + 1 <= m PROVE s[k + 1] \in Nat
        OBVIOUS
    <2>1. k \in Nat /\ k + 1 \in 1 .. m /\ k + 1 \in 0 .. m /\ (k + 1) - 1 = k /\ k + 1 # 0
        OBVIOUS
    <2>2. s[k] \in Nat /\ f[k + 1] \in Nat
        BY <2>1
    <2>. HIDE DEF S
    <2>3. s[k + 1] = s[k] + f[k + 1]
        BY <1>3, <2>1
    <2>. QED
        BY <2>2, <2>3
<1>. HIDE DEF S
<1>6. \A k \in Nat : k \in S
    BY <1>4, <1>5, SetInduction
<1>. QED
    BY <1>3, <1>6 DEF S

-----------------------------------------------------------------------------
(* RetryDelays                                                             *)

(* The provers know powers of two only as the numbers of subsets.          *)
LEMMA PowersOfTwo ==
    /\ 2^0 = 1
    /\ \A n \in Nat : 2^n \in Nat /\ 2^(n + 1) = 2^n + 2^n
<1>1. 2^0 = 1
    <2>1. Cardinality(SUBSET {}) = 2^Cardinality({})
        BY FS_EmptySet, FS_SUBSET, Zenon
    <2>2. SUBSET {} = {{}}
        OBVIOUS
    <2>3. Cardinality({{}}) = 1
        BY FS_Singleton
    <2>4. Cardinality({}) = 0
        BY FS_EmptySet
    <2>. QED
        BY <2>1, <2>2, <2>3, <2>4, Zenon
<1>2. ASSUME NEW n \in Nat PROVE 2^n \in Nat /\ 2^(n + 1) = 2^n + 2^n
    <2>. DEFINE D == 1 .. n
                New == n + 1
                Old == SUBSET D
                More == {A \cup {New} : A \in Old}
                add == [A \in Old |-> A \cup {New}]
    <2>1. /\ IsFiniteSet(D) /\ Cardinality(D) = n
          /\ IsFiniteSet(1 .. n + 1) /\ Cardinality(1 .. n + 1) = n + 1
        BY FS_Interval
    <2>2. /\ IsFiniteSet(Old) /\ Cardinality(Old) = 2^n
        BY <2>1, FS_SUBSET, Zenon
    <2>3. Cardinality(SUBSET (1 .. n + 1)) = 2^(n + 1)
        BY <2>1, FS_SUBSET, Zenon
    <2>4. 1 .. n + 1 = D \cup {New} /\ New \notin D
        OBVIOUS
    <2>5. IsFiniteSet(More) /\ Cardinality(More) = Cardinality(Old)
        <3>1. add \in Bijection(Old, More)
            <4>1. add \in [Old -> More]
                OBVIOUS
            <4>2. \A A, B \in Old : add[A] = add[B] => A = B
                BY <2>4
            <4>3. \A M \in More : \E A \in Old : add[A] = M
                OBVIOUS
            <4>. HIDE DEF add, Old, More
            <4>. QED
                BY <4>1, <4>2, <4>3 DEF Bijection, Injection, Surjection, IsInjective
        <3>. HIDE DEF add, Old, More
        <3>. QED
            BY <2>2, <3>1, FS_Bijection DEF ExistsBijection
    <2>6. SUBSET (1 .. n + 1) = Old \cup More
        <3>1. ASSUME NEW M \in SUBSET (D \cup {New}) PROVE M \in Old \cup More
            <4>1. M \ {New} \in Old /\ (New \in M => M = (M \ {New}) \cup {New})
                OBVIOUS
            <4>. QED
                BY <4>1
        <3>2. Old \cup More \subseteq SUBSET (D \cup {New})
            OBVIOUS
        <3>. QED
            BY <2>4, <3>1, <3>2
    <2>7. Old \cap More = {}
        BY <2>4
    <2>8. Cardinality(Old) \in Nat
        BY <2>2, FS_CardinalityType
    <2>9. Cardinality(Old \cup More) = Cardinality(Old) + Cardinality(More)
        <3>. HIDE DEF Old, More
        <3>1. Cardinality(Old \cap More) = 0
            BY <2>7, FS_EmptySet
        <3>2. Cardinality(Old \cup More) =
                 Cardinality(Old) + Cardinality(More) - Cardinality(Old \cap More)
            BY <2>2, <2>5, FS_Union
        <3>. QED
            BY <2>5, <2>8, <3>1, <3>2
    <2>. HIDE DEF Old, More, D
    <2>. QED
        BY <2>2, <2>3, <2>5, <2>6, <2>8, <2>9, Zenon
<1>. QED
    BY <1>1, <1>2

\* The same as a function, which the provers see through.
Doublings == [n \in Nat |-> 2^n]

LEMMA DoublingsAre ==
    /\ Doublings \in [Nat -> Nat] /\ Doublings[0] = 1
    /\ \A n \in Nat : Doublings[n + 1] = 2 * Doublings[n]
    /\ \A n \in Nat : n < Doublings[n]
    /\ \A n, m \in Nat : n <= m => Doublings[n] <= Doublings[m]
<1>1. \A n \in Nat : Doublings[n] = 2^n
    BY Zenon DEF Doublings
<1>2. Doublings \in [Nat -> Nat]
    BY PowersOfTwo, Zenon DEF Doublings
<1>3. Doublings[0] = 1 /\ \A n \in Nat : Doublings[n + 1] = Doublings[n] + Doublings[n]
    <2>1. 0 \in Nat /\ \A n \in Nat : n + 1 \in Nat
        OBVIOUS
    <2>. QED
        BY <1>1, <2>1, PowersOfTwo, Zenon
<1>4. \A n \in Nat : Doublings[n + 1] = 2 * Doublings[n]
    BY <1>2, <1>3
<1>5. \A n \in Nat : n < Doublings[n]
    <2>. DEFINE S == {n \in Nat : n < Doublings[n]}
    <2>1. 0 \in S
        BY <1>3
    <2>2. ASSUME NEW n \in Nat, n \in S PROVE n + 1 \in S
        BY <1>2, <1>4, <2>2
    <2>. HIDE DEF S
    <2>3. \A n \in Nat : n \in S
        BY <2>1, <2>2, SetInduction
    <2>. QED
        BY <2>3 DEF S
<1>6. ASSUME NEW n \in Nat, NEW m \in Nat, n <= m PROVE Doublings[n] <= Doublings[m]
    <2>. DEFINE S == {d \in Nat : Doublings[n] <= Doublings[n + d]}
    <2>1. 0 \in S
        BY <1>2
    <2>2. ASSUME NEW d \in Nat, d \in S PROVE d + 1 \in S
        <3>1. Doublings[n + d + 1] = 2 * Doublings[n + d]
            BY <1>4
        <3>2. Doublings[n] \in Nat /\ Doublings[n + d] \in Nat
            BY <1>2
        <3>. QED
            BY <2>2, <3>1, <3>2
    <2>. HIDE DEF S
    <2>3. m - n \in S
        <3>1. m - n \in Nat
            BY <1>6
        <3>. QED
            BY <2>1, <2>2, <3>1, SetInduction
    <2>. QED
        BY <1>6, <2>3 DEF S
<1>. QED
    BY <1>2, <1>3, <1>4, <1>5, <1>6

\* The bit length is the number of doublings that pass n.
LEMMA BitLengthIs ==
    ASSUME NEW n \in Nat
    PROVE  BitLength(n) \in Nat /\ n < Doublings[BitLength(n)]
<1>0. \A k \in Nat : Doublings[k] \in Nat
    BY DoublingsAre
<1>. DEFINE Passed(k) == Doublings[k] > n
            Is(k) == Doublings[k] > n /\ (k = 0 \/ Doublings[k - 1] <= n)
<1>1. \E k \in 0 .. n : Is(k)
    <2>. SUFFICES ASSUME \A k \in 0 .. n : ~Is(k) PROVE FALSE
        OBVIOUS
    <2>. DEFINE S == {k \in Nat : k <= n => ~Passed(k)}
    <2>1. 0 \in S
        OBVIOUS
    <2>2. ASSUME NEW k \in Nat, k \in S PROVE k + 1 \in S
        <3>1. Doublings[k] \in Nat /\ Doublings[k + 1] \in Nat
            BY <1>0
        <3>. QED
            BY <2>2, <3>1
    <2>. HIDE DEF S
    <2>3. n \in S
        BY <2>1, <2>2, SetInduction
    <2>. QED
        BY <2>3, DoublingsAre DEF S
<1>2. \A k \in 0 .. n : Is(k) <=> (2^k > n /\ (k = 0 \/ 2^(k - 1) <= n))
    <2>1. \A k \in 0 .. n : k \in Nat /\ (k # 0 => k - 1 \in Nat)
        OBVIOUS
    <2>2. \A k \in Nat : Doublings[k] = 2^k
        BY Zenon DEF Doublings
    <2>. QED
        BY <2>1, <2>2, Zenon
<1>. HIDE DEF Is
<1>3. BitLength(n) \in 0 .. n /\ Is(BitLength(n))
    BY <1>1, <1>2, Zenon DEF BitLength
<1>. QED
    BY <1>3 DEF Is

(* backoff_delay_ms doubles before it clamps: past the bit length of the   *)
(* cap the doublings exceed it, so where the shift is cut changes nothing. *)
LEMMA CutIsNotSeen ==
    ASSUME NEW shift \in Nat, NEW cap \in Int, NEW ceiling \in Nat,
           NEW n \in Nat, n = Max2(cap, 0) \div BaseRetryDelay, n < Doublings[ceiling]
    PROVE  Min2(BaseRetryDelay * Doublings[Min2(shift, ceiling)], cap) = Min2(BaseRetryDelay * Doublings[shift], cap)
<1>1. CASE shift <= ceiling
    BY <1>1 DEF Min2
<1>2. CASE shift > ceiling
    <2>1. Doublings[shift] \in Nat /\ Doublings[ceiling] \in Nat
          /\ Doublings[ceiling] <= Doublings[shift]
        <3>1. ceiling <= shift
            BY <1>2
        <3>. QED
            BY <3>1, DoublingsAre, Zenon
    <2>2. cap < BaseRetryDelay * (n + 1)
        BY DEF Max2, BaseRetryDelay
    <2>3. cap < BaseRetryDelay * Doublings[ceiling] /\ cap < BaseRetryDelay * Doublings[shift]
        BY <2>1, <2>2 DEF BaseRetryDelay
    <2>4. Min2(shift, ceiling) = ceiling
        BY <1>2 DEF Min2
    <2>. QED
        BY <2>1, <2>3, <2>4 DEF Min2, BaseRetryDelay
<1>. QED
    BY <1>1, <1>2

LEMMA DelayIs ==
    ASSUME NEW attempt \in Int, NEW cap \in Int
    PROVE  BackoffDelay(attempt, cap) =
              Max2(0, Min2(BaseRetryDelay * Doublings[Max2(attempt, 1) - 1], cap))
<1>1. PICK n \in Nat : n = Max2(cap, 0) \div BaseRetryDelay
    BY DEF Max2, BaseRetryDelay
<1>2. PICK ceiling \in Nat : ceiling = BitLength(n) /\ n < Doublings[ceiling]
    BY BitLengthIs, Zenon
<1>3. PICK shift \in Nat : shift = Max2(attempt, 1) - 1
    BY DEF Max2
<1>4. Min2(shift, ceiling) \in Nat
    BY DEF Min2
<1>5. 2^Min2(shift, ceiling) = Doublings[Min2(shift, ceiling)]
    BY <1>4, Zenon DEF Doublings
<1>6. BackoffDelay(attempt, cap) = Max2(0, Min2(BaseRetryDelay * 2^Min2(shift, ceiling), cap))
    BY <1>1, <1>2, <1>3, Zenon DEF BackoffDelay
<1>7. Min2(BaseRetryDelay * Doublings[Min2(shift, ceiling)], cap) = Min2(BaseRetryDelay * Doublings[shift], cap)
    BY <1>1, <1>2, CutIsNotSeen
<1>. QED
    BY <1>3, <1>5, <1>6, <1>7, Zenon

(* backoff_delay_ms is min(10000 * 2^(attempt - 1), cap), floored at 0,    *)
(* and never falls from one attempt to the next: for every attempt number  *)
(* and every cap.                                                          *)
THEOREM BackoffIsAsDocumented ==
    \A attempt, cap \in Int : BackoffIsTheFormula(attempt, cap)
<1>. SUFFICES ASSUME NEW attempt \in Int, NEW cap \in Int
              PROVE  BackoffIsTheFormula(attempt, cap)
    OBVIOUS
<1>. DEFINE shift == Max2(attempt, 1) - 1
            later == Max2(NextAttemptOf(attempt), 1) - 1
<1>1. shift \in Nat /\ later \in Nat /\ shift <= later /\ NextAttemptOf(attempt) \in Int
    BY DEF Max2, NextAttemptOf
<1>. HIDE DEF shift, later
<1>2. Doublings[shift] \in Nat /\ Doublings[later] \in Nat /\ Doublings[shift] <= Doublings[later]
    BY <1>1, DoublingsAre
<1>3. BackoffDelay(attempt, cap) = Max2(0, Min2(BaseRetryDelay * Doublings[shift], cap))
    BY DelayIs DEF shift
<1>4. BackoffDelay(NextAttemptOf(attempt), cap) = Max2(0, Min2(BaseRetryDelay * Doublings[later], cap))
    BY <1>1, DelayIs DEF later
<1>5. Max2(0, Min2(BaseRetryDelay * Doublings[shift], cap)) <= Max2(0, Min2(BaseRetryDelay * Doublings[later], cap))
    BY <1>2 DEF Max2, Min2, BaseRetryDelay
<1>6. Doublings[shift] = 2^shift
    BY <1>1, Zenon DEF Doublings
<1>7. BackoffDelay(attempt, cap) = Max2(0, Min2(BaseRetryDelay * 2^shift, cap))
    BY <1>3, <1>6, Zenon
<1>8. BackoffDelay(attempt, cap) <= BackoffDelay(NextAttemptOf(attempt), cap)
    BY <1>3, <1>4, <1>5, Zenon
<1>. QED
    BY <1>7, <1>8, Zenon DEF BackoffIsTheFormula, shift

-----------------------------------------------------------------------------
(* DispatchRules                                                           *)

Candidate == [priority : Int, created : Int, name : Int]

\* The five parts of a sort key: rank and number of the priority, rank and
\* time of creation, name.
Rank1(c) == IF c.priority \in 1..4 THEN 0 ELSE 1
Rank2(c) == IF c.priority \in 1..4 THEN c.priority ELSE 0
Rank3(c) == IF c.created = NoValue THEN 1 ELSE 0
Rank4(c) == IF c.created = NoValue THEN 0 ELSE c.created

LEMMA Joined ==
    ASSUME NEW a, NEW b, NEW d, NEW e, NEW f
    PROVE  (<<a, b>> \o <<d, e>>) \o <<f>> = <<a, b, d, e, f>>
<1>. DEFINE S == {a, b, d, e, f}
            s == <<a, b>> \o <<d, e>>
            t == s \o <<f>>
            all == <<a, b, d, e, f>>
<1>1. /\ s \in Seq(S) /\ Len(s) = 4
      /\ s[1] = a /\ s[2] = b /\ s[3] = d /\ s[4] = e
    <2>1. /\ <<a, b>> \in Seq(S) /\ Len(<<a, b>>) = 2
          /\ <<d, e>> \in Seq(S) /\ Len(<<d, e>>) = 2
        OBVIOUS
    <2>2. \A i \in 1 .. 4 : s[i] = IF i <= 2 THEN <<a, b>>[i] ELSE <<d, e>>[i - 2]
        BY <2>1, ConcatProperties
    <2>3. s \in Seq(S) /\ Len(s) = 4
        BY <2>1, ConcatProperties
    <2>. HIDE DEF s, S
    <2>. QED
        BY <2>2, <2>3
<1>. HIDE DEF s
<1>2. /\ t \in Seq(S) /\ Len(t) = 5
      /\ t[1] = a /\ t[2] = b /\ t[3] = d /\ t[4] = e /\ t[5] = f
    <2>1. <<f>> \in Seq(S) /\ Len(<<f>>) = 1
        OBVIOUS
    <2>4. PICK q : q = <<f>>
        OBVIOUS
    <2>5. q \in Seq(S) /\ Len(q) = 1 /\ q[1] = f
        BY <2>1, <2>4
    <2>6. t = s \o q
        BY <2>4
    <2>. HIDE DEF S, t
    <2>2. /\ s \o q \in Seq(S) /\ Len(s \o q) = Len(s) + Len(q)
          /\ \A i \in 1 .. Len(s) + Len(q) :
                (s \o q)[i] = IF i <= Len(s) THEN s[i] ELSE q[i - Len(s)]
        BY <1>1, <2>5, ConcatProperties
    <2>. QED
        BY <1>1, <2>2, <2>5, <2>6
<1>. HIDE DEF t
<1>3. /\ all \in Seq(S) /\ Len(all) = 5
      /\ all[1] = a /\ all[2] = b /\ all[3] = d /\ all[4] = e /\ all[5] = f
    OBVIOUS
<1>. HIDE DEF all, S
<1>4. t = all
    <2>1. \A i \in 1 .. 5 : i = 1 \/ i = 2 \/ i = 3 \/ i = 4 \/ i = 5
        OBVIOUS
    <2>2. \A i \in 1 .. Len(t) : t[i] = all[i]
        BY <1>2, <1>3, <2>1
    <2>. QED
        BY <1>2, <1>3, <2>2, SeqEqual
<1>. QED
    BY <1>4, Zenon DEF t, s, all

LEMMA KeyIs ==
    ASSUME NEW c \in Candidate
    PROVE  /\ SortKey(c) = <<Rank1(c), Rank2(c), Rank3(c), Rank4(c), c.name>>
           /\ Rank1(c) \in Int /\ Rank2(c) \in Int /\ Rank3(c) \in Int /\ Rank4(c) \in Int
           /\ c.name \in Int
<1>1. PriorityRank(c.priority) = <<Rank1(c), Rank2(c)>>
    BY DEF PriorityRank, Rank1, Rank2
<1>2. CreatedRank(c.created) = <<Rank3(c), Rank4(c)>>
    BY DEF CreatedRank, Rank3, Rank4
<1>3. SortKey(c) = (<<Rank1(c), Rank2(c)>> \o <<Rank3(c), Rank4(c)>>) \o <<c.name>>
    BY <1>1, <1>2, Zenon DEF SortKey
<1>5. SortKey(c) = <<Rank1(c), Rank2(c), Rank3(c), Rank4(c), c.name>>
    BY <1>3, Joined, Zenon
<1>4. Rank1(c) \in Int /\ Rank2(c) \in Int /\ Rank3(c) \in Int /\ Rank4(c) \in Int /\ c.name \in Int
    BY DEF Candidate, Rank1, Rank2, Rank3, Rank4
<1>. QED
    BY <1>4, <1>5, Zenon

\* Which of two keys of five numbers comes first.
Before5(a1, a2, a3, a4, a5, b1, b2, b3, b4, b5) ==
    \/ a1 < b1
    \/ a1 = b1 /\ a2 < b2
    \/ a1 = b1 /\ a2 = b2 /\ a3 < b3
    \/ a1 = b1 /\ a2 = b2 /\ a3 = b3 /\ a4 < b4
    \/ a1 = b1 /\ a2 = b2 /\ a3 = b3 /\ a4 = b4 /\ a5 < b5

LEMMA PrecedesIs ==
    ASSUME NEW a1, NEW a2, NEW a3, NEW a4, NEW a5, NEW b1, NEW b2, NEW b3, NEW b4, NEW b5
    PROVE  Precedes(<<a1, a2, a3, a4, a5>>, <<b1, b2, b3, b4, b5>>)
              <=> Before5(a1, a2, a3, a4, a5, b1, b2, b3, b4, b5)
<1>. DEFINE a == <<a1, a2, a3, a4, a5>>
            b == <<b1, b2, b3, b4, b5>>
<1>1. /\ DOMAIN a = 1 .. 5
      /\ a[1] = a1 /\ a[2] = a2 /\ a[3] = a3 /\ a[4] = a4 /\ a[5] = a5
      /\ b[1] = b1 /\ b[2] = b2 /\ b[3] = b3 /\ b[4] = b4 /\ b[5] = b5
    OBVIOUS
<1>. HIDE DEF a, b
<1>2. Precedes(a, b) => Before5(a1, a2, a3, a4, a5, b1, b2, b3, b4, b5)
    <2>. SUFFICES ASSUME NEW k \in 1 .. 5, a[k] < b[k], \A j \in 1 .. k - 1 : a[j] = b[j]
                  PROVE  Before5(a1, a2, a3, a4, a5, b1, b2, b3, b4, b5)
        BY <1>1 DEF Precedes
    <2>1. k = 1 \/ k = 2 \/ k = 3 \/ k = 4 \/ k = 5
        OBVIOUS
    <2>. QED
        BY <1>1, <2>1 DEF Before5
<1>3. ASSUME Before5(a1, a2, a3, a4, a5, b1, b2, b3, b4, b5) PROVE Precedes(a, b)
    <2>. SUFFICES \E k \in 1 .. 5 : a[k] < b[k] /\ \A j \in 1 .. k - 1 : a[j] = b[j]
        BY <1>1 DEF Precedes
    <2>1. CASE a1 < b1
        BY <1>1, <2>1
    <2>2. CASE a1 = b1 /\ a2 < b2
        BY <1>1, <2>2
    <2>3. CASE a1 = b1 /\ a2 = b2 /\ a3 < b3
        BY <1>1, <2>3
    <2>4. CASE a1 = b1 /\ a2 = b2 /\ a3 = b3 /\ a4 < b4
        BY <1>1, <2>4
    <2>5. CASE a1 = b1 /\ a2 = b2 /\ a3 = b3 /\ a4 = b4 /\ a5 < b5
        BY <1>1, <2>5
    <2>. QED
        BY <1>3, <2>1, <2>2, <2>3, <2>4, <2>5 DEF Before5
<1>. QED
    BY <1>2, <1>3, Zenon DEF a, b

\* The j-th of a list is dispatched before the k-th.
Comes(list, j, k) ==
    \/ Precedes(SortKey(list[j]), SortKey(list[k]))
    \/ SortKey(list[j]) = SortKey(list[k]) /\ j < k

\* The same for keys and, where they are equal, places in the list.
Before6(a1, a2, a3, a4, a5, j, b1, b2, b3, b4, b5, k) ==
    \/ Before5(a1, a2, a3, a4, a5, b1, b2, b3, b4, b5)
    \/ a1 = b1 /\ a2 = b2 /\ a3 = b3 /\ a4 = b4 /\ a5 = b5 /\ j < k

LEMMA NoneBeforeItself ==
    ASSUME NEW a1 \in Int, NEW a2 \in Int, NEW a3 \in Int, NEW a4 \in Int, NEW a5 \in Int, NEW j \in Int
    PROVE  ~Before6(a1, a2, a3, a4, a5, j, a1, a2, a3, a4, a5, j)
    BY DEF Before5, Before6

LEMMA OneBeforeTheOther ==
    ASSUME NEW a1 \in Int, NEW a2 \in Int, NEW a3 \in Int, NEW a4 \in Int, NEW a5 \in Int, NEW j \in Int,
           NEW b1 \in Int, NEW b2 \in Int, NEW b3 \in Int, NEW b4 \in Int, NEW b5 \in Int, NEW k \in Int,
           j # k
    PROVE  \/ Before6(a1, a2, a3, a4, a5, j, b1, b2, b3, b4, b5, k)
           \/ Before6(b1, b2, b3, b4, b5, k, a1, a2, a3, a4, a5, j)
    BY DEF Before5, Before6

LEMMA BeforeIsTransitive ==
    ASSUME NEW a1 \in Int, NEW a2 \in Int, NEW a3 \in Int, NEW a4 \in Int, NEW a5 \in Int, NEW j \in Int,
           NEW b1 \in Int, NEW b2 \in Int, NEW b3 \in Int, NEW b4 \in Int, NEW b5 \in Int, NEW k \in Int,
           NEW c1 \in Int, NEW c2 \in Int, NEW c3 \in Int, NEW c4 \in Int, NEW c5 \in Int, NEW l \in Int,
           Before6(a1, a2, a3, a4, a5, j, b1, b2, b3, b4, b5, k),
           Before6(b1, b2, b3, b4, b5, k, c1, c2, c3, c4, c5, l)
    PROVE  Before6(a1, a2, a3, a4, a5, j, c1, c2, c3, c4, c5, l)
    BY DEF Before5, Before6

Earlier(a, j, b, k) ==
    Before6(Rank1(a), Rank2(a), Rank3(a), Rank4(a), a.name, j,
            Rank1(b), Rank2(b), Rank3(b), Rank4(b), b.name, k)

LEMMA EarlierIsOrder ==
    ASSUME NEW a \in Candidate, NEW b \in Candidate, NEW c \in Candidate,
           NEW j \in Int, NEW k \in Int, NEW l \in Int
    PROVE  /\ ~Earlier(a, j, a, j)
           /\ j # k => Earlier(a, j, b, k) \/ Earlier(b, k, a, j)
           /\ Earlier(a, j, b, k) /\ Earlier(b, k, c, l) => Earlier(a, j, c, l)
<1>1. ASSUME NEW x \in Candidate
      PROVE  Rank1(x) \in Int /\ Rank2(x) \in Int /\ Rank3(x) \in Int /\ Rank4(x) \in Int /\ x.name \in Int
    BY KeyIs
<1>2. ~Earlier(a, j, a, j)
    BY <1>1, NoneBeforeItself, Zenon DEF Earlier
<1>3. j # k => Earlier(a, j, b, k) \/ Earlier(b, k, a, j)
    BY <1>1, OneBeforeTheOther, Zenon DEF Earlier
<1>4. Earlier(a, j, b, k) /\ Earlier(b, k, c, l) => Earlier(a, j, c, l)
    BY <1>1, BeforeIsTransitive, Zenon DEF Earlier
<1>. QED
    BY <1>2, <1>3, <1>4

LEMMA ComesIs ==
    ASSUME NEW list \in Seq(Candidate), NEW j \in DOMAIN list, NEW k \in DOMAIN list
    PROVE  Comes(list, j, k) <=> Earlier(list[j], j, list[k], k)
<1>1. PICK a \in Candidate, b \in Candidate : a = list[j] /\ b = list[k]
    <2>1. list[j] \in Candidate /\ list[k] \in Candidate
        OBVIOUS
    <2>. QED
        BY <2>1
<1>2. ASSUME NEW a1, NEW a2, NEW a3, NEW a4, NEW a5, NEW b1, NEW b2, NEW b3, NEW b4, NEW b5
      PROVE  <<a1, a2, a3, a4, a5>> = <<b1, b2, b3, b4, b5>>
                <=> a1 = b1 /\ a2 = b2 /\ a3 = b3 /\ a4 = b4 /\ a5 = b5
    OBVIOUS
<1>3. /\ SortKey(a) = <<Rank1(a), Rank2(a), Rank3(a), Rank4(a), a.name>>
      /\ SortKey(b) = <<Rank1(b), Rank2(b), Rank3(b), Rank4(b), b.name>>
    BY KeyIs, Zenon
<1>4. Precedes(SortKey(a), SortKey(b)) <=>
         Before5(Rank1(a), Rank2(a), Rank3(a), Rank4(a), a.name,
                 Rank1(b), Rank2(b), Rank3(b), Rank4(b), b.name)
    BY <1>3, PrecedesIs, Zenon
<1>5. SortKey(a) = SortKey(b) <=>
        /\ Rank1(a) = Rank1(b) /\ Rank2(a) = Rank2(b) /\ Rank3(a) = Rank3(b)
        /\ Rank4(a) = Rank4(b) /\ a.name = b.name
    BY <1>3
<1>6. Comes(list, j, k) <=>
        \/ Precedes(SortKey(a), SortKey(b))
        \/ SortKey(a) = SortKey(b) /\ j < k
    BY <1>1, Zenon DEF Comes
<1>. QED
    BY <1>1, <1>4, <1>5, <1>6, Zenon DEF Earlier, Before6

LEMMA ComesIsOrder ==
    ASSUME NEW list \in Seq(Candidate), NEW j \in DOMAIN list, NEW k \in DOMAIN list,
           NEW l \in DOMAIN list
    PROVE  /\ ~Comes(list, j, j)
           /\ Comes(list, j, k) /\ Comes(list, k, l) => Comes(list, j, l)
           /\ j # k => Comes(list, j, k) \/ Comes(list, k, j)
<1>1. /\ list[j] \in Candidate /\ list[k] \in Candidate /\ list[l] \in Candidate
      /\ j \in Int /\ k \in Int /\ l \in Int
    OBVIOUS
<1>. QED
    BY <1>1, ComesIs, EarlierIsOrder, Zenon

LEMMA OneToOneIsOnto ==
    ASSUME NEW D, IsFiniteSet(D), NEW f \in [D -> D], \A j, k \in D : f[j] = f[k] => j = k
    PROVE  {f[k] : k \in D} = D
<1>1. f \in Injection(D, D)
    BY DEF Injection, IsInjective
<1>2. f \in Surjection(D, D)
    BY <1>1, FS_Injection
<1>3. \A d \in D : \E k \in D : f[k] = d
    BY <1>2 DEF Surjection
<1>. QED
    BY <1>3

OrderOn(R, n) ==
    /\ \A k \in 1 .. n : <<k, k>> \notin R
    /\ \A j, k, l \in 1 .. n : <<j, k>> \in R /\ <<k, l>> \in R => <<j, l>> \in R
    /\ \A j, k \in 1 .. n : j # k => <<j, k>> \in R \/ <<k, j>> \in R

PlacesOf(R, n) == [k \in 1 .. n |-> 1 + Cardinality({j \in 1 .. n : <<j, k>> \in R})]

\* Where the members of a totally ordered interval come: each has a place.
LEMMA PlacesAre ==
    ASSUME NEW n \in Nat, NEW R, OrderOn(R, n)
    PROVE  /\ \A j, k \in 1 .. n : <<j, k>> \in R => PlacesOf(R, n)[j] < PlacesOf(R, n)[k]
           /\ {PlacesOf(R, n)[k] : k \in 1 .. n} = 1 .. n
<1>. DEFINE place == PlacesOf(R, n)
            D == 1 .. n
            ahead == [k \in D |-> {j \in D : <<j, k>> \in R}]
<1>1. IsFiniteSet(D) /\ Cardinality(D) = n
    BY FS_Interval
<1>2. \A k \in D : ahead[k] \in SUBSET D /\ k \notin ahead[k]
    <2>1. ASSUME NEW k \in D PROVE ahead[k] \in SUBSET D /\ k \notin ahead[k]
        <3>1. ahead[k] = {j \in D : <<j, k>> \in R} /\ <<k, k>> \notin R
            BY DEF OrderOn
        <3>. HIDE DEF ahead, D
        <3>. QED
            BY <3>1
    <2>. HIDE DEF ahead, D
    <2>. QED
        BY <2>1
<1>3. \A k \in D : place[k] = 1 + Cardinality(ahead[k])
    BY DEF PlacesOf
<1>4. \A j, k \in D : <<j, k>> \in R => ahead[j] \in SUBSET ahead[k] /\ ahead[j] # ahead[k]
    <2>1. ASSUME NEW j \in D, NEW k \in D, <<j, k>> \in R
          PROVE  ahead[j] \subseteq ahead[k] /\ j \in ahead[k] /\ j \notin ahead[j]
        BY <2>1 DEF OrderOn
    <2>. HIDE DEF D, ahead
    <2>. QED
        BY <2>1
<1>. HIDE DEF D, ahead, place
<1>6. ASSUME NEW k \in D
      PROVE  /\ IsFiniteSet(ahead[k]) /\ Cardinality(ahead[k]) \in Nat
             /\ Cardinality(ahead[k]) < n
    <2>1. IsFiniteSet(ahead[k]) /\ Cardinality(ahead[k]) <= n
        BY <1>1, <1>2, FS_Subset
    <2>2. Cardinality(ahead[k]) \in Nat
        BY <2>1, FS_CardinalityType
    <2>3. Cardinality(ahead[k]) # n
        BY <1>1, <1>2, FS_Subset
    <2>. QED
        BY <2>1, <2>2, <2>3
<1>7. ASSUME NEW j \in D, NEW k \in D, <<j, k>> \in R PROVE place[j] < place[k]
    <2>1. PICK p \in Nat, q \in Nat : p = Cardinality(ahead[j]) /\ q = Cardinality(ahead[k])
        BY <1>6
    <2>2. IsFiniteSet(ahead[k]) /\ ahead[j] \in SUBSET ahead[k] /\ ahead[j] # ahead[k]
        BY <1>4, <1>6, <1>7
    <2>3. p <= q /\ p # q
        BY <2>1, <2>2, FS_Subset
    <2>4. place[j] = 1 + p /\ place[k] = 1 + q
        BY <1>3, <2>1
    <2>. QED
        BY <2>3, <2>4
<1>8. \A k \in D : place[k] \in D
    <2>1. ASSUME NEW k \in D PROVE place[k] \in 1 .. n
        <3>1. PICK p \in Nat : p = Cardinality(ahead[k]) /\ p < n
            BY <1>6
        <3>2. place[k] = 1 + p
            BY <1>3, <3>1
        <3>. QED
            BY <3>1, <3>2
    <2>. QED
        BY <2>1 DEF D
<1>9. \A j, k \in D : place[j] = place[k] => j = k
    <2>1. ASSUME NEW j \in D, NEW k \in D, place[j] = place[k], j # k PROVE FALSE
        <3>1. place[j] \in Int
            BY <1>8 DEF D
        <3>2. <<j, k>> \in R \/ <<k, j>> \in R
            BY <2>1 DEF D, OrderOn
        <3>3. place[j] < place[k] \/ place[k] < place[j]
            BY <1>7, <3>2
        <3>. QED
            BY <2>1, <3>1, <3>3
    <2>. QED
        BY <2>1
<1>10. {place[k] : k \in D} = D
    <2>1. PICK f : f = place
        OBVIOUS
    <2>2. f \in [D -> D]
        BY <1>8, <2>1 DEF D, PlacesOf, place
    <2>3. \A j, k \in D : f[j] = f[k] => j = k
        BY <1>9, <2>1
    <2>4. {f[k] : k \in D} = D
        BY <1>1, <2>2, <2>3, OneToOneIsOnto
    <2>. QED
        BY <2>1, <2>4, Zenon
<1>. QED
    BY <1>7, <1>10 DEF D, place

LEMMA SortedPlaces ==
    ASSUME NEW list \in Seq(Candidate)
    PROVE  /\ {SortedPlace(list, k) : k \in DOMAIN list} = DOMAIN list
           /\ \A j, k \in DOMAIN list :
                 Comes(list, j, k) => SortedPlace(list, j) < SortedPlace(list, k)
<1>1. PICK n \in Nat : n = Len(list) /\ DOMAIN list = 1 .. n
    OBVIOUS
<1>. DEFINE R == {p \in (1 .. n) \X (1 .. n) : Comes(list, p[1], p[2])}
<1>2. \A j, k \in 1 .. n : <<j, k>> \in R <=> Comes(list, j, k)
    OBVIOUS
<1>3. ASSUME NEW k \in 1 .. n
      PROVE  {j \in 1 .. n : <<j, k>> \in R} = {j \in DOMAIN list : Comes(list, j, k)}
    BY <1>1, <1>2
<1>4. \A k \in 1 .. n : PlacesOf(R, n)[k] = SortedPlace(list, k)
    BY <1>3, Zenon DEF SortedPlace, Comes, PlacesOf
<1>. HIDE DEF R
<1>5. OrderOn(R, n)
    <2>1. ASSUME NEW k \in 1 .. n PROVE <<k, k>> \notin R
        BY <1>1, <1>2, ComesIsOrder, Zenon
    <2>2. ASSUME NEW j \in 1 .. n, NEW k \in 1 .. n, NEW l \in 1 .. n
          PROVE  /\ j \in DOMAIN list /\ k \in DOMAIN list /\ l \in DOMAIN list
                 /\ <<j, k>> \in R <=> Comes(list, j, k)
                 /\ <<k, l>> \in R <=> Comes(list, k, l)
                 /\ <<j, l>> \in R <=> Comes(list, j, l)
        BY <1>1, <1>2
    <2>3. ASSUME NEW j \in 1 .. n, NEW k \in 1 .. n, NEW l \in 1 .. n,
                 <<j, k>> \in R, <<k, l>> \in R
          PROVE  <<j, l>> \in R
        BY <2>2, <2>3, ComesIsOrder
    <2>4. ASSUME NEW j \in 1 .. n, NEW k \in 1 .. n, j # k
          PROVE  <<j, k>> \in R \/ <<k, j>> \in R
        <3>1. j \in DOMAIN list /\ k \in DOMAIN list
            BY <1>1
        <3>2. Comes(list, j, k) \/ Comes(list, k, j)
            BY <2>4, <3>1, ComesIsOrder
        <3>. QED
            BY <1>2, <3>2
    <2>. QED
        BY <2>1, <2>3, <2>4 DEF OrderOn
<1>6. n \in Nat
    BY <1>1
<1>11. /\ \A j, k \in 1 .. n : <<j, k>> \in R => PlacesOf(R, n)[j] < PlacesOf(R, n)[k]
       /\ {PlacesOf(R, n)[k] : k \in 1 .. n} = 1 .. n
    BY <1>5, <1>6, PlacesAre, Zenon
<1>8. {SortedPlace(list, k) : k \in 1 .. n} = {PlacesOf(R, n)[k] : k \in 1 .. n}
    BY <1>4
<1>12. {SortedPlace(list, k) : k \in DOMAIN list} = DOMAIN list
    BY <1>1, <1>8, <1>11, Zenon
<1>13. ASSUME NEW j \in DOMAIN list, NEW k \in DOMAIN list, Comes(list, j, k)
       PROVE  SortedPlace(list, j) < SortedPlace(list, k)
    <2>1. <<j, k>> \in R /\ j \in 1 .. n /\ k \in 1 .. n
        BY <1>1, <1>2, <1>13, Zenon
    <2>. QED
        BY <1>4, <1>11, <2>1
<1>. QED
    BY <1>12, <1>13, Zenon

(* sort_for_dispatch: every candidate gets a place of its own, nobody      *)
(* passes an issue of a lower priority number by being older, and which    *)
(* number outside 1..4 a priority has changes no place: for lists of every *)
(* length with whatever priorities, times and names.                       *)
THEOREM OrdersAreAlwaysFair == \A list \in Seq(Candidate) : OrderIsFair(list)
<1>. SUFFICES ASSUME NEW list \in Seq(Candidate) PROVE OrderIsFair(list)
    OBVIOUS
<1>1. ASSUME NEW j \in DOMAIN list, NEW k \in DOMAIN list,
             list[j].priority \in 1..4, list[k].priority \notin 1..(list[j].priority)
      PROVE  SortedPlace(list, j) < SortedPlace(list, k)
    <2>1. list[j] \in Candidate /\ list[k] \in Candidate
        OBVIOUS
    <2>2. PICK a \in Candidate, b \in Candidate : a = list[j] /\ b = list[k]
        BY <2>1
    <2>3. a.priority \in 1..4 /\ b.priority \notin 1..(a.priority)
        BY <1>1, <2>2
    <2>4. Rank1(a) < Rank1(b) \/ (Rank1(a) = Rank1(b) /\ Rank2(a) < Rank2(b))
        <3>5. a.priority \in Int /\ b.priority \in Int
            BY DEF Candidate
        <3>1. a.priority \in Int /\ b.priority \in Int /\ 1 <= a.priority /\ a.priority <= 4
            BY <2>3, <3>5
        <3>2. Rank1(a) = 0 /\ Rank2(a) = a.priority
            BY <2>3 DEF Rank1, Rank2
        <3>3. CASE b.priority \in 1..4
            <4>1. Rank1(b) = 0 /\ Rank2(b) = b.priority
                BY <3>3 DEF Rank1, Rank2
            <4>2. a.priority < b.priority
                BY <2>3, <3>1, <3>3
            <4>. QED
                BY <3>2, <4>1, <4>2
        <3>4. CASE b.priority \notin 1..4
            BY <3>2, <3>4 DEF Rank1
        <3>. QED
            BY <3>3, <3>4
    <2>5. Earlier(a, j, b, k)
        BY <2>4 DEF Earlier, Before6, Before5
    <2>6. Comes(list, j, k)
        BY <2>2, <2>5, ComesIs, Zenon
    <2>. QED
        BY <2>6, SortedPlaces, Zenon
<1>2. ASSUME NEW j \in DOMAIN list, NEW k \in DOMAIN list
      PROVE  SortedPlace([list EXCEPT ![k].priority = IF @ \in 1..4 THEN @ ELSE NoValue], j)
                = SortedPlace(list, j)
    <2>. DEFINE p == list[k].priority
                kept == IF p \in 1..4 THEN p ELSE NoValue
                c == [list[k] EXCEPT !.priority = kept]
                other == [list EXCEPT ![k] = c]
    <2>1. SortKey(c) = SortKey(list[k])
        <3>1. list[k] \in Candidate
            OBVIOUS
        <3>2. c.priority = kept /\ c.created = list[k].created /\ c.name = list[k].name
            BY <3>1 DEF Candidate
        <3>3. PriorityRank(c.priority) = PriorityRank(list[k].priority)
            BY <3>2 DEF PriorityRank, NoValue
        <3>. HIDE DEF c
        <3>. QED
            BY <3>2, <3>3, Zenon DEF SortKey
    <2>2. DOMAIN other = DOMAIN list /\ \A l \in DOMAIN list : other[l] = IF l = k THEN c ELSE list[l]
        OBVIOUS
    <2>3. other = [list EXCEPT ![k].priority = IF @ \in 1..4 THEN @ ELSE NoValue]
        OBVIOUS
    <2>. HIDE DEF c, other
    <2>4. \A l \in DOMAIN list : SortKey(other[l]) = SortKey(list[l])
        BY <2>1, <2>2
    <2>5. SortedPlace(other, j) = SortedPlace(list, j)
        BY <2>2, <2>4, Zenon DEF SortedPlace
    <2>. QED
        BY <2>3, <2>5, Zenon
<1>. QED
    BY <1>1, <1>2, SortedPlaces, Zenon DEF OrderIsFair

-----------------------------------------------------------------------------
(* RecursiveQuery                                                          *)

LEMMA SumOfIs ==
    ASSUME NEW s \in Seq(Nat)
    PROVE  \E c : /\ SumOf(s) = c[Len(s)] /\ c[0] = 0
                  /\ \A k \in 0 .. Len(s) : c[k] \in Nat
                  /\ \A k \in 1 .. Len(s) : c[k] = c[k - 1] + s[k]
<1>. DEFINE c == CHOOSE t : SumsTo(t, s, Len(s))
<1>1. SumOf(s) = c[Len(s)]
    BY Zenon DEF SumOf, SumsTo
<1>2. PICK m \in Nat : m = Len(s)
    OBVIOUS
<1>3. s \in [1 .. m -> Nat]
    BY <1>2
<1>. HIDE DEF c
<1>4. /\ c[0] = 0
      /\ \A k \in 0 .. m : c[k] \in Nat
      /\ \A k \in 1 .. m : c[k] = c[k - 1] + s[k]
    <2>1. PICK d : d = c
        OBVIOUS
    <2>2. SumsTo(d, s, m)
        <3>1. m \in 0 .. m
            OBVIOUS
        <3>2. \E t : SumsTo(t, s, Len(s))
            BY <1>2, <1>3, <3>1, SumsExist
        <3>. QED
            BY <1>2, <2>1, <3>2, Zenon DEF c
    <2>3. /\ d[0] = 0
          /\ \A k \in 0 .. m : d[k] \in Nat
          /\ \A k \in 1 .. m : d[k] = d[k - 1] + s[k]
        BY <1>3, <2>2, SumsAre
    <2>. QED
        BY <2>1, <2>3, Zenon
<1>. QED
    BY <1>1, <1>2, <1>4

LEMMA SumOfEmpty == SumOf(<<>>) = 0
<1>1. <<>> \in Seq(Nat) /\ Len(<<>>) = 0
    OBVIOUS
<1>. QED
    BY <1>1, SumOfIs

LEMMA SumOfTail ==
    ASSUME NEW s \in Seq(Nat), s # <<>>
    PROVE  /\ SumOf(s) \in Nat /\ SumOf(Tail(s)) \in Nat
           /\ SumOf(s) = Head(s) + SumOf(Tail(s))
<1>1. /\ Len(s) \in Nat \ {0} /\ Tail(s) \in Seq(Nat) /\ Len(Tail(s)) = Len(s) - 1
      /\ Head(s) = s[1] /\ Head(s) \in Nat
      /\ \A k \in 1 .. Len(Tail(s)) : Tail(s)[k] = s[k + 1]
    OBVIOUS
<1>2. PICK m \in Nat : m = Len(s) - 1
    <2>1. Len(s) \in Nat /\ Len(s) # 0
        OBVIOUS
    <2>. QED
        BY <2>1
<1>3. PICK a : /\ SumOf(s) = a[m + 1] /\ a[0] = 0
               /\ \A k \in 0 .. m + 1 : a[k] \in Nat
               /\ \A k \in 1 .. m + 1 : a[k] = a[k - 1] + s[k]
    <2>1. Len(s) = m + 1
        BY <1>1, <1>2
    <2>2. \E b : /\ SumOf(s) = b[Len(s)] /\ b[0] = 0
                 /\ \A k \in 0 .. Len(s) : b[k] \in Nat
                 /\ \A k \in 1 .. Len(s) : b[k] = b[k - 1] + s[k]
        BY SumOfIs, Zenon
    <2>. QED
        BY <2>1, <2>2, Zenon
<1>4. PICK c : /\ SumOf(Tail(s)) = c[m] /\ c[0] = 0
               /\ \A k \in 0 .. m : c[k] \in Nat
               /\ \A k \in 1 .. m : c[k] = c[k - 1] + Tail(s)[k]
    <2>1. PICK t \in Seq(Nat) : t = Tail(s)
        BY <1>1
    <2>2. Len(t) = m
        BY <1>1, <1>2, <2>1
    <2>3. \E c : /\ SumOf(t) = c[m] /\ c[0] = 0
                 /\ \A k \in 0 .. m : c[k] \in Nat
                 /\ \A k \in 1 .. m : c[k] = c[k - 1] + t[k]
        BY <2>2, SumOfIs
    <2>. QED
        BY <2>1, <2>3, Zenon
<1>8. \A i \in 1 .. m + 1 : s[i] \in Nat
    BY <1>1, <1>2
<1>. DEFINE S == {k \in Nat : k <= m => a[k + 1] = s[1] + c[k]}
<1>5. 0 \in S
    BY <1>1, <1>3, <1>4
<1>6. ASSUME NEW k \in Nat, k \in S PROVE k + 1 \in S
    <2>. SUFFICES ASSUME k + 1 <= m PROVE a[k + 2] = s[1] + c[k + 1]
        OBVIOUS
    <2>1. a[k + 1] = s[1] + c[k]
        BY <1>6
    <2>2. a[k + 2] = a[k + 1] + s[k + 2]
        BY <1>3
    <2>3. c[k + 1] = c[k] + s[k + 2]
        BY <1>1, <1>2, <1>4
    <2>4. c[k] \in Nat /\ s[k + 2] \in Nat /\ s[1] \in Nat
        <3>1. k + 2 \in 1 .. m + 1 /\ 1 \in 1 .. m + 1 /\ k \in 0 .. m
            OBVIOUS
        <3>. QED
            BY <1>4, <1>8, <3>1
    <2>5. \A x, y, z \in Nat : (x + y) + z = x + (y + z)
        OBVIOUS
    <2>. HIDE DEF S
    <2>. QED
        BY <2>1, <2>2, <2>3, <2>4, <2>5
<1>. HIDE DEF S
<1>7. m \in S
    BY <1>5, <1>6, SetInduction
<1>. QED
    BY <1>1, <1>3, <1>4, <1>7 DEF S

LEMMA CutsAre ==
    ASSUME NEW len \in Nat, NEW max \in Nat, NEW s \in Cuts(len, max)
    PROVE  /\ s \in Seq(Nat) /\ SumOf(s) = len
           /\ \A i \in 1 .. Len(s) : s[i] <= max
<1>1. PICK n : s \in [1 .. n -> 1 .. max] /\ n \in 1 .. CeilDiv(2 * len, max)
    BY DEF Cuts
<1>2. n \in Nat
    BY <1>1
<1>3. s \in Seq(1 .. max)
    BY <1>1, <1>2, SeqDef
<1>4. \A i \in 1 .. Len(s) : s[i] \in 1 .. max
    BY <1>3
<1>5. s \in Seq(Nat)
    BY <1>3
<1>. QED
    BY <1>4, <1>5 DEF Cuts

LEMMA Sizes ==
    /\ MaxChunkChars \in Nat \ {0}
    /\ \A len \in Nat : EstimateTokens(len) \in Nat /\ LevelChars(len) \in Nat
<1>1. MaxChunkChars \in Nat \ {0}
    BY BudgetAssumption DEF MaxChunkChars
<1>2. ASSUME NEW a \in Nat, NEW b \in Nat \ {0} PROVE CeilDiv(a, b) \in Nat
    BY DEF CeilDiv
<1>. QED
    BY <1>1, <1>2, BudgetAssumption DEF EstimateTokens, LevelChars

QueryFrame == [depth : Nat, todo : Seq(Nat), body : Nat, round : Nat, outs : Nat]

(* A frame that reduces what its children answered has none left to solve. *)
Unsolved(frame) == IF frame.round = 0 THEN SumOf(frame.todo) ELSE 0
ToSolve == IF control.op = "solve" THEN control.len ELSE 0

(* left holds what the frames have left to solve, summed over the stack.   *)
SumsOver(left, frames) ==
    /\ left \in [0 .. Len(frames) -> Nat] /\ left[0] = 0
    /\ \A k \in 1 .. Len(frames) : left[k] = left[k - 1] + Unsolved(frames[k])

(* The payload is what the sub-model was given, or is given next, and what *)
(* is left.                                                                *)
Given == seen + ToSolve
LeftToSolve(left) == SumsOver(left, stack) /\ Given + left[Len(stack)] = payload

Reducing == control.op \in {"reduce", "piece"}

(* Only the top frame reduces, and its pieces are no wider than a leaf.    *)
OneReduces ==
    /\ control.op = "next" \/ Reducing => stack # <<>>
    /\ Reducing => Top.round # 0
    /\ \A k \in 1 .. Len(stack) : stack[k].round # 0 => k = Len(stack) /\ Reducing
    /\ control.op = "piece" => \A i \in 1 .. Len(Top.todo) : Top.todo[i] <= MaxChunkChars

(* The answer that leaves the last frame was reduced, unless it is that to *)
(* the whole payload.                                                      *)
LastAnswerFits ==
    stack = <<>> =>
        /\ control.op = "solve" => calls = 0
        /\ control.op \in {"return", "done"} /\ stops = {} => calls <= 1 \/ Fits(control.len)

WithinBudget == calls <= MaxCalls /\ tokens <= MaxTotalTokens /\ widest <= MaxChunkChars

QueryInv ==
    /\ QueryTypes /\ stack \in Seq(QueryFrame)
    /\ WithinBudget
    /\ OneReduces
    /\ LastAnswerFits
    /\ control.op = "done" => stack = <<>>
    /\ control.op = "raised" => stops # {}
    /\ stops = {} => \E left : LeftToSolve(left)

LEMMA TopIs ==
    ASSUME stack \in Seq(QueryFrame), stack # <<>>
    PROVE  /\ Len(stack) \in Nat \ {0} /\ Top = stack[Len(stack)] /\ Top \in QueryFrame
           /\ Top.todo \in Seq(Nat) /\ Top.depth \in Nat /\ Top.body \in Nat
           /\ Top.round \in Nat /\ Top.outs \in Nat
<1>1. Len(stack) \in Nat \ {0} /\ Top = stack[Len(stack)]
    BY DEF Top
<1>2. Top \in QueryFrame
    BY <1>1
<1>. QED
    BY <1>1, <1>2 DEF QueryFrame

LEMMA ReplaceIs ==
    ASSUME stack \in Seq(QueryFrame), stack # <<>>, NEW f \in QueryFrame, stack' = Replace(f)
    PROVE  /\ stack' \in Seq(QueryFrame) /\ Len(stack') = Len(stack) /\ stack' # <<>>
           /\ stack'[Len(stack)] = f /\ Top' = f
           /\ \A k \in 1 .. Len(stack) : k # Len(stack) => stack'[k] = stack[k]
<1>1. Len(stack) \in Nat \ {0}
    OBVIOUS
<1>2. /\ stack' \in Seq(QueryFrame) /\ Len(stack') = Len(stack)
      /\ \A k \in 1 .. Len(stack) : stack'[k] = IF k = Len(stack) THEN f ELSE stack[k]
    BY DEF Replace
<1>. QED
    BY <1>1, <1>2 DEF Top

LEMMA PopIs ==
    ASSUME stack \in Seq(QueryFrame), stack # <<>>, stack' = PopFrame
    PROVE  /\ stack' \in Seq(QueryFrame) /\ Len(stack') = Len(stack) - 1
           /\ \A k \in 1 .. Len(stack') : stack'[k] = stack[k]
<1>1. Len(stack) \in Nat \ {0}
    OBVIOUS
<1>2. PICK m \in Nat : m = Len(stack) - 1
    BY <1>1
<1>3. stack' = SubSeq(stack, 1, m)
    BY <1>2 DEF PopFrame
<1>4. /\ SubSeq(stack, 1, m) \in Seq(QueryFrame) /\ Len(SubSeq(stack, 1, m)) = m
      /\ \A k \in 1 .. m : SubSeq(stack, 1, m)[k] = stack[k]
    <2>1. 1 \in Int /\ m \in Int /\ \A k \in 1 .. m : k \in 1 .. Len(stack)
        BY <1>2
    <2>. QED
        BY <1>2, <2>1, SubSeqProperties
<1>. QED
    BY <1>2, <1>3, <1>4

LEMMA UnsolvedIs ==
    ASSUME NEW f \in QueryFrame
    PROVE  /\ Unsolved(f) \in Nat
           /\ f.todo = <<>> \/ f.round # 0 => Unsolved(f) = 0
           /\ f.round = 0 => Unsolved(f) = SumOf(f.todo)
<1>1. f.todo \in Seq(Nat)
    BY DEF QueryFrame
<1>2. SumOf(f.todo) \in Nat
    BY <1>1, SumOfEmpty, SumOfTail
<1>. QED
    BY <1>2, SumOfEmpty DEF Unsolved

(* What a step notes, and where it goes unless it is to raise.             *)
LEMMA NoteIs ==
    ASSUME QueryTypes, NEW reasons, NEW op \in Ops, NEW len \in Nat, NoteAnd(reasons, op, len)
    PROVE  /\ stops' = stops \cup reasons
           /\ control' \in [op : Ops, len : Nat]
           /\ \/ control'.op = op /\ control'.len = len
              \/ control'.op = "raised" /\ reasons # {}
<1>1. CASE raising /\ reasons # {}
    BY <1>1 DEF NoteAnd, Do, Ops
<1>2. CASE ~(raising /\ reasons # {})
    BY <1>2 DEF NoteAnd, Do
<1>. QED
    BY <1>1, <1>2

LEMMA DoIs ==
    ASSUME NEW op \in Ops, NEW len \in Nat, Do(op, len)
    PROVE  control' \in [op : Ops, len : Nat] /\ control'.op = op /\ control'.len = len
BY DEF Do

Reasons == {"max_calls", "max_total_tokens", "max_depth_truncated",
            "reduce_not_converging", "reduce_rounds_exhausted"}

LEMMA BlockedIs ==
    ASSUME QueryTypes, NEW n \in Nat
    PROVE  /\ BlockedBy(n) \subseteq Reasons
           /\ BlockedBy(n) = {} => calls < MaxCalls /\ tokens + n <= MaxTotalTokens
BY BudgetAssumption DEF BlockedBy, Reasons, QueryTypes

LEMMA AskIs ==
    ASSUME QueryTypes, WithinBudget, NEW len \in Nat, len <= MaxChunkChars,
           BlockedBy(EstimateTokens(len)) = {}, Ask(len)
    PROVE  /\ calls' \in Nat /\ tokens' \in Nat /\ widest' \in Nat
           /\ calls' = calls + 1
           /\ WithinBudget'
<1>1. EstimateTokens(len) \in Nat
    BY Sizes
<1>2. calls < MaxCalls /\ tokens + EstimateTokens(len) <= MaxTotalTokens
    BY <1>1, BlockedIs
<1>3. widest' \in {len, widest}
    BY DEF Ask
<1>. QED
    BY <1>1, <1>2, <1>3, BudgetAssumption DEF Ask, WithinBudget, QueryTypes

(* The first m frames, and the sums over them.                             *)
SumsUpTo(left, frames, m) ==
    /\ left[0] = 0 /\ \A k \in 0 .. m : left[k] \in Nat
    /\ \A k \in 1 .. m : left[k] = left[k - 1] + Unsolved(frames[k])

SameUpTo(after, before, m) == \A k \in 1 .. m : after[k] = before[k]

(* Every frame but the last stays, and the last accounts for the change.   *)
LEMMA SumsOfTop ==
    ASSUME NEW m \in Nat, NEW before, NEW after, Len(after) = m + 1,
           SameUpTo(after, before, m),
           NEW left, SumsUpTo(left, before, m),
           NEW v \in Nat, v = Unsolved(after[m + 1])
    PROVE  \E l : SumsOver(l, after) /\ l[m + 1] = left[m] + v
<1>0. /\ left[0] = 0 /\ \A k \in 0 .. m : left[k] \in Nat
      /\ \A k \in 1 .. m : left[k] = left[k - 1] + Unsolved(before[k])
      /\ \A k \in 1 .. m : after[k] = before[k]
    BY DEF SumsUpTo, SameUpTo
<1>1. PICK l \in [0 .. m + 1 -> Nat] : /\ l[m + 1] = left[m] + v
                                       /\ \A k \in 0 .. m : l[k] = left[k]
    <2>1. PICK u \in Nat : u = left[m] + v
        BY <1>0
    <2>2. PICK l : l = [k \in 0 .. m + 1 |-> IF k = m + 1 THEN u ELSE left[k]]
        OBVIOUS
    <2>3. /\ m + 1 \in 0 .. m + 1
          /\ \A k \in 0 .. m : k \in 0 .. m + 1 /\ k # m + 1
          /\ \A k \in 0 .. m + 1 : k # m + 1 => k \in 0 .. m
        OBVIOUS
    <2>4. l \in [0 .. m + 1 -> Nat] /\ l[m + 1] = left[m] + v /\ \A k \in 0 .. m : l[k] = left[k]
        BY <1>0, <2>1, <2>2, <2>3
    <2>. QED
        BY <2>4
<1>2. ASSUME NEW k \in 1 .. m + 1 PROVE l[k] = l[k - 1] + Unsolved(after[k])
    <2>1. CASE k = m + 1
        <3>1. k - 1 = m /\ m \in 0 .. m
            BY <2>1
        <3>. QED
            BY <1>1, <2>1, <3>1
    <2>2. CASE k # m + 1
        <3>1. k \in 0 .. m /\ k - 1 \in 0 .. m /\ k \in 1 .. m
            BY <2>2
        <3>2. l[k] = left[k] /\ l[k - 1] = left[k - 1] /\ after[k] = before[k]
            BY <1>0, <1>1, <3>1
        <3>3. left[k] = left[k - 1] + Unsolved(before[k])
            BY <1>0, <3>1
        <3>. QED
            BY <3>2, <3>3
    <2>. QED
        BY <2>1, <2>2
<1>3. l[0] = 0
    BY <1>0, <1>1
<1>. QED
    BY <1>1, <1>2, <1>3 DEF SumsOver

LEMMA SumsAreKept ==
    ASSUME NEW before \in Seq(QueryFrame), NEW after \in Seq(QueryFrame),
           before # <<>>, Len(after) = Len(before),
           \A k \in 1 .. Len(before) : k # Len(before) => after[k] = before[k],
           NEW left, SumsOver(left, before)
    PROVE  \E l : /\ SumsOver(l, after)
                  /\ left[Len(before)] \in Nat /\ l[Len(before)] \in Nat
                  /\ l[Len(before)] + Unsolved(before[Len(before)])
                       = left[Len(before)] + Unsolved(after[Len(before)])
<1>1. PICK m \in Nat : Len(before) = m + 1
    <2>1. Len(before) \in Nat /\ Len(before) # 0
        OBVIOUS
    <2>2. Len(before) - 1 \in Nat /\ Len(before) = (Len(before) - 1) + 1
        BY <2>1
    <2>. QED
        BY <2>2
<1>2. /\ \A k \in 1 .. m : after[k] = before[k]
      /\ left[0] = 0 /\ \A k \in 0 .. m + 1 : left[k] \in Nat
      /\ \A k \in 1 .. m + 1 : left[k] = left[k - 1] + Unsolved(before[k])
    <2>1. \A k \in 1 .. m : k \in 1 .. m + 1 /\ k # m + 1
        BY <1>1
    <2>. QED
        BY <1>1, <2>1 DEF SumsOver
<1>3. before[m + 1] \in QueryFrame /\ after[m + 1] \in QueryFrame
    BY <1>1
<1>4. PICK u \in Nat : u = Unsolved(before[m + 1])
    BY <1>3, UnsolvedIs
<1>5. PICK v \in Nat : v = Unsolved(after[m + 1])
    BY <1>3, UnsolvedIs
<1>6. left[m + 1] = left[m] + u /\ left[m] \in Nat /\ left[m + 1] \in Nat
    <2>1. m + 1 \in 1 .. m + 1 /\ m \in 0 .. m + 1 /\ (m + 1) - 1 = m /\ m + 1 \in 0 .. m + 1
        OBVIOUS
    <2>. QED
        BY <1>2, <1>4, <2>1
<1>7. PICK l : SumsOver(l, after) /\ l[m + 1] = left[m] + v
    <2>1. SumsUpTo(left, before, m) /\ SameUpTo(after, before, m)
        BY <1>1, <1>2 DEF SumsUpTo, SameUpTo
    <2>. QED
        BY <1>1, <1>5, <2>1, SumsOfTop
<1>8. l[m + 1] \in Nat /\ l[m + 1] + u = left[m + 1] + v
    <2>1. PICK x \in Nat : x = left[m]
        BY <1>6
    <2>2. l[m + 1] = x + v /\ left[m + 1] = x + u
        BY <1>6, <1>7, <2>1
    <2>3. (x + v) + u = (x + u) + v /\ x + v \in Nat
        OBVIOUS
    <2>. QED
        BY <2>2, <2>3
<1>. QED
    BY <1>1, <1>4, <1>5, <1>6, <1>7, <1>8

LEMMA SumsArePushed ==
    ASSUME NEW before \in Seq(QueryFrame), NEW f \in QueryFrame,
           NEW left, SumsOver(left, before)
    PROVE  \E l : /\ SumsOver(l, Append(before, f))
                  /\ left[Len(before)] \in Nat
                  /\ l[Len(before) + 1] = left[Len(before)] + Unsolved(f)
<1>1. PICK m \in Nat : Len(before) = m
    OBVIOUS
<1>2. PICK after : after = Append(before, f)
    OBVIOUS
<1>3. /\ Len(after) = m + 1 /\ after[m + 1] = f
      /\ \A k \in 1 .. m : after[k] = before[k]
    BY <1>1, <1>2
<1>4. PICK v \in Nat : v = Unsolved(f)
    BY UnsolvedIs
<1>5. /\ \A k \in 0 .. m : left[k] \in Nat
      /\ left[0] = 0 /\ left[m] \in Nat
      /\ \A k \in 1 .. m : left[k] = left[k - 1] + Unsolved(before[k])
    BY <1>1 DEF SumsOver
<1>6. PICK l : SumsOver(l, after) /\ l[m + 1] = left[m] + v
    <2>1. SumsUpTo(left, before, m) /\ SameUpTo(after, before, m)
        BY <1>3, <1>5 DEF SumsUpTo, SameUpTo
    <2>. QED
        BY <1>1, <1>3, <1>4, <2>1, SumsOfTop
<1>. QED
    BY <1>1, <1>2, <1>4, <1>5, <1>6

LEMMA SumsArePopped ==
    ASSUME NEW before \in Seq(QueryFrame), NEW after \in Seq(QueryFrame), before # <<>>,
           Len(after) = Len(before) - 1, \A k \in 1 .. Len(after) : after[k] = before[k],
           Unsolved(before[Len(before)]) = 0, NEW left, SumsOver(left, before)
    PROVE  \E l : SumsOver(l, after) /\ l[Len(after)] = left[Len(before)]
<1>1. PICK m \in Nat : Len(before) = m + 1
    <2>1. Len(before) \in Nat /\ Len(before) # 0
        OBVIOUS
    <2>2. Len(before) - 1 \in Nat /\ Len(before) = (Len(before) - 1) + 1
        BY <2>1
    <2>. QED
        BY <2>2
<1>2. Len(after) = m
    BY <1>1
<1>3. /\ left[0] = 0 /\ \A k \in 0 .. m + 1 : left[k] \in Nat
      /\ \A k \in 1 .. m + 1 : left[k] = left[k - 1] + Unsolved(before[k])
    BY <1>1 DEF SumsOver
<1>4. left[m + 1] = left[m]
    <2>1. m + 1 \in 1 .. m + 1 /\ m \in 0 .. m + 1 /\ (m + 1) - 1 = m
        OBVIOUS
    <2>. QED
        BY <1>1, <1>3, <2>1
<1>5. PICK l : l = [k \in 0 .. m |-> left[k]]
    OBVIOUS
<1>6. l \in [0 .. m -> Nat] /\ \A k \in 0 .. m : l[k] = left[k]
    BY <1>3, <1>5
<1>7. ASSUME NEW k \in 1 .. m PROVE l[k] = l[k - 1] + Unsolved(after[k])
    <2>1. k \in 0 .. m /\ k - 1 \in 0 .. m /\ k \in 1 .. m + 1
        OBVIOUS
    <2>. QED
        BY <1>2, <1>3, <1>6, <2>1
<1>8. l[0] = 0 /\ l[m] = left[m]
    BY <1>3, <1>6
<1>. QED
    BY <1>1, <1>2, <1>4, <1>6, <1>7, <1>8 DEF SumsOver

-----------------------------------------------------------------------------

LEMMA GivenIs == ASSUME QueryTypes, QueryTypes' PROVE Given \in Nat /\ Given' \in Nat
<1>1. seen \in Nat /\ ToSolve \in Nat
    BY DEF ToSolve, QueryTypes
<1>2. seen' \in Nat /\ ToSolve' \in Nat
    BY DEF ToSolve, QueryTypes
<1>3. \A x, y \in Nat : x + y \in Nat
    OBVIOUS
<1>. QED
    BY <1>1, <1>2, <1>3 DEF Given

(* The stack stays, or its top frame changes by what is now solved.        *)
LEMMA TopMoves ==
    ASSUME QueryTypes, QueryTypes', payload' = payload,
           stack \in Seq(QueryFrame), stack' \in Seq(QueryFrame),
           stack # <<>>, Len(stack') = Len(stack),
           \A k \in 1 .. Len(stack) : k # Len(stack) => stack'[k] = stack[k],
           NEW left, LeftToSolve(left),
           Given' + Unsolved(Top') = Given + Unsolved(Top)
    PROVE  \E l : LeftToSolve(l)'
<1>1. PICK n : n = Len(stack)
    OBVIOUS
<1>2. PICK l : /\ SumsOver(l, stack') /\ left[n] \in Nat /\ l[n] \in Nat
               /\ l[n] + Unsolved(stack[n]) = left[n] + Unsolved(stack'[n])
    BY <1>1, SumsAreKept DEF LeftToSolve
<1>3. stack[n] = Top /\ stack'[n] = Top' /\ Top \in QueryFrame /\ Top' \in QueryFrame
    BY <1>1 DEF Top
<1>4. /\ Unsolved(Top) \in Nat /\ Unsolved(Top') \in Nat
      /\ Given \in Nat /\ Given' \in Nat
    <2>1. Unsolved(Top) \in Nat /\ Unsolved(Top') \in Nat
        BY <1>3, UnsolvedIs
    <2>. QED
        BY <2>1, GivenIs
<1>5. Given' + l[n] = payload
    <2>1. PICK g \in Nat, h \in Nat, u \in Nat, v \in Nat, x \in Nat, y \in Nat :
             /\ g = Given /\ h = Given' /\ u = Unsolved(Top) /\ v = Unsolved(Top')
             /\ x = l[n] /\ y = left[n]
        BY <1>2, <1>4
    <2>2. x + u = y + v /\ h + v = g + u /\ g + y = payload
        BY <1>1, <1>2, <1>3, <2>1 DEF LeftToSolve
    <2>3. h + x = g + y
        BY <2>2
    <2>. QED
        BY <2>1, <2>2, <2>3
<1>6. LeftToSolve(l)'
    BY <1>1, <1>2, <1>5 DEF LeftToSolve, SumsOver, Unsolved
<1>. QED
    BY <1>6

(* A frame is pushed for what was to be solved, one with nothing left goes.*)
LEMMA StackGrows ==
    ASSUME QueryTypes, QueryTypes', payload' = payload, stack \in Seq(QueryFrame),
           NEW f \in QueryFrame, stack' = Append(stack, f),
           NEW left, LeftToSolve(left), Given' + Unsolved(f) = Given
    PROVE  \E l : LeftToSolve(l)'
<1>1. PICK l : /\ SumsOver(l, stack') /\ left[Len(stack)] \in Nat
               /\ l[Len(stack) + 1] = left[Len(stack)] + Unsolved(f)
    BY SumsArePushed DEF LeftToSolve
<1>2. Len(stack') = Len(stack) + 1
    OBVIOUS
<1>3. Unsolved(f) \in Nat /\ Given' \in Nat
    BY UnsolvedIs DEF Given, ToSolve, QueryTypes
<1>4. Given' + l[Len(stack')] = payload
    <2>1. Given + left[Len(stack)] = payload
        BY DEF LeftToSolve
    <2>2. ASSUME NEW g \in Nat, NEW h \in Nat, NEW x \in Nat, NEW y \in Nat,
                 g + y = payload, h + x = g
          PROVE  h + (y + x) = payload
        BY <2>2
    <2>. QED
        BY <1>1, <1>2, <1>3, <2>1, <2>2, GivenIs
<1>5. LeftToSolve(l)'
    BY <1>1, <1>4 DEF LeftToSolve, SumsOver, Unsolved
<1>. QED
    BY <1>5

LEMMA StackShrinks ==
    ASSUME payload' = payload, stack \in Seq(QueryFrame), stack # <<>>, stack' = PopFrame,
           Unsolved(Top) = 0, NEW left, LeftToSolve(left), Given' = Given
    PROVE  \E l : LeftToSolve(l)'
<1>1. /\ stack' \in Seq(QueryFrame) /\ Len(stack') = Len(stack) - 1
      /\ \A k \in 1 .. Len(stack') : stack'[k] = stack[k]
    BY PopIs
<1>2. PICK l : SumsOver(l, stack') /\ l[Len(stack')] = left[Len(stack)]
    <2>1. Unsolved(stack[Len(stack)]) = 0
        BY DEF Top
    <2>. QED
        BY <1>1, <2>1, SumsArePopped DEF LeftToSolve
<1>3. LeftToSolve(l)'
    BY <1>2 DEF LeftToSolve, SumsOver, Unsolved
<1>. QED
    BY <1>3

-----------------------------------------------------------------------------

LEMMA QueryInvInit == QueryInit => QueryInv
<1>. SUFFICES ASSUME QueryInit PROVE QueryInv
    OBVIOUS
<1>1. /\ payload \in 0 .. MaxText /\ payload \in Nat /\ raising \in BOOLEAN /\ stack = <<>>
      /\ control.len = payload /\ control.op = (IF payload = 0 THEN "done" ELSE "solve")
      /\ control \in [op : Ops, len : Nat]
      /\ calls = 0 /\ tokens = 0 /\ stops = {} /\ seen = 0 /\ widest = 0
    BY BudgetAssumption DEF QueryInit, Ops
<1>2. QueryTypes /\ stack \in Seq(QueryFrame)
    BY <1>1 DEF QueryTypes
<1>3. WithinBudget
    BY <1>1, Sizes, BudgetAssumption DEF WithinBudget
<1>4. OneReduces /\ LastAnswerFits
    BY <1>1 DEF OneReduces, Reducing, LastAnswerFits
<1>5. PICK z : z = [k \in 0 .. 0 |-> 0]
    OBVIOUS
<1>6. LeftToSolve(z)
    <2>1. Len(stack) = 0 /\ z[0] = 0 /\ z \in [0 .. 0 -> Nat]
        BY <1>1, <1>5
    <2>2. SumsOver(z, stack)
        BY <2>1 DEF SumsOver
    <2>3. Given = payload
        BY <1>1 DEF Given, ToSolve
    <2>. QED
        BY <1>1, <2>1, <2>2, <2>3 DEF LeftToSolve
<1>. QED
    BY <1>1, <1>2, <1>3, <1>4, <1>6 DEF QueryInv

(* leaf(): what it asks about, what it notes, and the three ways it ends.  *)
LEMMA LeafIs ==
    ASSUME QueryTypes, SolveLeaf
    PROVE  \E body \in Nat : \E cut \in SUBSET Reasons :
             /\ body <= MaxChunkChars /\ (cut = {} => body = control.len)
             /\ \/ /\ cut # {} /\ NoteAnd(cut, "raised", 0)
                   /\ NoCall /\ UNCHANGED seen
                \/ /\ BlockedBy(EstimateTokens(body)) # {}
                   /\ NoteAnd(cut \cup BlockedBy(EstimateTokens(body)), "return", 0)
                   /\ NoCall /\ UNCHANGED seen
                \/ /\ BlockedBy(EstimateTokens(body)) = {} /\ Ask(body) /\ seen' = seen + body
                   /\ \E answer \in 0 .. MaxAnswer : NoteAnd(cut, "return", answer)
<1>1. PICK body : body = IF control.len > MaxChunkChars THEN MaxChunkChars ELSE control.len
    OBVIOUS
<1>2. PICK cut : cut = IF body < control.len THEN {"max_depth_truncated"} ELSE {}
    OBVIOUS
<1>3. body \in Nat /\ body <= MaxChunkChars /\ (body < control.len \/ body = control.len)
    BY <1>1, Sizes DEF QueryTypes
<1>4. cut \in SUBSET Reasons /\ (cut = {} => body = control.len)
    BY <1>2, <1>3 DEF Reasons
<1>5. \/ /\ cut # {} /\ NoteAnd(cut, "raised", 0)
         /\ NoCall /\ UNCHANGED seen
      \/ /\ BlockedBy(EstimateTokens(body)) # {}
         /\ NoteAnd(cut \cup BlockedBy(EstimateTokens(body)), "return", 0)
         /\ NoCall /\ UNCHANGED seen
      \/ /\ BlockedBy(EstimateTokens(body)) = {} /\ Ask(body) /\ seen' = seen + body
         /\ \E answer \in 0 .. MaxAnswer : NoteAnd(cut, "return", answer)
    BY <1>1, <1>2, Zenon DEF SolveLeaf
<1>. QED
    BY <1>3, <1>4, <1>5

(* While nothing reduces no frame is past its children.                    *)
LEMMA NoneReduces ==
    ASSUME QueryInv, ~Reducing
    PROVE  \A k \in 1 .. Len(stack) : stack[k].round = 0
BY DEF QueryInv, OneReduces

LEMMA NoCallIs == ASSUME QueryTypes, WithinBudget, NoCall
    PROVE /\ WithinBudget' /\ calls' \in Nat /\ tokens' \in Nat /\ widest' \in Nat
          /\ calls' = calls
BY DEF NoCall, WithinBudget, QueryTypes

LEMMA LeafKeeps == ASSUME QueryInv, SolveLeaf PROVE QueryInv'
<1>1. /\ QueryTypes /\ stack \in Seq(QueryFrame) /\ WithinBudget /\ LastAnswerFits
      /\ stops \subseteq Reasons /\ seen \in Nat /\ control.len \in Nat
      /\ stops = {} => \E left : LeftToSolve(left)
    BY DEF QueryInv, QueryTypes, Reasons
<1>2. control.op = "solve" /\ UNCHANGED <<payload, raising, stack>>
    BY Zenon DEF SolveLeaf
<1>3. PICK body \in Nat, cut \in SUBSET Reasons :
             /\ body <= MaxChunkChars /\ (cut = {} => body = control.len)
             /\ \/ /\ cut # {} /\ NoteAnd(cut, "raised", 0)
                   /\ NoCall /\ UNCHANGED seen
                \/ /\ BlockedBy(EstimateTokens(body)) # {}
                   /\ NoteAnd(cut \cup BlockedBy(EstimateTokens(body)), "return", 0)
                   /\ NoCall /\ UNCHANGED seen
                \/ /\ BlockedBy(EstimateTokens(body)) = {} /\ Ask(body) /\ seen' = seen + body
                   /\ \E answer \in 0 .. MaxAnswer : NoteAnd(cut, "return", answer)
    BY <1>1, LeafIs
<1>4. /\ control' \in [op : Ops, len : Nat] /\ control'.op \in {"return", "raised"}
      /\ stops' \subseteq Reasons /\ WithinBudget'
      /\ calls' \in Nat /\ tokens' \in Nat /\ widest' \in Nat /\ seen' \in Nat
      /\ control'.op = "raised" => stops' # {}
      /\ stops' = {} => stops = {} /\ calls' = calls + 1 /\ seen' = seen + control.len
    <2>1. CASE cut # {} /\ NoteAnd(cut, "raised", 0) /\ NoCall /\ UNCHANGED seen
        BY <1>1, <1>3, <2>1, NoteIs, NoCallIs DEF Ops
    <2>2. CASE /\ BlockedBy(EstimateTokens(body)) # {}
               /\ NoteAnd(cut \cup BlockedBy(EstimateTokens(body)), "return", 0)
               /\ NoCall /\ UNCHANGED seen
        <3>1. BlockedBy(EstimateTokens(body)) \subseteq Reasons
            BY <1>1, Sizes, BlockedIs
        <3>2. PICK noted : /\ noted = cut \cup BlockedBy(EstimateTokens(body))
                           /\ noted # {} /\ noted \subseteq Reasons
            BY <2>2, <3>1
        <3>3. NoteAnd(noted, "return", 0)
            BY <2>2, <3>2
        <3>4. /\ stops' = stops \cup noted /\ control' \in [op : Ops, len : Nat]
              /\ control'.op \in {"return", "raised"}
            BY <1>1, <3>3, NoteIs DEF Ops
        <3>5. /\ calls' \in Nat /\ tokens' \in Nat /\ widest' \in Nat /\ seen' = seen /\ WithinBudget'
            BY <1>1, <2>2, NoCallIs
        <3>. QED
            BY <1>1, <3>2, <3>4, <3>5
    <2>3. CASE /\ BlockedBy(EstimateTokens(body)) = {} /\ Ask(body) /\ seen' = seen + body
               /\ \E answer \in 0 .. MaxAnswer : NoteAnd(cut, "return", answer)
        <3>1. PICK answer \in Nat : NoteAnd(cut, "return", answer)
            BY <2>3
        <3>2. /\ calls' \in Nat /\ tokens' \in Nat /\ widest' \in Nat /\ calls' = calls + 1 /\ WithinBudget'
            BY <1>1, <1>3, <2>3, AskIs
        <3>3. seen' \in Nat
            BY <1>1, <2>3
        <3>. QED
            BY <1>1, <1>3, <2>3, <3>1, <3>2, <3>3, NoteIs DEF Ops
    <2>. QED
        BY <1>3, <2>1, <2>2, <2>3
<1>5. QueryTypes' /\ stack' \in Seq(QueryFrame)
    BY <1>1, <1>2, <1>4 DEF QueryTypes, Reasons
<1>6. OneReduces'
    BY <1>2, <1>4, NoneReduces DEF OneReduces, Reducing
<1>7. LastAnswerFits'
    <2>1. stack = <<>> => calls = 0
        BY <1>1, <1>2 DEF LastAnswerFits
    <2>. QED
        BY <1>2, <1>4, <2>1 DEF LastAnswerFits
<1>8. stops' = {} => \E left : LeftToSolve(left)'
    <2>. SUFFICES ASSUME stops' = {} PROVE \E left : LeftToSolve(left)'
        OBVIOUS
    <2>1. PICK left : LeftToSolve(left)
        BY <1>1, <1>4
    <2>2. Given' = Given
        <3>1. Given = seen + control.len
            BY <1>2 DEF Given, ToSolve
        <3>2. Given' = seen' + 0
            BY <1>4 DEF Given, ToSolve
        <3>3. seen' = seen + control.len
            BY <1>4
        <3>4. (seen + control.len) + 0 = seen + control.len
            BY <1>1
        <3>. QED
            BY <3>1, <3>2, <3>3, <3>4, Zenon
    <2>3. LeftToSolve(left)'
        BY <1>2, <2>1, <2>2 DEF LeftToSolve, SumsOver, Unsolved
    <2>. QED
        BY <2>3
<1>. QED
    BY <1>4, <1>5, <1>6, <1>7, <1>8 DEF QueryInv

(* What every step but leaf() leaves, apart from the stack.                *)
StepTypes ==
    /\ UNCHANGED <<payload, raising, seen>>
    /\ control' \in [op : Ops, len : Nat] /\ stops' \subseteq Reasons
    /\ calls' \in Nat /\ tokens' \in Nat /\ widest' \in Nat /\ WithinBudget'
    /\ control'.op = "raised" => stops' # {}

LEMMA WithoutCall ==
    ASSUME QueryInv, NoCall, UNCHANGED <<payload, raising, seen>>,
           control' \in [op : Ops, len : Nat], stops' \subseteq Reasons,
           control'.op = "raised" => stops' # {}
    PROVE  StepTypes
BY NoCallIs DEF StepTypes, QueryInv

LEMMA TopChanges ==
    ASSUME QueryInv, StepTypes, stack # <<>>,
           NEW f \in QueryFrame, stack' = Replace(f),
           control'.op \in {"solve", "return", "next", "raised"} => f.round = 0,
           control'.op \in {"reduce", "piece"} => f.round # 0,
           control'.op # "done",
           control'.op = "piece" => \A i \in 1 .. Len(f.todo) : f.todo[i] <= MaxChunkChars,
           stops' = {} => stops = {} /\ Given' + Unsolved(f) = Given + Unsolved(Top)
    PROVE  QueryInv'
<1>1. /\ QueryTypes /\ stack \in Seq(QueryFrame)
      /\ stops = {} => \E left : LeftToSolve(left)
      /\ \A k \in 1 .. Len(stack) : stack[k].round # 0 => k = Len(stack)
    BY DEF QueryInv, OneReduces
<1>2. /\ stack' \in Seq(QueryFrame) /\ Len(stack') = Len(stack) /\ stack' # <<>>
      /\ stack'[Len(stack)] = f /\ Top' = f
      /\ \A k \in 1 .. Len(stack) : k # Len(stack) => stack'[k] = stack[k]
    BY <1>1, ReplaceIs
<1>3. QueryTypes'
    BY <1>1 DEF QueryTypes, StepTypes, Reasons
<1>4. control'.op \in Ops
    BY DEF StepTypes
<1>5. f.round # 0 <=> Reducing'
    BY <1>4 DEF Reducing, Ops
<1>6. OneReduces'
    <2>1. \A k \in 1 .. Len(stack') : stack'[k].round # 0 => k = Len(stack') /\ Reducing'
        BY <1>1, <1>2, <1>5
    <2>2. /\ Reducing' => Top'.round # 0
          /\ control'.op = "piece" => \A i \in 1 .. Len(Top'.todo) : Top'.todo[i] <= MaxChunkChars
        BY <1>2, <1>5
    <2>. QED
        BY <1>2, <2>1, <2>2 DEF OneReduces, Reducing
<1>7. LastAnswerFits'
    BY <1>2 DEF LastAnswerFits
<1>8. stops' = {} => \E left : LeftToSolve(left)'
    <2>. SUFFICES ASSUME stops' = {} PROVE \E left : LeftToSolve(left)'
        OBVIOUS
    <2>1. PICK left : LeftToSolve(left)
        BY <1>1
    <2>2. Given' + Unsolved(Top') = Given + Unsolved(Top)
        BY <1>2
    <2>3. payload' = payload
        BY DEF StepTypes
    <2>. QED
        BY <1>1, <1>2, <1>3, <2>1, <2>2, <2>3, TopMoves
<1>. QED
    BY <1>2, <1>3, <1>6, <1>7, <1>8 DEF QueryInv, StepTypes

LEMMA TopGoes ==
    ASSUME QueryInv, StepTypes, Reducing, stack' = PopFrame,
           control'.op \in {"return", "raised"},
           stops' = {} => stops = {} /\ Fits(control'.len)
    PROVE  QueryInv'
<1>1. /\ QueryTypes /\ stack \in Seq(QueryFrame) /\ stack # <<>> /\ Top.round # 0
      /\ stops = {} => \E left : LeftToSolve(left)
      /\ \A k \in 1 .. Len(stack) : stack[k].round # 0 => k = Len(stack)
    BY DEF QueryInv, OneReduces
<1>2. /\ stack' \in Seq(QueryFrame) /\ Len(stack') = Len(stack) - 1
      /\ \A k \in 1 .. Len(stack') : stack'[k] = stack[k]
    BY <1>1, PopIs
<1>3. QueryTypes'
    BY <1>1 DEF QueryTypes, StepTypes, Reasons
<1>4. \A k \in 1 .. Len(stack') : stack'[k].round = 0
    <2>1. Len(stack) \in Nat
        BY <1>1
    <2>2. \A k \in 1 .. (Len(stack) - 1) : k \in 1 .. Len(stack) /\ k # Len(stack)
        BY <2>1
    <2>. QED
        BY <1>1, <1>2, <2>2
<1>5. OneReduces'
    BY <1>4 DEF OneReduces, Reducing
<1>6. LastAnswerFits'
    BY DEF LastAnswerFits, Fits
<1>7. stops' = {} => \E left : LeftToSolve(left)'
    <2>. SUFFICES ASSUME stops' = {} PROVE \E left : LeftToSolve(left)'
        OBVIOUS
    <2>1. PICK left : LeftToSolve(left)
        BY <1>1
    <2>2. Unsolved(Top) = 0
        BY <1>1, TopIs, UnsolvedIs
    <2>3. Given' = Given /\ payload' = payload
        BY DEF Given, ToSolve, StepTypes, Reducing
    <2>. QED
        BY <1>1, <2>1, <2>2, <2>3, StackShrinks
<1>. QED
    BY <1>2, <1>3, <1>5, <1>6, <1>7 DEF QueryInv, StepTypes

-----------------------------------------------------------------------------

LEMMA SplitKeeps == ASSUME QueryInv, SolveSplit PROVE QueryInv'
<1>1. /\ QueryTypes /\ stack \in Seq(QueryFrame) /\ control.len \in Nat /\ stops \subseteq Reasons
      /\ stops = {} => \E left : LeftToSolve(left)
    BY DEF QueryInv, QueryTypes, Reasons
<1>2. /\ control.op = "solve" /\ Do("next", 0) /\ NoCall /\ UNCHANGED <<payload, raising, stops, seen>>
      /\ \E pieces \in Cuts(control.len, LevelChars(control.len)) :
           stack' = Append(stack, Frame(pieces, Depth))
    BY Zenon DEF SolveSplit
<1>3. PICK pieces \in Cuts(control.len, LevelChars(control.len)) :
         stack' = Append(stack, Frame(pieces, Depth))
    BY <1>2
<1>4. pieces \in Seq(Nat) /\ SumOf(pieces) = control.len
    BY <1>1, Sizes, CutsAre
<1>5. PICK f : f = Frame(pieces, Depth)
    OBVIOUS
<1>6. f \in QueryFrame /\ f.round = 0 /\ Unsolved(f) = control.len
    <2>1. Depth \in Nat
        BY <1>1 DEF Depth
    <2>. QED
        BY <1>4, <1>5, <2>1 DEF Frame, QueryFrame, Unsolved
<1>7. control' \in [op : Ops, len : Nat] /\ control'.op = "next"
    BY <1>2, DoIs DEF Ops
<1>8. StepTypes
    BY <1>1, <1>2, <1>7, WithoutCall
<1>9. QueryTypes'
    BY <1>1, <1>8 DEF QueryTypes, StepTypes, Reasons
<1>10. PICK n \in Nat : n = Len(stack)
    BY <1>1
<1>11. /\ stack' \in Seq(QueryFrame) /\ stack' # <<>> /\ Len(stack') = n + 1 /\ stack'[n + 1] = f
       /\ \A k \in 1 .. n : stack'[k] = stack[k]
    BY <1>1, <1>3, <1>5, <1>6, <1>10
<1>12. OneReduces'
    <2>1. \A k \in 1 .. n : stack[k].round = 0
        BY <1>2, <1>10, NoneReduces DEF Reducing
    <2>2. \A k \in 1 .. n + 1 : k \in 1 .. n \/ k = n + 1
        OBVIOUS
    <2>3. \A k \in 1 .. n + 1 : stack'[k].round = 0
        BY <1>6, <1>11, <2>1, <2>2
    <2>. QED
        BY <1>7, <1>11, <2>3 DEF OneReduces, Reducing
<1>13. LastAnswerFits'
    BY <1>11 DEF LastAnswerFits
<1>14. stops' = {} => \E left : LeftToSolve(left)'
    <2>. SUFFICES ASSUME stops' = {} PROVE \E left : LeftToSolve(left)'
        OBVIOUS
    <2>1. PICK left : LeftToSolve(left)
        BY <1>1, <1>2
    <2>2. Given' + Unsolved(f) = Given
        <3>1. Given = seen + control.len
            BY <1>2 DEF Given, ToSolve
        <3>2. Given' = seen + 0
            BY <1>2, <1>7 DEF Given, ToSolve
        <3>3. (seen + 0) + control.len = seen + control.len
            BY <1>1 DEF QueryTypes
        <3>. QED
            BY <1>6, <3>1, <3>2, <3>3
    <2>. QED
        BY <1>1, <1>2, <1>3, <1>5, <1>6, <1>9, <2>1, <2>2, StackGrows
<1>. QED
    BY <1>7, <1>8, <1>9, <1>11, <1>12, <1>13, <1>14 DEF QueryInv, StepTypes

(* The frames the steps make of the top frame.                             *)
GivenUp(f) == [f EXCEPT !.todo = <<>>]
OneTaken(f) == [f EXCEPT !.todo = Tail(@)]
PieceAnswered(f, answer) == [f EXCEPT !.todo = Tail(@), !.outs = Merged(@, answer)]
NextRound(f) == [f EXCEPT !.body = f.outs, !.round = @ + 1]

LEMMA MergedIs == ASSUME NEW body \in Nat, NEW answer \in Nat PROVE Merged(body, answer) \in Nat
BY DEF Merged

LEMMA FramesAre ==
    ASSUME NEW f \in QueryFrame
    PROVE  /\ GivenUp(f) \in QueryFrame /\ GivenUp(f).round = f.round
           /\ NextRound(f) \in QueryFrame /\ NextRound(f).round # 0
           /\ f.todo # <<>> => /\ OneTaken(f) \in QueryFrame /\ OneTaken(f).round = f.round
                               /\ OneTaken(f).todo = Tail(f.todo)
           /\ f.todo # <<>> => \A answer \in Nat :
                 /\ PieceAnswered(f, answer) \in QueryFrame
                 /\ PieceAnswered(f, answer).round = f.round
                 /\ PieceAnswered(f, answer).todo = Tail(f.todo)
<1>1. /\ f.todo \in Seq(Nat) /\ f.round \in Nat /\ f.round + 1 \in Nat \ {0}
      /\ f.outs \in Nat /\ <<>> \in Seq(Nat)
    BY DEF QueryFrame
<1>2. GivenUp(f) \in QueryFrame /\ GivenUp(f).round = f.round
    BY <1>1 DEF GivenUp, QueryFrame
<1>3. NextRound(f) \in QueryFrame /\ NextRound(f).round # 0
    BY <1>1 DEF NextRound, QueryFrame
<1>4. ASSUME f.todo # <<>>
      PROVE  /\ OneTaken(f) \in QueryFrame /\ OneTaken(f).round = f.round
             /\ OneTaken(f).todo = Tail(f.todo)
    <2>1. Tail(f.todo) \in Seq(Nat)
        BY <1>1, <1>4
    <2>. QED
        BY <1>1, <2>1 DEF OneTaken, QueryFrame
<1>5. ASSUME f.todo # <<>>, NEW answer \in Nat
      PROVE  /\ PieceAnswered(f, answer) \in QueryFrame
             /\ PieceAnswered(f, answer).round = f.round
             /\ PieceAnswered(f, answer).todo = Tail(f.todo)
    <2>1. Tail(f.todo) \in Seq(Nat)
        BY <1>1, <1>5
    <2>2. Merged(f.outs, answer) \in Nat
        BY <1>1, MergedIs
    <2>. QED
        BY <1>1, <2>1, <2>2 DEF PieceAnswered, QueryFrame
<1>. QED
    BY <1>2, <1>3, <1>4, <1>5

LEMMA NextChildKeeps == ASSUME QueryInv, NextChild PROVE QueryInv'
<1>1. /\ QueryTypes /\ stack \in Seq(QueryFrame) /\ stack # <<>> /\ stops \subseteq Reasons
      /\ seen \in Nat
    BY DEF QueryInv, QueryTypes, Reasons, OneReduces, NextChild
<1>2. /\ control.op = "next" /\ Top.todo # <<>>
      /\ NoCall /\ UNCHANGED <<payload, raising, seen>>
      /\ \/ /\ BlockedBy(0) # {} /\ NoteAnd(BlockedBy(0), "next", 0)
            /\ stack' = Replace(GivenUp(Top))
         \/ /\ Do("solve", Head(Top.todo)) /\ UNCHANGED stops
            /\ stack' = Replace(OneTaken(Top))
    BY Zenon DEF NextChild, GivenUp, OneTaken
<1>3. /\ Top \in QueryFrame /\ Top.todo \in Seq(Nat) /\ Top.round = 0
    <2>1. Len(stack) \in 1 .. Len(stack) /\ Top = stack[Len(stack)]
        BY <1>1, TopIs
    <2>2. Top.round = 0
        BY <1>2, <2>1, NoneReduces DEF Reducing
    <2>. QED
        BY <1>1, <2>2, TopIs
<1>4. CASE /\ BlockedBy(0) # {} /\ NoteAnd(BlockedBy(0), "next", 0)
           /\ stack' = Replace(GivenUp(Top))
    <2>1. PICK f : f = GivenUp(Top)
        OBVIOUS
    <2>2. f \in QueryFrame /\ f.round = 0
        BY <1>3, <2>1, FramesAre
    <2>3. /\ stops' # {} /\ stops' \subseteq Reasons
          /\ control' \in [op : Ops, len : Nat] /\ control'.op \in {"next", "raised"}
        BY <1>1, <1>4, NoteIs, BlockedIs DEF Ops
    <2>4. StepTypes
        BY <1>2, <2>3, WithoutCall
    <2>. QED
        BY <1>1, <1>4, <2>1, <2>2, <2>3, <2>4, TopChanges
<1>5. CASE /\ Do("solve", Head(Top.todo)) /\ UNCHANGED stops
           /\ stack' = Replace(OneTaken(Top))
    <2>1. PICK f : f = OneTaken(Top)
        OBVIOUS
    <2>2. f \in QueryFrame /\ f.round = 0 /\ f.todo = Tail(Top.todo)
        BY <1>2, <1>3, <2>1, FramesAre
    <2>3. /\ Head(Top.todo) \in Nat /\ SumOf(Tail(Top.todo)) \in Nat
          /\ SumOf(Top.todo) = Head(Top.todo) + SumOf(Tail(Top.todo))
        BY <1>2, <1>3, SumOfTail
    <2>4. /\ control' \in [op : Ops, len : Nat]
          /\ control'.op = "solve" /\ control'.len = Head(Top.todo)
        BY <1>5, <2>3, DoIs DEF Ops
    <2>5. StepTypes
        BY <1>1, <1>2, <1>5, <2>4, WithoutCall
    <2>6. Given' + Unsolved(f) = Given + Unsolved(Top)
        <3>1. Given = seen + 0 /\ Unsolved(Top) = Head(Top.todo) + SumOf(Tail(Top.todo))
            BY <1>2, <1>3, <2>3 DEF Given, ToSolve, Unsolved
        <3>2. Given' = seen + Head(Top.todo) /\ Unsolved(f) = SumOf(Tail(Top.todo))
            BY <1>2, <2>2, <2>4 DEF Given, ToSolve, Unsolved
        <3>3. (seen + Head(Top.todo)) + SumOf(Tail(Top.todo))
                = (seen + 0) + (Head(Top.todo) + SumOf(Tail(Top.todo)))
            BY <1>1, <2>3
        <3>. QED
            BY <3>1, <3>2, <3>3, Zenon
    <2>. QED
        BY <1>1, <1>5, <2>1, <2>2, <2>4, <2>5, <2>6, TopChanges
<1>. QED
    BY <1>2, <1>4, <1>5

(* The top frame changes without a step into the payload.                  *)
LEMMA SameGiven ==
    ASSUME UNCHANGED seen, control.op # "solve", control'.op # "solve",
           NEW f, NEW g, Unsolved(f) = Unsolved(g)
    PROVE  Given' + Unsolved(f) = Given + Unsolved(g)
BY DEF Given, ToSolve

LEMMA ChildReturnsKeeps == ASSUME QueryInv, ChildReturns PROVE QueryInv'
<1>1. /\ QueryTypes /\ stack \in Seq(QueryFrame) /\ stack # <<>> /\ stops \subseteq Reasons
      /\ control.len \in Nat
    BY DEF QueryInv, QueryTypes, Reasons, ChildReturns
<1>2. /\ control.op = "return" /\ Do("next", 0)
      /\ NoCall /\ UNCHANGED <<payload, raising, stops, seen>>
      /\ stack' = Replace([Top EXCEPT !.body = Merged(@, control.len)])
    BY Zenon DEF ChildReturns
<1>3. /\ Top \in QueryFrame /\ Top.round = 0 /\ Merged(Top.body, control.len) \in Nat
    <2>1. Len(stack) \in 1 .. Len(stack) /\ Top = stack[Len(stack)] /\ Top.body \in Nat
        BY <1>1, TopIs
    <2>2. Top.round = 0
        BY <1>2, <2>1, NoneReduces DEF Reducing
    <2>. QED
        BY <1>1, <2>1, <2>2, TopIs, MergedIs
<1>4. PICK f : f = [Top EXCEPT !.body = Merged(@, control.len)]
    OBVIOUS
<1>5. f \in QueryFrame /\ f.round = 0 /\ f.todo = Top.todo
    BY <1>3, <1>4 DEF QueryFrame
<1>6. control' \in [op : Ops, len : Nat] /\ control'.op = "next"
    BY <1>2, DoIs DEF Ops
<1>7. StepTypes
    BY <1>1, <1>2, <1>6, WithoutCall
<1>8. Given' + Unsolved(f) = Given + Unsolved(Top)
    <2>1. Unsolved(f) = Unsolved(Top)
        BY <1>3, <1>5 DEF Unsolved
    <2>. QED
        BY <1>2, <1>6, <2>1, SameGiven
<1>. QED
    BY <1>1, <1>2, <1>4, <1>5, <1>6, <1>7, <1>8, TopChanges

LEMMA AllReturnedKeeps == ASSUME QueryInv, AllReturned PROVE QueryInv'
<1>1. /\ QueryTypes /\ stack \in Seq(QueryFrame) /\ stack # <<>> /\ stops \subseteq Reasons
    BY DEF QueryInv, QueryTypes, Reasons, OneReduces, AllReturned
<1>2. /\ control.op = "next" /\ Top.todo = <<>> /\ Do("reduce", 0)
      /\ NoCall /\ UNCHANGED <<payload, raising, stops, seen>>
      /\ stack' = Replace([Top EXCEPT !.round = 1])
    BY Zenon DEF AllReturned
<1>3. Top \in QueryFrame
    BY <1>1, TopIs
<1>4. PICK f : f = [Top EXCEPT !.round = 1]
    OBVIOUS
<1>5. f \in QueryFrame /\ f.round = 1
    BY <1>3, <1>4 DEF QueryFrame
<1>6. control' \in [op : Ops, len : Nat] /\ control'.op = "reduce"
    BY <1>2, DoIs DEF Ops
<1>7. StepTypes
    BY <1>1, <1>2, <1>6, WithoutCall
<1>8. Given' + Unsolved(f) = Given + Unsolved(Top)
    <2>1. Unsolved(f) = 0 /\ Unsolved(Top) = 0
        BY <1>2, <1>3, <1>5, UnsolvedIs
    <2>. QED
        BY <1>2, <1>6, <2>1, SameGiven
<1>9. stack' = Replace(f) /\ stops' = stops
    BY <1>2, <1>4, Zenon
<1>. QED
    BY <1>1, <1>5, <1>6, <1>7, <1>8, <1>9, TopChanges

LEMMA ReduceRoundKeeps == ASSUME QueryInv, ReduceRound PROVE QueryInv'
<1>1. /\ QueryTypes /\ stack \in Seq(QueryFrame) /\ stack # <<>> /\ stops \subseteq Reasons
      /\ Top.round # 0
    BY DEF QueryInv, QueryTypes, Reasons, OneReduces, Reducing, ReduceRound
<1>2. /\ control.op = "reduce" /\ Do("piece", 0)
      /\ NoCall /\ UNCHANGED <<payload, raising, stops, seen>>
      /\ \E pieces \in Cuts(Top.body, MaxChunkChars) :
           stack' = Replace([Top EXCEPT !.todo = pieces, !.outs = 0])
    BY Zenon DEF ReduceRound
<1>3. PICK pieces \in Cuts(Top.body, MaxChunkChars) :
           stack' = Replace([Top EXCEPT !.todo = pieces, !.outs = 0])
    BY <1>2, Zenon
<1>4. Top \in QueryFrame /\ Top.body \in Nat
    BY <1>1, TopIs
<1>5. pieces \in Seq(Nat) /\ \A i \in 1 .. Len(pieces) : pieces[i] <= MaxChunkChars
    BY <1>4, Sizes, CutsAre
<1>6. PICK f : f = [Top EXCEPT !.todo = pieces, !.outs = 0]
    OBVIOUS
<1>7. f \in QueryFrame /\ f.round # 0 /\ f.todo = pieces
    BY <1>1, <1>4, <1>5, <1>6 DEF QueryFrame
<1>8. control' \in [op : Ops, len : Nat] /\ control'.op = "piece"
    BY <1>2, DoIs DEF Ops
<1>9. StepTypes
    BY <1>1, <1>2, <1>8, WithoutCall
<1>10. Given' + Unsolved(f) = Given + Unsolved(Top)
    <2>1. Unsolved(f) = 0 /\ Unsolved(Top) = 0
        BY <1>1, <1>4, <1>7, UnsolvedIs
    <2>. QED
        BY <1>2, <1>8, <2>1, SameGiven
<1>. QED
    BY <1>1, <1>2, <1>3, <1>5, <1>6, <1>7, <1>8, <1>9, <1>10, TopChanges

LEMMA ReduceEndsKeeps == ASSUME QueryInv, ReduceEnds PROVE QueryInv'
<1>1. /\ QueryTypes /\ stack \in Seq(QueryFrame) /\ stack # <<>> /\ stops \subseteq Reasons
    BY DEF QueryInv, QueryTypes, Reasons, OneReduces, Reducing, ReduceEnds
<1>2. PICK noted : noted = IF Fits(Top.body) THEN {} ELSE {"reduce_rounds_exhausted"}
    OBVIOUS
<1>3. /\ control.op = "reduce" /\ NoteAnd(noted, "return", Top.body) /\ stack' = PopFrame
      /\ NoCall /\ UNCHANGED <<payload, raising, seen>>
    BY <1>2, Zenon DEF ReduceEnds
<1>4. Top.body \in Nat /\ noted \subseteq Reasons /\ (noted = {} => Fits(Top.body))
    BY <1>1, <1>2, TopIs DEF Reasons
<1>5. /\ stops' = stops \cup noted /\ control' \in [op : Ops, len : Nat]
      /\ \/ control'.op = "return" /\ control'.len = Top.body
         \/ control'.op = "raised" /\ noted # {}
    BY <1>1, <1>3, <1>4, NoteIs DEF Ops
<1>6. StepTypes
    BY <1>1, <1>3, <1>4, <1>5, WithoutCall
<1>. QED
    BY <1>3, <1>4, <1>5, <1>6, TopGoes DEF Reducing

LEMMA ReducePieceKeeps == ASSUME QueryInv, ReducePiece PROVE QueryInv'
<1>1. /\ QueryTypes /\ stack \in Seq(QueryFrame) /\ stack # <<>> /\ stops \subseteq Reasons
      /\ WithinBudget /\ Top.round # 0
      /\ \A i \in 1 .. Len(Top.todo) : Top.todo[i] <= MaxChunkChars
    <2>1. control.op = "piece"
        BY Zenon DEF ReducePiece
    <2>. QED
        BY <2>1 DEF QueryInv, QueryTypes, Reasons, OneReduces, Reducing
<1>2. PICK len : len = Head(Top.todo)
    OBVIOUS
<1>3. /\ control.op = "piece" /\ Top.todo # <<>> /\ UNCHANGED <<payload, raising, seen>>
      /\ \/ /\ BlockedBy(EstimateTokens(len)) # {}
            /\ NoteAnd(BlockedBy(EstimateTokens(len)), "return", Top.body)
            /\ stack' = PopFrame /\ NoCall
         \/ /\ BlockedBy(EstimateTokens(len)) = {} /\ Ask(len) /\ UNCHANGED <<stops, control>>
            /\ \E answer \in 0 .. MaxAnswer :
                 stack' = Replace(PieceAnswered(Top, answer))
    BY <1>2, Zenon DEF ReducePiece, PieceAnswered
<1>4. /\ Top \in QueryFrame /\ Top.todo \in Seq(Nat) /\ Top.body \in Nat /\ Top.outs \in Nat
    BY <1>1, TopIs
<1>5. /\ len \in Nat /\ len <= MaxChunkChars /\ Tail(Top.todo) \in Seq(Nat)
      /\ \A i \in 1 .. Len(Tail(Top.todo)) : Tail(Top.todo)[i] <= MaxChunkChars
    <2>1. PICK todo : todo = Top.todo
        OBVIOUS
    <2>2. /\ todo \in Seq(Nat) /\ todo # <<>> /\ len = Head(todo)
          /\ \A i \in 1 .. Len(todo) : todo[i] <= MaxChunkChars
        BY <1>1, <1>2, <1>3, <1>4, <2>1
    <2>3. /\ Head(todo) = todo[1] /\ 1 \in 1 .. Len(todo) /\ Tail(todo) \in Seq(Nat)
          /\ \A i \in 1 .. Len(Tail(todo)) : Tail(todo)[i] = todo[i + 1] /\ i + 1 \in 1 .. Len(todo)
        BY <2>2
    <2>. QED
        BY <2>1, <2>2, <2>3
<1>6. CASE /\ BlockedBy(EstimateTokens(len)) # {}
           /\ NoteAnd(BlockedBy(EstimateTokens(len)), "return", Top.body)
           /\ stack' = PopFrame /\ NoCall
    <2>1. BlockedBy(EstimateTokens(len)) \subseteq Reasons
        BY <1>1, <1>5, Sizes, BlockedIs
    <2>2. /\ stops' # {} /\ stops' \subseteq Reasons
          /\ control' \in [op : Ops, len : Nat] /\ control'.op \in {"return", "raised"}
        BY <1>1, <1>4, <1>6, <2>1, NoteIs DEF Ops
    <2>3. StepTypes
        BY <1>3, <1>6, <2>2, WithoutCall
    <2>. QED
        BY <1>3, <1>6, <2>2, <2>3, TopGoes DEF Reducing
<1>7. CASE /\ BlockedBy(EstimateTokens(len)) = {} /\ Ask(len) /\ UNCHANGED <<stops, control>>
           /\ \E answer \in 0 .. MaxAnswer :
                stack' = Replace(PieceAnswered(Top, answer))
    <2>1. PICK answer \in Nat :
             stack' = Replace(PieceAnswered(Top, answer))
        BY <1>7
    <2>3. PICK f : f = PieceAnswered(Top, answer)
        OBVIOUS
    <2>4. f \in QueryFrame /\ f.round # 0 /\ f.todo = Tail(Top.todo)
        BY <1>1, <1>3, <1>4, <2>3, FramesAre
    <2>5. /\ calls' \in Nat /\ tokens' \in Nat /\ widest' \in Nat /\ WithinBudget'
        BY <1>1, <1>5, <1>7, AskIs
    <2>6. StepTypes
        BY <1>1, <1>3, <1>7, <2>5 DEF StepTypes, QueryTypes
    <2>7. Given' + Unsolved(f) = Given + Unsolved(Top)
        <3>1. Unsolved(f) = 0 /\ Unsolved(Top) = 0
            BY <1>1, <1>4, <2>4, UnsolvedIs
        <3>. QED
            BY <1>3, <1>7, <3>1, SameGiven
    <2>. QED
        BY <1>1, <1>3, <1>5, <1>7, <2>1, <2>3, <2>4, <2>6, <2>7, TopChanges
<1>. QED
    BY <1>3, <1>6, <1>7

LEMMA RoundEndsKeeps == ASSUME QueryInv, RoundEnds PROVE QueryInv'
<1>1. /\ QueryTypes /\ stack \in Seq(QueryFrame) /\ stack # <<>> /\ stops \subseteq Reasons
      /\ Top.round # 0
    BY DEF QueryInv, QueryTypes, Reasons, OneReduces, Reducing, RoundEnds
<1>2. PICK len : len = IF Top.outs = 0 THEN Top.body ELSE Top.outs
    OBVIOUS
<1>3. /\ control.op = "piece" /\ NoCall /\ UNCHANGED <<payload, raising, seen>>
      /\ \/ NoteAnd({"reduce_not_converging"}, "return", len) /\ stack' = PopFrame
         \/ /\ stack' = Replace(NextRound(Top))
            /\ Do("reduce", 0) /\ UNCHANGED stops
    BY <1>2, Zenon DEF RoundEnds, NextRound
<1>4. /\ Top \in QueryFrame /\ Top.body \in Nat /\ Top.outs \in Nat /\ Top.round \in Nat
      /\ len \in Nat
    BY <1>1, <1>2, TopIs
<1>5. CASE NoteAnd({"reduce_not_converging"}, "return", len) /\ stack' = PopFrame
    <2>0. PICK noted : noted = {"reduce_not_converging"} /\ noted # {} /\ noted \subseteq Reasons
        BY DEF Reasons
    <2>1. /\ stops' # {} /\ stops' \subseteq Reasons
          /\ control' \in [op : Ops, len : Nat] /\ control'.op \in {"return", "raised"}
        <3>1. NoteAnd(noted, "return", len)
            BY <1>5, <2>0
        <3>2. stops' = stops \cup noted /\ control' \in [op : Ops, len : Nat]
              /\ control'.op \in {"return", "raised"}
            BY <1>1, <1>4, <3>1, NoteIs DEF Ops
        <3>. QED
            BY <1>1, <2>0, <3>2
    <2>2. StepTypes
        BY <1>3, <2>1, WithoutCall
    <2>. QED
        BY <1>3, <1>5, <2>1, <2>2, TopGoes DEF Reducing
<1>6. CASE /\ stack' = Replace(NextRound(Top))
           /\ Do("reduce", 0) /\ UNCHANGED stops
    <2>1. PICK f : f = NextRound(Top)
        OBVIOUS
    <2>2. f \in QueryFrame /\ f.round # 0
        BY <1>4, <2>1, FramesAre
    <2>3. control' \in [op : Ops, len : Nat] /\ control'.op = "reduce"
        BY <1>6, DoIs DEF Ops
    <2>4. StepTypes
        BY <1>1, <1>3, <1>6, <2>3, WithoutCall
    <2>5. Given' + Unsolved(f) = Given + Unsolved(Top)
        <3>1. Unsolved(f) = 0 /\ Unsolved(Top) = 0
            BY <1>1, <1>4, <2>2, UnsolvedIs
        <3>. QED
            BY <1>3, <2>3, <3>1, SameGiven
    <2>. QED
        BY <1>1, <1>6, <2>1, <2>2, <2>3, <2>4, <2>5, TopChanges
<1>. QED
    BY <1>3, <1>5, <1>6

LEMMA QueryReturnsKeeps == ASSUME QueryInv, QueryReturns PROVE QueryInv'
<1>1. /\ QueryTypes /\ stack \in Seq(QueryFrame) /\ stops \subseteq Reasons /\ LastAnswerFits
      /\ control.len \in Nat
      /\ stops = {} => \E left : LeftToSolve(left)
    BY DEF QueryInv, QueryTypes, Reasons
<1>2. /\ control.op = "return" /\ stack = <<>> /\ Do("done", control.len)
      /\ NoCall /\ UNCHANGED <<payload, raising, stack, stops, seen>>
    BY Zenon DEF QueryReturns
<1>3. /\ control' \in [op : Ops, len : Nat] /\ control'.op = "done" /\ control'.len = control.len
    BY <1>1, <1>2, DoIs DEF Ops
<1>4. StepTypes /\ calls' = calls
    BY <1>1, <1>2, <1>3, WithoutCall DEF NoCall
<1>5. QueryTypes'
    BY <1>1, <1>4 DEF QueryTypes, StepTypes, Reasons
<1>6. OneReduces' /\ LastAnswerFits'
    BY <1>1, <1>2, <1>3, <1>4 DEF OneReduces, Reducing, LastAnswerFits, Fits
<1>7. stops' = {} => \E left : LeftToSolve(left)'
    <2>1. Given' = Given
        BY <1>2, <1>3 DEF Given, ToSolve
    <2>2. ASSUME NEW left, LeftToSolve(left) PROVE LeftToSolve(left)'
        BY <1>2, <2>1, <2>2 DEF LeftToSolve, SumsOver, Unsolved
    <2>. QED
        BY <1>1, <1>2, <2>2
<1>. QED
    BY <1>1, <1>2, <1>3, <1>4, <1>5, <1>6, <1>7 DEF QueryInv, StepTypes

LEMMA QueryInvStep == ASSUME QueryInv, [QueryNext]_queryVars PROVE QueryInv'
<1>1. ASSUME UNCHANGED queryVars PROVE QueryInv'
    <2>1. UNCHANGED <<payload, raising, control, stack, calls, tokens, stops, seen, widest>>
        BY <1>1, Zenon DEF queryVars
    <2>2. \A left : LeftToSolve(left) => LeftToSolve(left)'
        BY <2>1 DEF LeftToSolve, SumsOver, Unsolved, Given, ToSolve
    <2>. QED
        BY <2>1, <2>2 DEF QueryInv, QueryTypes, WithinBudget, OneReduces, Reducing, Top,
                          LastAnswerFits, Fits
<1>. QED
    BY <1>1, LeafKeeps, SplitKeeps, NextChildKeeps, ChildReturnsKeeps, AllReturnedKeeps,
       ReduceRoundKeeps, ReduceEndsKeeps, ReducePieceKeeps, RoundEndsKeeps, QueryReturnsKeeps,
       Zenon DEF QueryNext

(* recursive_query: for every payload, budget and way to cut, and whatever *)
(* the sub-model answers, the ledger is never overdrawn and no call is     *)
(* wider than a leaf; an answer not marked partial was made from every     *)
(* character of the payload, and fits a leaf unless it is the sub-model's  *)
(* own answer to the whole.                                                *)
THEOREM QueriesAreHonest == QuerySpec => []QueryIsHonest
<1>1. ASSUME QueryInv PROVE QueryIsHonest
    <2>1. WithinBudget
        BY <1>1 DEF QueryInv
    <2>2. ASSUME control.op = "done", stops = {}
          PROVE  seen = payload /\ (calls > 1 => Fits(control.len))
        <3>1. stack = <<>> /\ seen \in Nat /\ calls \in Nat /\ (calls <= 1 \/ Fits(control.len))
            BY <1>1, <2>2 DEF QueryInv, QueryTypes, LastAnswerFits
        <3>2. PICK left : LeftToSolve(left)
            BY <1>1, <2>2 DEF QueryInv
        <3>3. Len(stack) = 0
            BY <3>1
        <3>4. left[0] = 0 /\ Given + left[0] = payload /\ Given = seen + 0
            BY <2>2, <3>2, <3>3 DEF LeftToSolve, SumsOver, Given, ToSolve
        <3>. QED
            BY <3>1, <3>4
    <2>. QED
        BY <2>1, <2>2 DEF WithinBudget, QueryIsHonest
<1>. QED
    BY <1>1, QueryInvInit, QueryInvStep, PTL DEF QuerySpec

-----------------------------------------------------------------------------
(* TokenTotals                                                             *)

USE TotalsAssumption

LEMMA CreditsAre ==
    ASSUME NEW f \in [UsageWorkers -> Nat]
    PROVE  \E s : /\ Credits(f) = s[MaxWorkers] /\ s[0] = 0
                  /\ \A w \in UsageWorkers : s[w] = s[w - 1] + f[w]
<1>. DEFINE c == CHOOSE s : SumsTo(s, f, MaxWorkers)
<1>1. Credits(f) = c[MaxWorkers]
    BY Zenon DEF Credits, SumsTo
<1>2. PICK s : s = c
    OBVIOUS
<1>5. MaxWorkers \in Nat /\ f \in [1 .. MaxWorkers -> Nat]
    BY TotalsAssumption DEF UsageWorkers
<1>3. SumsTo(s, f, MaxWorkers)
    <2>1. MaxWorkers \in 0 .. MaxWorkers
        BY <1>5
    <2>2. \E t : SumsTo(t, f, MaxWorkers)
        BY <1>5, <2>1, SumsExist
    <2>. QED
        BY <1>2, <2>2, Zenon
<1>. HIDE DEF c
<1>6. MaxWorkers \in Nat
    BY <1>5
<1>7. f \in [1 .. MaxWorkers -> Nat]
    BY <1>5
<1>4. /\ s[0] = 0
      /\ \A k \in 0 .. MaxWorkers : s[k] \in Nat
      /\ \A k \in 1 .. MaxWorkers : s[k] = s[k - 1] + f[k]
    BY <1>3, <1>6, <1>7, SumsAre, Zenon
<1>. QED
    BY <1>1, <1>2, <1>4 DEF UsageWorkers

(* What one session is given more, the sum of the sessions gains.          *)
LEMMA CreditAdds ==
    ASSUME NEW f \in [UsageWorkers -> Nat], NEW r \in UsageWorkers, NEW d \in Nat
    PROVE  Credits([f EXCEPT ![r] = @ + d]) = Credits(f) + d
<1>. DEFINE g == [f EXCEPT ![r] = @ + d]
<1>1. g \in [UsageWorkers -> Nat]
    OBVIOUS
<1>2. PICK s : /\ Credits(f) = s[MaxWorkers] /\ s[0] = 0
               /\ \A w \in UsageWorkers : s[w] = s[w - 1] + f[w]
    BY CreditsAre
<1>3. PICK t : /\ Credits(g) = t[MaxWorkers] /\ t[0] = 0
               /\ \A w \in UsageWorkers : t[w] = t[w - 1] + g[w]
    BY <1>1, CreditsAre
<1>. DEFINE S == {n \in Nat : n <= MaxWorkers =>
                    /\ s[n] \in Nat
                    /\ t[n] = IF n < r THEN s[n] ELSE s[n] + d}
<1>4. 0 \in S
    BY <1>2, <1>3 DEF UsageWorkers
<1>5. ASSUME NEW n \in S PROVE n + 1 \in S
    <2>. SUFFICES ASSUME n + 1 <= MaxWorkers
                  PROVE  /\ s[n + 1] \in Nat
                         /\ t[n + 1] = IF n + 1 < r THEN s[n + 1] ELSE s[n + 1] + d
        OBVIOUS
    <2>1. n + 1 \in UsageWorkers /\ (n + 1) - 1 = n
        BY DEF UsageWorkers
    <2>2. s[n + 1] = s[n] + f[n + 1] /\ t[n + 1] = t[n] + g[n + 1]
        BY <1>2, <1>3, <2>1
    <2>3. f[n + 1] \in Nat /\ g[n + 1] = IF n + 1 = r THEN f[n + 1] + d ELSE f[n + 1]
        BY <2>1
    <2>4. s[n] \in Nat /\ t[n] = IF n < r THEN s[n] ELSE s[n] + d
        OBVIOUS
    <2>5. n \in Nat /\ r \in Nat
        BY DEF UsageWorkers
    <2>. HIDE DEF g, S
    <2>. QED
        BY <2>2, <2>3, <2>4, <2>5
<1>. HIDE DEF S
<1>6. \A n \in Nat : n \in S
    BY <1>4, <1>5, SetInduction
<1>. QED
    BY <1>2, <1>3, <1>6 DEF S, UsageWorkers

LEMMA NoCredits == Credits([w \in UsageWorkers |-> 0]) = 0
<1>. DEFINE f == [w \in UsageWorkers |-> 0]
<1>1. f \in [UsageWorkers -> Nat] /\ \A w \in UsageWorkers : f[w] = 0
    OBVIOUS
<1>. HIDE DEF f
<1>2. PICK s : /\ Credits(f) = s[MaxWorkers] /\ s[0] = 0
               /\ \A w \in UsageWorkers : s[w] = s[w - 1] + f[w]
    BY <1>1, CreditsAre
<1>. DEFINE S == {n \in Nat : n <= MaxWorkers => s[n] = 0}
<1>3. 0 \in S
    BY <1>2
<1>4. ASSUME NEW n \in S PROVE n + 1 \in S
    BY <1>1, <1>2 DEF UsageWorkers
<1>. HIDE DEF S
<1>5. \A n \in Nat : n \in S
    BY <1>3, <1>4, SetInduction
<1>. QED
    BY <1>2, <1>5 DEF S, f

(***************************************************************************)
(* Place 0 stands for the update the running entry took last, the others   *)
(* for those in the mailbox.  p is what the worker of a place had spent    *)
(* when it posted the update, b what it had spent before its thread last   *)
(* restarted: the total is the difference.                                 *)
(***************************************************************************)
Places == 0 .. Len(updates)

(* Nobody, once the running entry was given another worker's update.       *)
OwnerOf(k) ==
    IF k > 0 THEN updates[k].worker
    ELSE IF running \in strayed THEN 0 ELSE running

TotalAt(k) == IF k > 0 THEN updates[k].total ELSE lastSeen

PostedAt(p, b, k) ==
    OwnerOf(k) # 0 =>
        /\ b[k] <= p[k] /\ TotalAt(k) = p[k] - b[k]
        /\ p[k] <= used[OwnerOf(k)]
        /\ b[k] = base[OwnerOf(k)] \/ p[k] <= base[OwnerOf(k)]

(* Of two updates of a worker the later tells of no less, and a thread     *)
(* that restarted between them did so at or after the earlier.             *)
PostedInOrder(p, b) ==
    \A j, k \in Places :
        j < k /\ OwnerOf(j) = OwnerOf(k) => /\ p[j] <= p[k]
                                            /\ b[j] = b[k] \/ p[j] <= b[k]

NoneMissed(p) ==
    \A w \in UsageWorkers :
        w = OwnerOf(0) =>
            /\ credited[w] <= p[0]
            /\ base[w] = 0 => credited[w] = p[0]
            /\ \/ p[0] = used[w]
               \/ \E k \in Places \ {0} : OwnerOf(k) = w /\ p[k] = used[w]

Ledger(p, b) ==
    /\ p \in [Places -> Nat] /\ b \in [Places -> Nat]
    /\ \A k \in Places : PostedAt(p, b, k)
    /\ PostedInOrder(p, b)
    /\ NoneMissed(p)

CreditWithinUse ==
    /\ \A w \in UsageWorkers : base[w] <= used[w]
    /\ \A w \in UsageWorkers \ strayed : credited[w] <= used[w]

TotalsInv ==
    /\ TotalsTypes
    /\ SumOfSessions
    /\ CreditWithinUse
    /\ \E p, b : Ledger(p, b)

LEMMA OwnersAre ==
    ASSUME TotalsTypes
    PROVE  /\ Len(updates) \in Nat
           /\ \A k \in Places : OwnerOf(k) \in UsageWorkers \cup {0} /\ TotalAt(k) \in Nat
           /\ \A k \in Places \ {0} : /\ updates[k] \in [worker : UsageWorkers, total : Nat]
                                      /\ OwnerOf(k) \in UsageWorkers
<1>1. \A k \in Places \ {0} : k \in 1 .. Len(updates) /\ k > 0
    BY DEF Places, TotalsTypes
<1>2. \A k \in 1 .. Len(updates) : updates[k] \in [worker : UsageWorkers, total : Nat]
    <2>. DEFINE R == [worker : UsageWorkers, total : Nat]
    <2>1. updates \in Seq(R)
        BY DEF TotalsTypes
    <2>. HIDE DEF R
    <2>2. \A k \in 1 .. Len(updates) : updates[k] \in R
        BY <2>1
    <2>. QED
        BY <2>2 DEF R
<1>3. \A k \in Places \ {0} : OwnerOf(k) = updates[k].worker /\ TotalAt(k) = updates[k].total
    BY <1>1, Zenon DEF OwnerOf, TotalAt
<1>4. OwnerOf(0) \in UsageWorkers \cup {0} /\ TotalAt(0) \in Nat
    BY DEF OwnerOf, TotalAt, TotalsTypes
<1>5. \A k \in Places \ {0} : /\ updates[k] \in [worker : UsageWorkers, total : Nat]
                              /\ OwnerOf(k) \in UsageWorkers /\ TotalAt(k) \in Nat
    BY <1>1, <1>2, <1>3
<1>6. Len(updates) \in Nat
    BY DEF TotalsTypes
<1>. QED
    BY <1>4, <1>5, <1>6

(* The oldest update leaves the mailbox; the entry took it, or has none    *)
(* that is its own.                                                        *)
LEMMA OldestIsTaken ==
    ASSUME TotalsTypes, TotalsTypes', NEW p, NEW b, Ledger(p, b),
           updates # <<>>, updates' = Tail(updates), UNCHANGED <<used, base>>,
           \/ OwnerOf(0)' = 0
           \/ OwnerOf(0)' = OwnerOf(1) /\ lastSeen' = updates[1].total
    PROVE  \E q, c : /\ q \in [Places' -> Nat] /\ c \in [Places' -> Nat]
                     /\ \A k \in Places' : q[k] = p[k + 1] /\ c[k] = b[k + 1]
                     /\ \A k \in Places' : PostedAt(q, c, k)'
                     /\ PostedInOrder(q, c)'
<1>1. /\ Len(updates) \in Nat \ {0} /\ Len(updates') = Len(updates) - 1
      /\ \A k \in 1 .. Len(updates') : updates'[k] = updates[k + 1]
    BY DEF TotalsTypes
<1>2. \A k \in Places' : k + 1 \in Places \ {0}
    BY <1>1 DEF Places
<1>3. PICK q : q = [k \in Places' |-> p[k + 1]]
    OBVIOUS
<1>4. PICK c : c = [k \in Places' |-> b[k + 1]]
    OBVIOUS
<1>5. /\ q \in [Places' -> Nat] /\ c \in [Places' -> Nat]
      /\ \A k \in Places' : q[k] = p[k + 1] /\ c[k] = b[k + 1]
    BY <1>2, <1>3, <1>4 DEF Ledger
<1>6. \A k \in Places' : k # 0 => /\ OwnerOf(k)' = OwnerOf(k + 1)
                                  /\ TotalAt(k)' = TotalAt(k + 1)
    BY <1>1 DEF OwnerOf, TotalAt, Places
<1>7. OwnerOf(0)' # 0 => OwnerOf(0)' = OwnerOf(1) /\ TotalAt(0)' = TotalAt(1)
    BY DEF TotalAt
<1>8. \A k \in Places' : OwnerOf(k)' # 0 => /\ OwnerOf(k)' = OwnerOf(k + 1)
                                            /\ TotalAt(k)' = TotalAt(k + 1)
    BY <1>6, <1>7
<1>9. ASSUME NEW k \in Places' PROVE PostedAt(q, c, k)'
    BY <1>2, <1>5, <1>8 DEF PostedAt, Ledger
<1>10. PostedInOrder(q, c)'
    <2>. SUFFICES ASSUME NEW j \in Places', NEW k \in Places', j < k,
                         OwnerOf(j)' = OwnerOf(k)'
                  PROVE  /\ q[j] <= q[k]
                         /\ c[j] = c[k] \/ q[j] <= c[k]
        BY DEF PostedInOrder
    <2>1. k # 0 /\ OwnerOf(k)' # 0
        <3>1. k \in Nat \ {0}
            BY <1>1 DEF Places
        <3>2. OwnerOf(k + 1) \in UsageWorkers
            BY <1>2, OwnersAre
        <3>. QED
            BY <1>6, <3>1, <3>2 DEF UsageWorkers
    <2>2. OwnerOf(j + 1) = OwnerOf(k + 1)
        BY <1>8, <2>1
    <2>3. j + 1 \in Places /\ k + 1 \in Places /\ j + 1 < k + 1
        BY <1>1, <1>2 DEF Places
    <2>. QED
        BY <1>5, <2>2, <2>3 DEF Ledger, PostedInOrder
<1>. QED
    BY <1>5, <1>9, <1>10

LEMMA EntryEndsKeeps ==
    ASSUME TotalsInv, TotalsTypes', running' \in {0, running},
           UNCHANGED <<updates, credited, lastSeen, aggregate, used, base, strayed>>
    PROVE  TotalsInv'
<1>1. PICK p, b : Ledger(p, b)
    BY DEF TotalsInv
<1>2. Places' = Places /\ \A k \in Places : OwnerOf(k)' \in {0, OwnerOf(k)} /\ TotalAt(k)' = TotalAt(k)
    BY DEF OwnerOf, TotalAt, Places
<1>3. \A k \in Places \ {0} : OwnerOf(k)' = OwnerOf(k) /\ OwnerOf(k) \in UsageWorkers
    <2>1. \A k \in Places \ {0} : k > 0
        BY DEF Places
    <2>. QED
        BY <2>1, OwnersAre DEF OwnerOf, TotalsInv
<1>4. \A k \in Places : PostedAt(p, b, k)'
    BY <1>1, <1>2 DEF PostedAt, Ledger
<1>5. PostedInOrder(p, b)'
    <2>1. \A j, k \in Places : j < k => k # 0
        BY DEF Places
    <2>2. 0 \notin UsageWorkers
        BY DEF UsageWorkers
    <2>. QED
        BY <1>1, <1>2, <1>3, <2>1, <2>2 DEF PostedInOrder, Ledger
<1>6. NoneMissed(p)'
    <2>1. 0 \notin UsageWorkers
        BY DEF UsageWorkers
    <2>2. \A w \in UsageWorkers : w = OwnerOf(0)' => w = OwnerOf(0)
        <3>1. 0 \in Places
            BY OwnersAre DEF Places, TotalsInv
        <3>. QED
            BY <1>2, <2>1, <3>1
    <2>. QED
        BY <1>1, <1>2, <1>3, <2>2 DEF NoneMissed, Ledger
<1>7. Ledger(p, b)'
    BY <1>1, <1>2, <1>4, <1>5, <1>6, Zenon DEF Ledger
<1>. QED
    BY <1>7 DEF TotalsInv, SumOfSessions, CreditWithinUse

(* A worker that is dispatched has spent nothing: what an earlier task of  *)
(* it may have posted is zero.                                             *)
LEMMA DispatchKeeps ==
    ASSUME TotalsInv, TotalsTypes', NEW w \in UsageWorkers, DispatchWorker(w)
    PROVE  TotalsInv'
<1>1. PICK p, b : Ledger(p, b)
    BY DEF TotalsInv
<1>2. TotalsTypes /\ CreditWithinUse /\ SumOfSessions
    BY DEF TotalsInv
<1>3. /\ running = 0 /\ running' = w /\ lastSeen' = 0 /\ used[w] = 0
      /\ UNCHANGED <<updates, credited, aggregate, used, base, posted, strayed>>
    <2>1. ~(w < w) /\ (used[w] > 0 => w < w)
        BY DEF DispatchWorker, HasBegun, UsageWorkers
    <2>2. used[w] \in Nat
        BY <1>2 DEF TotalsTypes
    <2>. QED
        BY <2>1, <2>2 DEF DispatchWorker
<1>4. base[w] = 0 /\ (w \notin strayed => credited[w] = 0)
    BY <1>2, <1>3 DEF CreditWithinUse, TotalsTypes
<1>5. Places' = Places /\ 0 \in Places /\ \A k \in Places \ {0} : k \in Nat /\ k > 0
    BY <1>2, <1>3, OwnersAre DEF Places
<1>6. PICK q : q = [k \in Places |-> IF k = 0 THEN 0 ELSE p[k]]
    OBVIOUS
<1>7. PICK c : c = [k \in Places |-> IF k = 0 THEN 0 ELSE b[k]]
    OBVIOUS
<1>8. /\ q \in [Places -> Nat] /\ c \in [Places -> Nat] /\ q[0] = 0 /\ c[0] = 0
      /\ \A k \in Places \ {0} : q[k] = p[k] /\ c[k] = b[k]
    BY <1>1, <1>5, <1>6, <1>7 DEF Ledger
<1>9. /\ OwnerOf(0)' \in {0, w} /\ TotalAt(0)' = 0
      /\ \A k \in Places \ {0} : /\ OwnerOf(k)' = OwnerOf(k) /\ TotalAt(k)' = TotalAt(k)
                                 /\ OwnerOf(k) \in UsageWorkers
    <2>1. \A k \in Places \ {0} : OwnerOf(k) \in UsageWorkers
        BY <1>2, OwnersAre
    <2>. QED
        BY <1>3, <1>5, <2>1 DEF OwnerOf, TotalAt
<1>10. ASSUME NEW k \in Places \ {0}, OwnerOf(k) = w PROVE q[k] = 0 /\ c[k] = 0
    <2>1. b[k] <= p[k] /\ p[k] <= 0 /\ p[k] \in Nat /\ b[k] \in Nat
        BY <1>1, <1>3, <1>10 DEF Ledger, PostedAt, UsageWorkers
    <2>. QED
        BY <1>8, <2>1
<1>11. ASSUME NEW k \in Places PROVE PostedAt(q, c, k)'
    <2>1. CASE k = 0
        BY <1>3, <1>4, <1>8, <1>9, <2>1 DEF PostedAt
    <2>2. CASE k # 0
        BY <1>1, <1>3, <1>8, <1>9, <2>2 DEF PostedAt, Ledger
    <2>. QED
        BY <2>1, <2>2
<1>12. PostedInOrder(q, c)'
    <2>. SUFFICES ASSUME NEW j \in Places, NEW k \in Places, j < k, OwnerOf(j)' = OwnerOf(k)'
                  PROVE  q[j] <= q[k] /\ (c[j] = c[k] \/ q[j] <= c[k])
        BY <1>5 DEF PostedInOrder
    <2>1. k # 0
        BY <1>5
    <2>2. CASE j = 0
        BY <1>8, <1>9, <1>10, <2>1, <2>2 DEF UsageWorkers
    <2>3. CASE j # 0
        BY <1>1, <1>8, <1>9, <2>1, <2>3 DEF PostedInOrder, Ledger
    <2>. QED
        BY <2>2, <2>3
<1>13. NoneMissed(q)'
    <2>. SUFFICES ASSUME NEW v \in UsageWorkers, v = OwnerOf(0)'
                  PROVE  credited[v] = 0 /\ q[0] = 0 /\ used[v] = 0
        BY <1>3 DEF NoneMissed
    <2>1. v = w /\ w \notin strayed
        BY <1>3, <1>9 DEF OwnerOf, UsageWorkers
    <2>. QED
        BY <1>3, <1>4, <1>8, <2>1
<1>14. Ledger(q, c)'
    BY <1>5, <1>8, <1>11, <1>12, <1>13, Zenon DEF Ledger
<1>. QED
    BY <1>2, <1>3, <1>14 DEF TotalsInv, SumOfSessions, CreditWithinUse

LEMMA RestartKeeps ==
    ASSUME TotalsInv, TotalsTypes', NEW w \in UsageWorkers, ThreadRestarts(w)
    PROVE  TotalsInv'
<1>1. PICK p, b : Ledger(p, b)
    BY DEF TotalsInv
<1>2. TotalsTypes /\ CreditWithinUse /\ SumOfSessions
    BY DEF TotalsInv
<1>3. /\ base' = [base EXCEPT ![w] = used[w]] /\ base[w] < used[w]
      /\ UNCHANGED <<running, updates, credited, lastSeen, aggregate, used, strayed>>
    BY DEF ThreadRestarts
<1>4. \A v \in UsageWorkers : base'[v] = IF v = w THEN used[v] ELSE base[v]
    BY <1>2, <1>3 DEF TotalsTypes
<1>5. base[w] \in Nat /\ used[w] \in Nat
    BY <1>2 DEF TotalsTypes
<1>6. /\ Places' = Places /\ 0 \in Places
      /\ \A k \in Places : OwnerOf(k)' = OwnerOf(k) /\ TotalAt(k)' = TotalAt(k)
    BY <1>2, <1>3, OwnersAre DEF Places, OwnerOf, TotalAt
<1>7. ASSUME NEW k \in Places PROVE PostedAt(p, b, k)'
    <2>1. OwnerOf(k) \in UsageWorkers \cup {0} /\ PostedAt(p, b, k)
        BY <1>1, <1>2, OwnersAre DEF Ledger
    <2>. QED
        BY <1>3, <1>4, <1>6, <2>1 DEF PostedAt
<1>8. PostedInOrder(p, b)'
    BY <1>1, <1>6 DEF PostedInOrder, Ledger
<1>9. NoneMissed(p)'
    <2>. SUFFICES ASSUME NEW v \in UsageWorkers, v = OwnerOf(0)
                  PROVE  /\ credited[v] <= p[0]
                         /\ base'[v] = 0 => credited[v] = p[0]
                         /\ \/ p[0] = used[v]
                            \/ \E k \in Places \ {0} : OwnerOf(k) = v /\ p[k] = used[v]
        BY <1>3, <1>6 DEF NoneMissed
    <2>. QED
        BY <1>1, <1>3, <1>4, <1>5 DEF NoneMissed, Ledger
<1>10. Ledger(p, b)'
    BY <1>1, <1>6, <1>7, <1>8, <1>9, Zenon DEF Ledger
<1>11. CreditWithinUse'
    <2>1. \A v \in UsageWorkers : used[v] \in Nat
        BY <1>2 DEF TotalsTypes
    <2>. QED
        BY <1>2, <1>3, <1>4, <2>1 DEF CreditWithinUse
<1>. QED
    BY <1>2, <1>3, <1>10, <1>11 DEF TotalsInv, SumOfSessions

LEMMA ReportKeeps ==
    ASSUME TotalsInv, TotalsTypes', NEW w \in UsageWorkers, NEW n \in 0 .. 1, Report(w, n)
    PROVE  TotalsInv'
<1>1. PICK p, b : Ledger(p, b)
    BY DEF TotalsInv
<1>2. TotalsTypes /\ CreditWithinUse /\ SumOfSessions
    BY DEF TotalsInv
<1>3. /\ used' = [used EXCEPT ![w] = @ + n]
      /\ updates' = Append(updates, AgentUpdate(w))
      /\ UNCHANGED <<running, credited, lastSeen, aggregate, base, strayed>>
    BY DEF Report
<1>4. /\ \A v \in UsageWorkers : used'[v] = (IF v = w THEN used[v] + n ELSE used[v]) /\ used[v] <= used'[v]
      /\ used[w] \in Nat /\ base[w] \in Nat /\ base[w] <= used[w] /\ used'[w] \in Nat
    <2>1. \A v \in UsageWorkers : used[v] \in Nat /\ base[v] \in Nat /\ base[v] <= used[v]
        BY <1>2 DEF TotalsTypes, CreditWithinUse
    <2>2. \A v \in UsageWorkers : used'[v] = IF v = w THEN used[v] + n ELSE used[v]
        BY <1>2, <1>3 DEF TotalsTypes
    <2>3. n \in Nat
        OBVIOUS
    <2>. QED
        BY <2>1, <2>2, <2>3
<1>0. PICK last : last = Len(updates) + 1
    OBVIOUS
<1>5. /\ Len(updates) \in Nat /\ Len(updates') = last /\ last \in Nat
      /\ \A k \in 1 .. Len(updates) : updates'[k] = updates[k]
      /\ updates'[last] = AgentUpdate(w)
    BY <1>0, <1>2, <1>3 DEF TotalsTypes
<1>6. /\ Places' = Places \cup {last} /\ last \notin Places /\ 0 \in Places /\ last > 0
      /\ \A k \in Places : k < last /\ k \in Nat
      /\ \A k \in Places \ {0} : k \in 1 .. Len(updates)
    BY <1>0, <1>5 DEF Places
<1>7. /\ \A k \in Places : OwnerOf(k)' = OwnerOf(k) /\ TotalAt(k)' = TotalAt(k)
      /\ OwnerOf(last)' = w /\ TotalAt(last)' = used'[w] - base[w]
    <2>1. AgentUpdate(w).worker = w /\ AgentUpdate(w).total = used'[w] - base[w]
        BY DEF AgentUpdate
    <2>2. \A k \in Places : k > 0 => updates'[k] = updates[k]
        BY <1>5, <1>6
    <2>. QED
        BY <1>3, <1>5, <1>6, <2>1, <2>2 DEF OwnerOf, TotalAt
<1>8. PICK q : q = [k \in Places' |-> IF k = last THEN used'[w] ELSE p[k]]
    OBVIOUS
<1>9. PICK c : c = [k \in Places' |-> IF k = last THEN base[w] ELSE b[k]]
    OBVIOUS
<1>10. /\ q \in [Places' -> Nat] /\ c \in [Places' -> Nat]
       /\ q[last] = used'[w] /\ c[last] = base[w]
       /\ \A k \in Places : q[k] = p[k] /\ c[k] = b[k]
    BY <1>1, <1>4, <1>6, <1>8, <1>9 DEF Ledger
<1>11. ASSUME NEW k \in Places, OwnerOf(k) # 0
       PROVE  /\ p[k] \in Nat /\ b[k] \in Nat /\ OwnerOf(k) \in UsageWorkers
              /\ b[k] <= p[k] /\ TotalAt(k) = p[k] - b[k]
              /\ p[k] <= used[OwnerOf(k)] /\ used[OwnerOf(k)] \in Nat
              /\ b[k] = base[OwnerOf(k)] \/ p[k] <= base[OwnerOf(k)]
    <2>1. OwnerOf(k) \in UsageWorkers /\ PostedAt(p, b, k)
        BY <1>1, <1>2, <1>11, OwnersAre DEF Ledger
    <2>. QED
        BY <1>1, <1>2, <1>11, <2>1 DEF PostedAt, Ledger, TotalsTypes
<1>12. ASSUME NEW k \in Places' PROVE PostedAt(q, c, k)'
    <2>1. CASE k = last
        BY <1>3, <1>4, <1>7, <1>10, <2>1 DEF PostedAt
    <2>2. CASE k \in Places /\ OwnerOf(k) # 0
        <3>1. PICK v \in UsageWorkers : v = OwnerOf(k)
            BY <1>11, <2>2
        <3>2. /\ p[k] \in Nat /\ b[k] \in Nat /\ b[k] <= p[k] /\ TotalAt(k) = p[k] - b[k]
              /\ p[k] <= used[v] /\ used[v] \in Nat
              /\ b[k] = base[v] \/ p[k] <= base[v]
            BY <1>11, <2>2, <3>1
        <3>3. used'[v] \in Nat /\ used[v] <= used'[v]
            BY <1>4, <3>2
        <3>4. OwnerOf(k)' = v /\ TotalAt(k)' = p[k] - b[k] /\ q[k] = p[k] /\ c[k] = b[k]
            BY <1>7, <1>10, <2>2, <3>1, <3>2
        <3>. QED
            BY <1>3, <3>2, <3>3, <3>4 DEF PostedAt
    <2>3. CASE k \in Places /\ OwnerOf(k) = 0
        BY <1>7, <2>3 DEF PostedAt
    <2>. QED
        BY <1>6, <2>1, <2>2, <2>3
<1>13. PostedInOrder(q, c)'
    <2>. SUFFICES ASSUME NEW j \in Places', NEW k \in Places', j < k, OwnerOf(j)' = OwnerOf(k)'
                  PROVE  q[j] <= q[k] /\ (c[j] = c[k] \/ q[j] <= c[k])
        BY DEF PostedInOrder
    <2>1. j \in Places
        BY <1>5, <1>6
    <2>2. CASE k = last
        <3>1. OwnerOf(j) = w /\ w # 0
            BY <1>7, <2>1, <2>2 DEF UsageWorkers
        <3>. QED
            BY <1>4, <1>10, <1>11, <2>1, <2>2, <3>1
    <2>3. CASE k \in Places
        BY <1>1, <1>7, <1>10, <2>1, <2>3 DEF PostedInOrder, Ledger
    <2>. QED
        BY <1>6, <2>2, <2>3
<1>14. NoneMissed(q)'
    <2>. SUFFICES ASSUME NEW v \in UsageWorkers, v = OwnerOf(0)
                  PROVE  /\ credited[v] <= q[0]
                         /\ base[v] = 0 => credited[v] = q[0]
                         /\ \/ q[0] = used'[v]
                            \/ \E k \in Places' \ {0} : OwnerOf(k)' = v /\ q[k] = used'[v]
        BY <1>3, <1>6, <1>7 DEF NoneMissed
    <2>1. /\ credited[v] <= p[0] /\ q[0] = p[0]
          /\ base[v] = 0 => credited[v] = p[0]
          /\ \/ p[0] = used[v]
             \/ \E k \in Places \ {0} : OwnerOf(k) = v /\ p[k] = used[v]
        BY <1>1, <1>6, <1>10 DEF NoneMissed, Ledger
    <2>2. CASE v = w
        <3>1. last \in Places' \ {0}
            BY <1>6
        <3>. QED
            BY <1>7, <1>10, <2>1, <2>2, <3>1
    <2>3. CASE v # w
        <3>1. used'[v] = used[v]
            BY <1>4, <2>3
        <3>. QED
            BY <1>6, <1>7, <1>10, <2>1, <3>1
    <2>. QED
        BY <2>2, <2>3
<1>15. Ledger(q, c)'
    BY <1>10, <1>12, <1>13, <1>14, Zenon DEF Ledger
<1>16. CreditWithinUse'
    <2>1. \A v \in UsageWorkers : /\ used[v] \in Nat /\ used'[v] \in Nat
                                  /\ base[v] \in Nat /\ credited[v] \in Nat
        BY <1>2, <1>4 DEF TotalsTypes
    <2>. QED
        BY <1>2, <1>3, <1>4, <2>1 DEF CreditWithinUse
<1>. QED
    BY <1>2, <1>3, <1>15, <1>16 DEF TotalsInv, SumOfSessions

(* What the running entry is given of an update.                           *)
LEMMA UpdateIsTaken ==
    ASSUME TotalsTypes, HandleAgentUpdate, running # 0
    PROVE  \E d \in Nat :
             /\ d = IF updates[1].total > lastSeen THEN updates[1].total - lastSeen ELSE 0
             /\ credited' = [credited EXCEPT ![running] = @ + d]
             /\ aggregate' = aggregate + d
             /\ lastSeen' = updates[1].total
             /\ strayed' = IF updates[1].worker = running THEN strayed ELSE strayed \cup {running}
             /\ updates[1] \in [worker : UsageWorkers, total : Nat]
<1>1. updates # <<>> /\ Head(updates) = updates[1]
    BY DEF HandleAgentUpdate, TotalsTypes
<1>2. updates[1] \in [worker : UsageWorkers, total : Nat]
    <2>1. 1 \in Places \ {0}
        BY <1>1 DEF Places, TotalsTypes
    <2>. QED
        BY <2>1, OwnersAre
<1>3. PICK d : d = TokenDelta(updates[1].total)
    OBVIOUS
<1>4. d = (IF updates[1].total > lastSeen THEN updates[1].total - lastSeen ELSE 0) /\ d \in Nat
    BY <1>2, <1>3 DEF TokenDelta, TotalsTypes
<1>5. /\ credited' = [credited EXCEPT ![running] = @ + d] /\ aggregate' = aggregate + d
      /\ lastSeen' = updates[1].total
      /\ strayed' = IF updates[1].worker = running THEN strayed ELSE strayed \cup {running}
    BY <1>1, <1>3, Zenon DEF HandleAgentUpdate, ApplyTokenTotals
<1>. QED
    BY <1>2, <1>4, <1>5

LEMMA TotalsTypesStep ==
    ASSUME TotalsTypes, CreditWithinUse, [TotalsNext]_totalsVars
    PROVE  TotalsTypes'
<1>1. ASSUME NEW w \in UsageWorkers, NEW n \in 0 .. 1, Report(w, n) PROVE TotalsTypes'
    <2>1. /\ used[w] \in Nat /\ base[w] \in Nat /\ base[w] <= used[w]
          /\ used' = [used EXCEPT ![w] = used[w] + n]
          /\ UNCHANGED <<alive, running, credited, lastSeen, aggregate, base, inFront, told, strayed>>
          /\ updates' = Append(updates, AgentUpdate(w)) /\ posted' = posted + 1
        BY <1>1 DEF Report, TotalsTypes, CreditWithinUse
    <2>2. used' \in [UsageWorkers -> Nat] /\ used'[w] = used[w] + n
        BY <2>1 DEF TotalsTypes
    <2>3. AgentUpdate(w) \in [worker : UsageWorkers, total : Nat]
        BY <2>1, <2>2 DEF AgentUpdate
    <2>4. updates' \in Seq([worker : UsageWorkers, total : Nat])
        BY <2>1, <2>3 DEF TotalsTypes
    <2>. QED
        BY <2>1, <2>2, <2>4 DEF TotalsTypes
<1>2. ASSUME HandleAgentUpdate PROVE TotalsTypes'
    <2>1. /\ updates' \in Seq([worker : UsageWorkers, total : Nat])
          /\ UNCHANGED <<alive, running, used, base, posted, told>>
          /\ inFront' \in Nat \cup {NoExit}
        BY <1>2 DEF HandleAgentUpdate, TotalsTypes, NoExit
    <2>2. CASE running = 0
        <3>1. UNCHANGED <<credited, aggregate, lastSeen, strayed>>
            BY <1>2, <2>2, Zenon DEF HandleAgentUpdate
        <3>. QED
            BY <2>1, <3>1 DEF TotalsTypes
    <2>3. CASE running # 0
        <3>1. running \in UsageWorkers /\ credited[running] \in Nat
            BY <2>3 DEF TotalsTypes
        <3>. QED
            <4>1. PICK d \in Nat :
                     /\ credited' = [credited EXCEPT ![running] = @ + d]
                     /\ aggregate' = aggregate + d
                     /\ lastSeen' = updates[1].total
                     /\ strayed' \in {strayed, strayed \cup {running}}
                     /\ updates[1] \in [worker : UsageWorkers, total : Nat]
                BY <1>2, <2>3, UpdateIsTaken
            <4>2. lastSeen' \in Nat /\ aggregate' \in Nat /\ strayed' \subseteq UsageWorkers
                BY <3>1, <4>1 DEF TotalsTypes
            <4>3. credited' \in [UsageWorkers -> Nat]
                <5>1. credited \in [UsageWorkers -> Nat]
                    BY DEF TotalsTypes
                <5>. QED
                    BY <3>1, <4>1, <5>1
            <4>. QED
                BY <2>1, <4>2, <4>3 DEF TotalsTypes
    <2>. QED
        BY <2>2, <2>3
<1>3. ASSUME NEW w \in UsageWorkers, DispatchWorker(w) PROVE TotalsTypes'
    BY <1>3 DEF DispatchWorker, TotalsTypes
<1>6. ASSUME NEW w \in UsageWorkers, ThreadRestarts(w) PROVE TotalsTypes'
    <2>1. /\ base' = [base EXCEPT ![w] = used[w]] /\ used[w] \in Nat
          /\ base \in [UsageWorkers -> Nat]
          /\ UNCHANGED <<alive, running, updates, credited, lastSeen, aggregate, used, posted, inFront,
                         told, strayed>>
        BY <1>6 DEF ThreadRestarts, TotalsTypes
    <2>2. base' \in [UsageWorkers -> Nat]
        BY <2>1
    <2>. QED
        BY <2>1, <2>2 DEF TotalsTypes
<1>4. ASSUME NEW w \in UsageWorkers, WorkerDone(w) PROVE TotalsTypes'
    <2>1. inFront' \in {inFront, Len(updates)}
        BY <1>4, Zenon DEF WorkerDone
    <2>2. /\ alive' \subseteq alive
          /\ UNCHANGED <<running, updates, credited, lastSeen, aggregate, used, base, posted, told,
                         strayed>>
        BY <1>4, Zenon DEF WorkerDone
    <2>. QED
        BY <2>1, <2>2 DEF TotalsTypes
<1>5. ASSUME TerminateWorker \/ HandleWorkerExit \/ UNCHANGED totalsVars PROVE TotalsTypes'
    BY <1>5 DEF TerminateWorker, HandleWorkerExit, totalsVars, TotalsTypes
<1>. QED
    BY <1>1, <1>2, <1>3, <1>4, <1>5, <1>6 DEF TotalsNext

LEMMA HandleUpdateKeeps == ASSUME TotalsInv, TotalsTypes', HandleAgentUpdate PROVE TotalsInv'
<1>1. PICK p, b : Ledger(p, b)
    BY DEF TotalsInv
<1>2. TotalsTypes /\ CreditWithinUse /\ SumOfSessions
    BY DEF TotalsInv
<1>3. /\ updates # <<>> /\ updates' = Tail(updates)
      /\ UNCHANGED <<running, used, base>>
    BY DEF HandleAgentUpdate
<1>4. 0 \in Places /\ 1 \in Places /\ 0 < 1 /\ 0 \in Places' /\ 0 \notin UsageWorkers
    <2>1. Len(updates) \in Nat \ {0} /\ Len(Tail(updates)) = Len(updates) - 1
        BY <1>2, <1>3 DEF TotalsTypes
    <2>2. Len(updates') = Len(updates) - 1
        BY <1>3, <2>1
    <2>. QED
        BY <2>1, <2>2 DEF Places, UsageWorkers
<1>5. OwnerOf(1) = updates[1].worker
    BY DEF OwnerOf
<1>6. ASSUME OwnerOf(0)' = 0, SumOfSessions', CreditWithinUse' PROVE TotalsInv'
    <2>1. PICK q, c : /\ q \in [Places' -> Nat] /\ c \in [Places' -> Nat]
                      /\ \A k \in Places' : PostedAt(q, c, k)'
                      /\ PostedInOrder(q, c)'
        BY <1>1, <1>2, <1>3, <1>6, OldestIsTaken
    <2>2. NoneMissed(q)'
        BY <1>4, <1>6 DEF NoneMissed
    <2>3. Ledger(q, c)'
        BY <2>1, <2>2, Zenon DEF Ledger
    <2>. QED
        BY <1>6, <2>3 DEF TotalsInv
<1>7. CASE running = 0
    <2>1. UNCHANGED <<credited, aggregate, lastSeen, strayed>>
        BY <1>7, Zenon DEF HandleAgentUpdate
    <2>2. OwnerOf(0)' = 0
        BY <1>3, <1>7 DEF OwnerOf
    <2>. QED
        BY <1>2, <1>3, <1>6, <2>1, <2>2 DEF SumOfSessions, CreditWithinUse
<1>8. CASE running # 0
    <2>1. PICK d \in Nat :
             /\ d = IF updates[1].total > lastSeen THEN updates[1].total - lastSeen ELSE 0
             /\ credited' = [credited EXCEPT ![running] = @ + d]
             /\ aggregate' = aggregate + d
             /\ lastSeen' = updates[1].total
             /\ strayed' = IF updates[1].worker = running THEN strayed ELSE strayed \cup {running}
             /\ updates[1] \in [worker : UsageWorkers, total : Nat]
        BY <1>2, <1>8, UpdateIsTaken
    <2>2. PICK r \in UsageWorkers : r = running
        BY <1>2, <1>8 DEF TotalsTypes
    <2>3. credited \in [UsageWorkers -> Nat] /\ aggregate \in Nat
        BY <1>2 DEF TotalsTypes
    <2>4. credited' = [credited EXCEPT ![r] = @ + d]
        BY <2>1, <2>2
    <2>5. \A v \in UsageWorkers : credited'[v] = IF v = r THEN credited[v] + d ELSE credited[v]
        BY <2>3, <2>4
    <2>6. SumOfSessions'
        <3>1. Credits([credited EXCEPT ![r] = @ + d]) = Credits(credited) + d
            BY <2>3, CreditAdds
        <3>2. aggregate' = Credits([credited EXCEPT ![r] = @ + d])
            BY <1>2, <2>1, <3>1 DEF SumOfSessions
        <3>. QED
            BY <2>4, <3>2, Zenon DEF SumOfSessions
    <2>7. CASE updates[1].worker # r \/ r \in strayed
        <3>1. r \in strayed' /\ strayed \subseteq strayed' /\ running' = r
            BY <1>3, <2>1, <2>2, <2>7
        <3>2. OwnerOf(0)' = 0
            BY <3>1 DEF OwnerOf
        <3>3. CreditWithinUse'
            BY <1>2, <1>3, <2>5, <3>1 DEF CreditWithinUse
        <3>. QED
            BY <1>6, <2>6, <3>2, <3>3
    <2>8. CASE updates[1].worker = r /\ r \notin strayed
        <3>1. strayed' = strayed /\ running' = r
            BY <1>3, <2>1, <2>2, <2>8
        <3>2. OwnerOf(0) = r /\ OwnerOf(0)' = r /\ OwnerOf(1) = r
            BY <1>5, <2>2, <2>8, <3>1 DEF OwnerOf
        <3>3. PICK q, c : /\ q \in [Places' -> Nat] /\ c \in [Places' -> Nat]
                          /\ \A k \in Places' : q[k] = p[k + 1] /\ c[k] = b[k + 1]
                          /\ \A k \in Places' : PostedAt(q, c, k)'
                          /\ PostedInOrder(q, c)'
            <4>1. OwnerOf(0)' = OwnerOf(1) /\ lastSeen' = updates[1].total
                BY <2>1, <3>2
            <4>. QED
                BY <1>1, <1>2, <1>3, <4>1, OldestIsTaken
        <3>4. /\ p[0] \in Nat /\ b[0] \in Nat /\ p[1] \in Nat /\ b[1] \in Nat
              /\ b[0] <= p[0] /\ lastSeen = p[0] - b[0] /\ p[0] <= used[r]
              /\ b[1] <= p[1] /\ updates[1].total = p[1] - b[1] /\ p[1] <= used[r]
              /\ b[0] = base[r] \/ p[0] <= base[r]
              /\ b[1] = base[r] \/ p[1] <= base[r]
            <4>1. r # 0 /\ PostedAt(p, b, 0) /\ PostedAt(p, b, 1)
                BY <1>1, <1>4, <2>2 DEF Ledger
            <4>. QED
                BY <1>1, <1>4, <3>2, <4>1 DEF PostedAt, TotalAt, Ledger
        <3>5. p[0] <= p[1] /\ (b[0] = b[1] \/ p[0] <= b[1])
            BY <1>1, <1>4, <3>2 DEF Ledger, PostedInOrder
        <3>6. /\ credited[r] <= p[0] /\ credited[r] \in Nat
              /\ base[r] = 0 => credited[r] = p[0]
              /\ \/ p[0] = used[r]
                 \/ \E k \in Places \ {0} : OwnerOf(k) = r /\ p[k] = used[r]
            BY <1>1, <2>3, <3>2 DEF NoneMissed, Ledger
        <3>7. base[r] \in Nat /\ used[r] \in Nat
            BY <1>2 DEF TotalsTypes
        <3>8. credited'[r] <= p[1] /\ (base[r] = 0 => credited'[r] = p[1])
            <4>1. credited'[r] = credited[r] + d
                BY <2>5
            <4>. QED
                BY <2>1, <3>4, <3>5, <3>6, <3>7, <4>1
        <3>9. q[0] = p[1]
            BY <1>4, <3>3
        <3>10. \/ q[0] = used[r]
               \/ \E k \in Places' \ {0} : OwnerOf(k)' = r /\ q[k] = used[r]
            <4>1. CASE p[0] = used[r]
                BY <3>4, <3>5, <3>7, <3>9, <4>1
            <4>2. CASE \E k \in Places \ {0} : OwnerOf(k) = r /\ p[k] = used[r]
                <5>1. PICK k \in Places \ {0} : OwnerOf(k) = r /\ p[k] = used[r]
                    BY <4>2
                <5>2. CASE k = 1
                    BY <3>9, <5>1, <5>2
                <5>3. CASE k # 1
                    <6>1. PICK n : n = k - 1
                        OBVIOUS
                    <6>2. /\ n \in Places' \ {0} /\ n + 1 = k /\ k \in 1 .. Len(updates) /\ n > 0
                          /\ updates'[n] = updates[k]
                        BY <1>2, <1>3, <5>3, <6>1 DEF Places, TotalsTypes
                    <6>3. q[n] = p[k]
                        BY <3>3, <6>2
                    <6>4. OwnerOf(n)' = OwnerOf(k)
                        BY <6>2 DEF OwnerOf
                    <6>. QED
                        BY <5>1, <6>2, <6>3, <6>4
                <5>. QED
                    BY <5>2, <5>3
            <4>. QED
                BY <3>6, <4>1, <4>2
        <3>11. NoneMissed(q)'
            <4>. SUFFICES ASSUME NEW v \in UsageWorkers, v = r
                          PROVE  /\ credited'[v] <= q[0]
                                 /\ base[v] = 0 => credited'[v] = q[0]
                                 /\ \/ q[0] = used[v]
                                    \/ \E k \in Places' \ {0} : OwnerOf(k)' = v /\ q[k] = used[v]
                BY <1>3, <3>2 DEF NoneMissed
            <4>. QED
                BY <3>8, <3>9, <3>10
        <3>12. Ledger(q, c)'
            BY <3>3, <3>11, Zenon DEF Ledger
        <3>13. CreditWithinUse'
            <4>1. credited'[r] <= used[r]
                BY <2>5, <2>3, <3>4, <3>7, <3>8
            <4>. QED
                BY <1>2, <1>3, <2>5, <3>1, <4>1 DEF CreditWithinUse
        <3>. QED
            BY <2>6, <3>12, <3>13 DEF TotalsInv
    <2>. QED
        BY <2>7, <2>8
<1>. QED
    BY <1>7, <1>8

LEMMA TotalsInvInit == TotalsInit => TotalsInv
<1>. SUFFICES ASSUME TotalsInit PROVE TotalsInv
    OBVIOUS
<1>1. TotalsTypes
    BY DEF TotalsInit, TotalsTypes
<1>2. SumOfSessions
    BY NoCredits, Zenon DEF TotalsInit, SumOfSessions
<1>3. CreditWithinUse
    BY DEF TotalsInit, CreditWithinUse
<1>4. Places = {0} /\ OwnerOf(0) = 0
    BY DEF TotalsInit, Places, OwnerOf
<1>5. PICK z : z = [k \in Places |-> 0]
    OBVIOUS
<1>6. Ledger(z, z)
    <2>1. z \in [Places -> Nat]
        BY <1>5
    <2>2. \A k \in Places : PostedAt(z, z, k)
        BY <1>4 DEF PostedAt
    <2>3. PostedInOrder(z, z)
        BY <1>4 DEF PostedInOrder
    <2>4. NoneMissed(z)
        BY <1>4 DEF NoneMissed, UsageWorkers
    <2>. QED
        BY <2>1, <2>2, <2>3, <2>4 DEF Ledger
<1>. QED
    BY <1>1, <1>2, <1>3, <1>6 DEF TotalsInv

LEMMA TotalsInvStep == ASSUME TotalsInv, [TotalsNext]_totalsVars PROVE TotalsInv'
<1>1. TotalsTypes'
    BY TotalsTypesStep DEF TotalsInv
<1>2. ASSUME NEW w \in UsageWorkers, DispatchWorker(w) PROVE TotalsInv'
    BY <1>1, <1>2, DispatchKeeps
<1>3. ASSUME NEW w \in UsageWorkers, WorkerDone(w) PROVE TotalsInv'
    BY <1>1, <1>3, EntryEndsKeeps DEF WorkerDone
<1>4. ASSUME NEW w \in UsageWorkers, ThreadRestarts(w) PROVE TotalsInv'
    BY <1>1, <1>4, RestartKeeps
<1>5. ASSUME NEW w \in UsageWorkers, NEW n \in 0 .. 1, Report(w, n) PROVE TotalsInv'
    BY <1>1, <1>5, ReportKeeps
<1>6. ASSUME TerminateWorker \/ HandleWorkerExit PROVE TotalsInv'
    BY <1>1, <1>6, EntryEndsKeeps DEF TerminateWorker, HandleWorkerExit
<1>7. ASSUME HandleAgentUpdate PROVE TotalsInv'
    BY <1>1, <1>7, HandleUpdateKeeps
<1>8. ASSUME UNCHANGED totalsVars PROVE TotalsInv'
    BY <1>1, <1>8, EntryEndsKeeps DEF totalsVars
<1>. QED
    BY <1>2, <1>3, <1>4, <1>5, <1>6, <1>7, <1>8, Zenon DEF TotalsNext

\* The worker of a place is the running entry's or was terminated, and began
\* no later than the running one; an exit has all updates of its worker in
\* front of it; a worker that has left on its own has had all of them taken.
NoneBehind ==
    inFront # NoExit =>
        /\ running # 0 /\ running \notin alive /\ inFront <= Len(updates)
        /\ \A k \in Places \ {0} : k > inFront => updates[k].worker # running

Origins ==
    /\ \A v \in UsageWorkers : v \in alive \/ Pending(v) => v = running \/ v \in told
    /\ running # 0 => \A v \in told : v < running
    /\ \A w \in strayed : \E v \in told : v < w
    /\ NoneBehind

LeftInFull ==
    \A w \in UsageWorkers \ (strayed \cup told) :
        running # w /\ base[w] = 0 => credited[w] = used[w]

LEMMA PendingIs ==
    ASSUME TotalsTypes, NEW v
    PROVE  Pending(v) <=> \E k \in Places \ {0} : updates[k].worker = v
<1>1. DOMAIN updates = 1 .. Len(updates) /\ Len(updates) \in Nat
    BY DEF TotalsTypes
<1>2. DOMAIN updates = Places \ {0}
    BY <1>1 DEF Places
<1>. QED
    BY <1>2, Zenon DEF Pending

LEMMA PendingIsNext ==
    ASSUME TotalsTypes', NEW v
    PROVE  Pending(v)' <=> \E k \in Places' \ {0} : updates'[k].worker = v
<1>1. DOMAIN updates' = 1 .. Len(updates') /\ Len(updates') \in Nat
    BY DEF TotalsTypes
<1>2. DOMAIN updates' = Places' \ {0}
    BY <1>1 DEF Places
<1>. QED
    BY <1>2, Zenon DEF Pending

\* The steps that post nothing and take nothing.
LEMMA OriginsStay ==
    ASSUME TotalsTypes, TotalsTypes', Origins, UNCHANGED <<updates, strayed>>,
           told \subseteq told',
           \A v \in alive' : v \in alive \/ v = running',
           \/ running' = running /\ told' = told
           \/ running' = 0 /\ inFront' = NoExit /\ (running \in told' \/ inFront = 0)
           \/ running = 0 /\ running' \in UsageWorkers /\ told' = told
              /\ \A v \in told : v < running',
           \/ inFront' = inFront /\ alive' \subseteq alive
           \/ inFront' = inFront /\ running = 0
           \/ inFront' = NoExit
           \/ inFront' = Len(updates) /\ running \in alive /\ running \notin alive' /\ running' = running
    PROVE  Origins'
<1>1. Places' = Places /\ \A v : Pending(v)' <=> Pending(v)
    BY DEF Places, Pending
<1>2. Len(updates) \in Nat /\ 0 \notin UsageWorkers /\ NoExit \notin Nat
    BY OwnersAre DEF UsageWorkers, NoExit
<1>3. \A k \in Places \ {0} : k \in 1 .. Len(updates)
    BY <1>2 DEF Places
<1>4. NoneBehind'
    <2>. SUFFICES ASSUME inFront' # NoExit
                  PROVE  /\ running' # 0 /\ running' \notin alive' /\ inFront' <= Len(updates)
                         /\ \A k \in Places \ {0} : k > inFront' => updates[k].worker # running'
        BY <1>1 DEF NoneBehind
    <2>1. CASE inFront' = inFront
        BY <1>2, <2>1 DEF Origins, NoneBehind
    <2>2. CASE inFront' # inFront
        BY <1>2, <1>3, <2>2 DEF TotalsTypes
    <2>. QED
        BY <2>1, <2>2
<1>5. ASSUME inFront = 0 PROVE running \notin alive /\ (running \in UsageWorkers => ~Pending(running))
    <2>1. inFront # NoExit
        BY <1>2, <1>5
    <2>2. running \notin alive /\ \A k \in Places \ {0} : updates[k].worker # running
        BY <1>3, <1>5, <2>1 DEF Origins, NoneBehind
    <2>. QED
        BY <2>2, PendingIs
<1>6. \A v \in UsageWorkers : v \in alive' \/ Pending(v)' => v = running' \/ v \in told'
    <2>. SUFFICES ASSUME NEW v \in UsageWorkers, v # running', v \in alive \/ Pending(v)
                  PROVE  v \in told'
        BY <1>1
    <2>1. v = running \/ v \in told
        BY DEF Origins
    <2>2. CASE v = running /\ v \notin told
        BY <1>2, <1>5, <2>2
    <2>. QED
        BY <2>1, <2>2
<1>7. running' # 0 => \A v \in told' : v < running'
    BY DEF Origins
<1>8. \A w \in strayed' : \E v \in told' : v < w
    BY DEF Origins
<1>. QED
    BY <1>4, <1>6, <1>7, <1>8, Zenon DEF Origins

LEMMA OriginsReport ==
    ASSUME TotalsTypes, TotalsTypes', Origins, NEW w \in UsageWorkers, NEW n \in 0 .. 1, Report(w, n)
    PROVE  Origins'
<1>1. /\ w \in alive /\ updates' = Append(updates, AgentUpdate(w)) /\ AgentUpdate(w).worker = w
      /\ UNCHANGED <<alive, running, inFront, told, strayed>>
    BY DEF Report, AgentUpdate
<1>2. PICK u : u = AgentUpdate(w) /\ u.worker = w
    BY <1>1
<1>3. PICK last : last = Len(updates) + 1
    OBVIOUS
<1>4. /\ Len(updates) \in Nat /\ last \in Nat /\ Len(updates') = last /\ updates'[last].worker = w
      /\ \A k \in 1 .. Len(updates) : updates'[k] = updates[k]
    <2>1. PICK R : updates \in Seq(R)
        BY DEF TotalsTypes
    <2>2. updates' = Append(updates, u)
        BY <1>1, <1>2
    <2>. QED
        BY <1>2, <1>3, <2>1, <2>2
<1>5. Places' \ {0} = (Places \ {0}) \cup {last} /\ \A k \in Places \ {0} : k \in 1 .. Len(updates)
    BY <1>3, <1>4 DEF Places
<1>6. \A k \in Places' \ {0} : updates'[k].worker \in {w} \cup {updates[j].worker : j \in {k} \cap (Places \ {0})}
    BY <1>4, <1>5
<1>7. \A v : Pending(v)' => v = w \/ Pending(v)
    <2>1. \A v : Pending(v)' => \E k \in Places' \ {0} : updates'[k].worker = v
        BY PendingIsNext
    <2>. QED
        BY <1>6, <2>1, PendingIs
<1>8. NoneBehind'
    <2>1. ASSUME inFront # NoExit PROVE w # running
        BY <1>1, <2>1 DEF Origins, NoneBehind
    <2>. SUFFICES ASSUME inFront # NoExit
                  PROVE  /\ running # 0 /\ running \notin alive /\ inFront <= Len(updates')
                         /\ \A k \in Places' \ {0} : k > inFront => updates'[k].worker # running
        BY <1>1 DEF NoneBehind
    <2>2. /\ running # 0 /\ running \notin alive /\ inFront <= Len(updates) /\ inFront \in Nat
          /\ \A k \in Places \ {0} : k > inFront => updates[k].worker # running
        BY DEF Origins, NoneBehind, TotalsTypes
    <2>3. ASSUME NEW k \in Places' \ {0}, k > inFront PROVE updates'[k].worker # running
        BY <1>4, <1>5, <2>1, <2>2, <2>3
    <2>4. inFront <= Len(updates')
        BY <1>3, <1>4, <2>2
    <2>. QED
        BY <2>2, <2>3, <2>4
<1>. QED
    BY <1>1, <1>7, <1>8 DEF Origins

LEMMA OriginsTaken ==
    ASSUME TotalsTypes, TotalsTypes', Origins, HandleAgentUpdate
    PROVE  Origins'
<1>1. /\ updates # <<>> /\ inFront # 0 /\ updates' = Tail(updates)
      /\ UNCHANGED <<alive, running, told>>
    BY DEF HandleAgentUpdate
<1>2. \/ inFront = NoExit /\ inFront' = NoExit
      \/ inFront \in Nat \ {0} /\ inFront' = inFront - 1
    <2>1. inFront' = IF inFront = NoExit THEN NoExit ELSE inFront - 1
        BY Zenon DEF HandleAgentUpdate
    <2>2. inFront \in Nat \cup {NoExit}
        BY DEF TotalsTypes
    <2>. QED
        BY <1>1, <2>1, <2>2
<1>3. /\ Len(updates) \in Nat \ {0} /\ Len(updates') = Len(updates) - 1
      /\ \A k \in 1 .. Len(updates') : updates'[k] = updates[k + 1]
    BY <1>1 DEF TotalsTypes
<1>4. /\ 1 \in Places \ {0} /\ updates[1].worker \in UsageWorkers
      /\ \A k \in Places' \ {0} : /\ k \in Nat /\ k + 1 \in Places \ {0}
                                    /\ updates'[k] = updates[k + 1]
    <2>1. 1 \in Places \ {0}
        BY <1>3 DEF Places
    <2>2. updates[1].worker \in UsageWorkers
        BY <2>1, OwnersAre
    <2>. QED
        BY <1>3, <2>1, <2>2 DEF Places
<1>5. \A v : Pending(v)' => Pending(v)
    <2>1. \A v : Pending(v)' => \E k \in Places' \ {0} : updates'[k].worker = v
        BY PendingIsNext
    <2>. QED
        BY <1>4, <2>1, PendingIs
<1>6. NoneBehind'
    <2>1. CASE inFront' = NoExit
        BY <2>1 DEF NoneBehind
    <2>2. CASE inFront \in Nat \ {0} /\ inFront' = inFront - 1
        <3>1. inFront # NoExit
            BY <2>2 DEF NoExit
        <3>2. /\ running # 0 /\ running \notin alive /\ inFront <= Len(updates)
              /\ \A k \in Places \ {0} : k > inFront => updates[k].worker # running
            BY <3>1 DEF Origins, NoneBehind
        <3>3. ASSUME NEW k \in Places' \ {0}, k > inFront' PROVE updates'[k].worker # running
            BY <1>4, <2>2, <3>2, <3>3
        <3>4. inFront' <= Len(updates')
            BY <1>3, <2>2, <3>2
        <3>. QED
            BY <1>1, <3>2, <3>3, <3>4 DEF NoneBehind
    <2>. QED
        BY <1>2, <2>1, <2>2
<1>7. \A w \in strayed' : \E v \in told : v < w
    <2>1. CASE running = 0
        <3>1. strayed' = strayed
            BY <2>1, Zenon DEF HandleAgentUpdate
        <3>. QED
            BY <3>1 DEF Origins
    <2>2. CASE running # 0
        <3>1. PICK from : from = updates[1].worker /\ from \in UsageWorkers
            BY <1>4
        <3>2. strayed' = IF from = running THEN strayed ELSE strayed \cup {running}
            BY <2>2, <3>1, UpdateIsTaken
        <3>3. from # running => from \in told /\ from < running
            <4>1. Pending(from)
                BY <1>4, <3>1, PendingIs
            <4>. QED
                BY <2>2, <3>1, <4>1 DEF Origins
        <3>. QED
            BY <3>2, <3>3 DEF Origins
    <2>. QED
        BY <2>1, <2>2
<1>. QED
    BY <1>1, <1>5, <1>6, <1>7 DEF Origins

LEMMA OriginsStep ==
    ASSUME TotalsTypes, TotalsTypes', Origins, [TotalsNext]_totalsVars
    PROVE  Origins'
<1>1. ASSUME NEW w \in UsageWorkers, DispatchWorker(w) PROVE Origins'
    <2>1. /\ running = 0 /\ running' = w /\ alive' = alive \cup {w}
          /\ UNCHANGED <<updates, inFront, told, strayed>>
          /\ \A v \in told : v < w
        BY <1>1 DEF DispatchWorker, HasBegun, TotalsTypes
    <2>. QED
        BY <2>1, OriginsStay
<1>2. ASSUME NEW w \in UsageWorkers, WorkerDone(w) PROVE Origins'
    <2>1. /\ w \in alive /\ alive' = alive \ {w}
          /\ UNCHANGED <<running, updates, told, strayed>>
        BY <1>2 DEF WorkerDone
    <2>2. \/ running = w /\ inFront' = Len(updates)
          \/ inFront' = inFront
        BY <1>2, Zenon DEF WorkerDone
    <2>. QED
        BY <2>1, <2>2, OriginsStay
<1>3. ASSUME NEW w \in UsageWorkers, ThreadRestarts(w) PROVE Origins'
    <2>1. UNCHANGED <<alive, running, updates, inFront, told, strayed>>
        BY <1>3 DEF ThreadRestarts
    <2>. QED
        BY <2>1, OriginsStay
<1>4. ASSUME NEW w \in UsageWorkers, NEW n \in 0 .. 1, Report(w, n) PROVE Origins'
    BY <1>4, OriginsReport
<1>5. ASSUME TerminateWorker PROVE Origins'
    <2>1. /\ running' = 0 /\ told' = told \cup {running} /\ inFront' = NoExit
          /\ UNCHANGED <<alive, updates, strayed>>
        BY <1>5 DEF TerminateWorker
    <2>. QED
        BY <2>1, OriginsStay
<1>6. ASSUME HandleWorkerExit PROVE Origins'
    <2>1. /\ inFront = 0 /\ running' = 0 /\ inFront' = NoExit
          /\ UNCHANGED <<alive, updates, told, strayed>>
        BY <1>6 DEF HandleWorkerExit
    <2>. QED
        BY <2>1, OriginsStay
<1>7. ASSUME HandleAgentUpdate PROVE Origins'
    BY <1>7, OriginsTaken
<1>8. ASSUME UNCHANGED totalsVars PROVE Origins'
    <2>1. UNCHANGED <<alive, running, updates, inFront, told, strayed>>
        BY <1>8 DEF totalsVars
    <2>. QED
        BY <2>1, OriginsStay
<1>. QED
    BY <1>1, <1>2, <1>3, <1>4, <1>5, <1>6, <1>7, <1>8, Zenon DEF TotalsNext

\* The entry whose updates are all in, and whose thread did not restart, has
\* counted every one.
LEMMA CountedInFull ==
    ASSUME TotalsInv, NEW w \in UsageWorkers \ strayed, running = w, ~Pending(w), base[w] = 0
    PROVE  credited[w] = used[w]
<1>1. PICK p, b : Ledger(p, b)
    BY DEF TotalsInv
<1>2. OwnerOf(0) = w
    BY DEF OwnerOf
<1>3. \A k \in Places \ {0} : OwnerOf(k) # w
    <2>1. \A k \in Places \ {0} : k > 0 /\ k \in DOMAIN updates
        BY DEF Places, TotalsInv, TotalsTypes
    <2>. QED
        BY <2>1 DEF Pending, OwnerOf
<1>. QED
    BY <1>1, <1>2, <1>3 DEF Ledger, NoneMissed

LEMMA LeftInFullStep ==
    ASSUME TotalsInv, TotalsTypes', Origins, LeftInFull, [TotalsNext]_totalsVars
    PROVE  LeftInFull'
<1>0. TotalsTypes
    BY DEF TotalsInv
<1>. SUFFICES ASSUME NEW w \in UsageWorkers, w \notin strayed', w \notin told',
                     running' # w, base'[w] = 0
              PROVE  credited'[w] = used'[w]
    BY DEF LeftInFull
<1>1. CASE running # w /\ w \notin strayed /\ w \notin told
    <2>1. w \notin alive
        BY <1>1 DEF Origins
    <2>2. used'[w] = used[w] /\ base'[w] = base[w]
        <3>1. ASSUME NEW v \in UsageWorkers, NEW n \in 0 .. 1, Report(v, n)
              PROVE  used'[w] = used[w] /\ base'[w] = base[w]
            BY <1>0, <2>1, <3>1 DEF Report, TotalsTypes
        <3>2. ASSUME NEW v \in UsageWorkers, ThreadRestarts(v)
              PROVE  used'[w] = used[w] /\ base'[w] = base[w]
            BY <1>0, <2>1, <3>2 DEF ThreadRestarts, TotalsTypes
        <3>3. ASSUME UNCHANGED <<used, base>>
              PROVE  used'[w] = used[w] /\ base'[w] = base[w]
            BY <3>3
        <3>. QED
            BY <3>1, <3>2, <3>3, Zenon
            DEF TotalsNext, totalsVars, DispatchWorker, WorkerDone, TerminateWorker,
                HandleWorkerExit, HandleAgentUpdate
    <2>3. credited'[w] = credited[w]
        <3>1. CASE HandleAgentUpdate /\ running # 0
            <4>1. PICK d \in Nat : credited' = [credited EXCEPT ![running] = @ + d]
                BY <1>0, <3>1, UpdateIsTaken
            <4>. QED
                BY <1>0, <1>1, <4>1 DEF TotalsTypes
        <3>2. CASE HandleAgentUpdate /\ running = 0
            BY <3>2, Zenon DEF HandleAgentUpdate
        <3>3. CASE ~HandleAgentUpdate
            BY <3>3, Zenon
            DEF TotalsNext, totalsVars, DispatchWorker, WorkerDone, TerminateWorker,
                HandleWorkerExit, Report, ThreadRestarts
        <3>. QED
            BY <3>1, <3>2, <3>3
    <2>. QED
        BY <1>1, <2>2, <2>3 DEF LeftInFull
<1>2. CASE running = w
    <2>1. HandleWorkerExit
        <3>1. ASSUME NEW v \in UsageWorkers
              PROVE  ~DispatchWorker(v) /\ ~WorkerDone(v) /\ ~ThreadRestarts(v)
                     /\ \A n \in 0 .. 1 : ~Report(v, n)
            BY <1>2 DEF DispatchWorker, WorkerDone, ThreadRestarts, Report, UsageWorkers
        <3>2. ~TerminateWorker /\ ~HandleAgentUpdate /\ ~UNCHANGED totalsVars
            BY <1>2 DEF TerminateWorker, HandleAgentUpdate, totalsVars
        <3>. QED
            BY <3>1, <3>2, Zenon DEF TotalsNext
    <2>2. inFront = 0 /\ UNCHANGED <<credited, used, base, told, strayed>>
        BY <2>1 DEF HandleWorkerExit
    <2>3. ~Pending(w)
        <3>1. \A k \in Places \ {0} : k > 0
            BY DEF Places
        <3>2. \A k \in Places \ {0} : updates[k].worker # running
            BY <2>2, <3>1 DEF Origins, NoneBehind, NoExit
        <3>. QED
            BY <1>0, <1>2, <3>2, PendingIs
    <2>. QED
        BY <1>2, <2>2, <2>3, CountedInFull
<1>3. strayed \subseteq strayed' /\ told \subseteq told'
    <2>1. CASE HandleAgentUpdate
        BY <2>1 DEF HandleAgentUpdate
    <2>2. CASE TerminateWorker
        BY <2>2 DEF TerminateWorker
    <2>3. CASE ~HandleAgentUpdate /\ ~TerminateWorker
        BY <2>3, Zenon
        DEF TotalsNext, totalsVars, DispatchWorker, WorkerDone, HandleWorkerExit, Report,
            ThreadRestarts
    <2>. QED
        BY <2>1, <2>2, <2>3
<1>. QED
    BY <1>1, <1>2, <1>3

(* apply_token_totals: the aggregate is the sum of what the sessions were  *)
(* credited; whatever is repeated and wherever a thread restarts, an       *)
(* unstrayed session never counts a token twice, and one that was not      *)
(* terminated, whose thread did not restart and whose updates are all in   *)
(* has counted every one; only a session after a terminated worker strays. *)
THEOREM TokensAreCountedOnce == TotalsSpec => []NothingCountedTwice
<1>1. ASSUME TotalsInv, Origins, LeftInFull PROVE NothingCountedTwice
    <2>1. ASSUME NEW w \in UsageWorkers \ strayed, w \notin told, ~Pending(w), base[w] = 0
          PROVE  credited[w] = used[w]
        BY <1>1, <2>1, CountedInFull DEF LeftInFull
    <2>. QED
        BY <1>1, <2>1 DEF TotalsInv, CreditWithinUse, Origins, NothingCountedTwice
<1>2. TotalsInit => Origins /\ LeftInFull
    <2>. SUFFICES ASSUME TotalsInit PROVE Origins /\ LeftInFull
        OBVIOUS
    <2>1. \A v : ~Pending(v)
        BY DEF TotalsInit, Pending
    <2>. QED
        BY <2>1 DEF TotalsInit, Origins, NoneBehind, LeftInFull
<1>3. TotalsInv /\ Origins /\ LeftInFull /\ [TotalsNext]_totalsVars
        => (TotalsInv /\ Origins /\ LeftInFull)'
    BY TotalsInvStep, OriginsStep, LeftInFullStep DEF TotalsInv
<1>. QED
    BY <1>1, <1>2, <1>3, TotalsInvInit, PTL DEF TotalsSpec

=============================================================================
