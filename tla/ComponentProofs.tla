--------------------------- MODULE ComponentProofs ---------------------------
(***************************************************************************)
(* Theorems about the rules that have no steps (WorkspacePaths,            *)
(* ApprovalRules, TrackerRules), and about the components side by side as  *)
(* ComponentsMC runs them: their types, and that each of them is the       *)
(* component the other theorems are about.                                 *)
(***************************************************************************)
EXTENDS ComponentsMC, ServiceProofs, OutsideProofs, CountingProofs

-----------------------------------------------------------------------------
(* WorkspacePaths                                                          *)

\* An identifier that is its own key is what the file system makes of it.
LEMMA PlainKeysStay ==
    ASSUME NEW id, ~FoldsAmbiguously(id)
    PROVE  OnDisk(id) = id
    BY Zenon DEF FoldsAmbiguously, OnDisk

LEMMA LettersAre ==
    /\ \A x : Digest(x) \notin {Letter("A"), Letter("."), Letter("/"), Letter("-")}
    /\ \A x, y : Digest(x) = Digest(y) => x = y
<1>1. ASSUME NEW x, NEW c PROVE Digest(x) # Letter(c)
    <2>1. DOMAIN Digest(x) = {"digest"} /\ DOMAIN Letter(c) = {"letter"}
        BY DEF Digest, Letter
    <2>. QED
        BY <2>1
<1>2. ASSUME NEW x, NEW y, Digest(x) = Digest(y) PROVE x = y
    <2>1. Digest(x).digest = x /\ Digest(y).digest = y
        BY DEF Digest
    <2>. QED
        BY <1>2, <2>1, Zenon
<1>3. \A x : Digest(x) \notin {Letter("A"), Letter("."), Letter("/"), Letter("-")}
    BY <1>1
<1>. QED
    BY <1>2, <1>3, Zenon

\* Sanitizing is letter by letter.
LEMMA SanitizedIs ==
    ASSUME NEW S, NEW id \in Seq(S)
    PROVE  Sanitize(id) \in Seq(S \cup {Letter("underscore")}) /\ Len(Sanitize(id)) = Len(id)
<1>. DEFINE T == S \cup {Letter("underscore")}
            made(n) == IF id[n] = Letter("/") THEN Letter("underscore") ELSE id[n]
            name == [n \in 1 .. Len(id) |-> made(n)]
<1>1. Len(id) \in Nat /\ DOMAIN id = 1 .. Len(id) /\ \A n \in 1 .. Len(id) : id[n] \in S
    OBVIOUS
<1>2. \A n \in 1 .. Len(id) : made(n) \in T
    BY <1>1
<1>3. Sanitize(id) = name
    BY <1>1, Zenon DEF Sanitize
<1>. HIDE DEF T, made
<1>4. name \in Seq(T) /\ Len(name) = Len(id)
    BY <1>1, <1>2
<1>. QED
    BY <1>3, <1>4 DEF T

\* Neither the folding of case nor the loss of trailing dots takes the digest
\* off a text that ends in it.
LEMMA DigestsStay ==
    ASSUME NEW T, NEW text \in Seq(T), NEW id, text # <<>>, Last(text) = Digest(id)
    PROVE  Last(OnDisk(text)) = Digest(id)
<1>. DEFINE n == Len(text)
            kept == {k \in DOMAIN text : text[k] # Letter(".")}
            last == CHOOSE k \in kept : \A j \in kept : j <= k
            folded(k) == IF text[k] = Letter("A") THEN Letter("a") ELSE text[k]
<1>1. n \in Nat \ {0} /\ DOMAIN text = 1 .. n /\ n \in 1 .. n /\ text[n] = Digest(id)
    BY DEF Last
<1>2. Digest(id) # Letter(".") /\ Digest(id) # Letter("A")
    BY LettersAre
<1>3. n \in kept /\ \A k \in kept : k <= n /\ k \in Nat
    BY <1>1, <1>2
<1>4. StripDots(text) = SubSeq(text, 1, IF kept = {} THEN 0 ELSE last)
    BY Zenon DEF StripDots
<1>. HIDE DEF kept
<1>5. last \in kept /\ \A j \in kept : j <= last
    BY <1>3, Zenon
<1>. HIDE DEF last
<1>6. last = n
    BY <1>1, <1>3, <1>5
<1>7. StripDots(text) = SubSeq(text, 1, n)
    BY <1>3, <1>4, <1>6, Zenon
<1>8. SubSeq(text, 1, n) = text
    OBVIOUS
<1>9. OnDisk(text) = CaseFold(text)
    BY <1>7, <1>8, Zenon DEF OnDisk
<1>10. CaseFold(text) = [k \in 1 .. n |-> folded(k)]
    BY <1>1, Zenon DEF CaseFold
<1>11. folded(n) = Digest(id)
    BY <1>1, <1>2
<1>. HIDE DEF folded, n
<1>12. Len([k \in 1 .. n |-> folded(k)]) = n
    BY <1>1
<1>13. [k \in 1 .. n |-> folded(k)][n] = Digest(id)
    BY <1>1, <1>11
<1>. QED
    BY <1>9, <1>10, <1>12, <1>13, Zenon DEF Last

LEMMA ConcatenatedIs ==
    ASSUME NEW T, NEW s \in Seq(T), NEW e \in Seq(T), Len(e) = 2
    PROVE  /\ s \o e \in Seq(T) /\ s \o e # <<>>
           /\ Last(s \o e) = e[2]
<1>. DEFINE whole == s \o e
<1>1. Len(s) \in Nat
    OBVIOUS
<1>2. /\ whole \in Seq(T) /\ Len(whole) = Len(s) + Len(e)
      /\ \A i \in 1 .. Len(s) + Len(e) : whole[i] = IF i <= Len(s) THEN s[i] ELSE e[i - Len(s)]
    BY ConcatProperties, Zenon
<1>. HIDE DEF whole
<1>3. whole[Len(s) + 2] = e[2] /\ Len(whole) = Len(s) + 2
    BY <1>1, <1>2
<1>4. whole # <<>>
    BY <1>1, <1>3
<1>5. whole \in Seq(T) /\ whole # <<>> /\ Last(whole) = e[2]
    BY <1>2, <1>3, <1>4, Zenon DEF Last
<1>. QED
    BY <1>5, Zenon DEF whole

LEMMA DigestedIs ==
    ASSUME NEW S, NEW id \in Seq(S)
    PROVE  /\ Digested(id) \in Seq(S \cup {Letter("underscore"), Letter("-"), Digest(id)})
           /\ Digested(id) # <<>> /\ Last(Digested(id)) = Digest(id)
<1>. DEFINE T == S \cup {Letter("underscore"), Letter("-"), Digest(id)}
            name == Sanitize(id)
<1>1. name \in Seq(S \cup {Letter("underscore")})
    BY SanitizedIs
<1>2. PICK dash \in T, digest \in T : dash = Letter("-") /\ digest = Digest(id)
    BY Zenon DEF T
<1>. HIDE DEF name
<1>3. name \in Seq(T)
    BY <1>1
<1>. HIDE DEF T
<1>4. PICK end : end = <<dash, digest>>
    OBVIOUS
<1>5. end \in Seq(T) /\ Len(end) = 2 /\ end[2] = digest
    BY <1>4
<1>6. /\ name \o end \in Seq(T) /\ name \o end # <<>>
      /\ Last(name \o end) = digest
    BY <1>3, <1>5, ConcatenatedIs, Zenon
<1>7. Digested(id) = name \o end
    BY <1>2, <1>4, Zenon DEF Digested, name
<1>. QED
    BY <1>2, <1>6, <1>7, Zenon DEF T

(* workspace_key: two issues whose identifiers differ share a directory    *)
(* only if one identifier ends in the digest of the other, on a file       *)
(* system that folds case and drops trailing dots either: for identifiers  *)
(* of every length and over every alphabet.                                *)
THEOREM KeysAreApart ==
    \A S : \A id, other \in Seq(S) \ {<<>>} : KeysNeverMeet(id, other)
<1>. SUFFICES ASSUME NEW S, NEW id \in Seq(S) \ {<<>>}, NEW other \in Seq(S) \ {<<>>},
                     id # other, Last(id) # Digest(other), Last(other) # Digest(id)
              PROVE  OnDisk(WorkspaceKey(id)) # OnDisk(WorkspaceKey(other))
    BY DEF KeysNeverMeet
<1>1. ASSUME NEW x \in Seq(S) \ {<<>>}
      PROVE  \/ OnDisk(WorkspaceKey(x)) = x
             \/ Last(OnDisk(WorkspaceKey(x))) = Digest(x)
    <2>1. Last(OnDisk(Digested(x))) = Digest(x)
        BY DigestedIs, DigestsStay
    <2>. QED
        BY <2>1, PlainKeysStay, Zenon DEF WorkspaceKey
<1>. QED
    BY <1>1, LettersAre, Zenon

-----------------------------------------------------------------------------
(* ApprovalRules                                                           *)

(* decide_approval, for requests whose levels hint at several kinds at     *)
(* once and for envelopes of every depth.                                  *)
THEOREM NothingIsApprovedUnread ==
    \A depths \in SUBSET Nat :
        \A request \in [depths -> [names : SUBSET Kinds, keys : SUBSET Kinds]] :
            NothingApprovedUnread(request)
<1>. SUFFICES ASSUME NEW request
              PROVE  NothingApprovedUnread(request)
    OBVIOUS
<1>. DEFINE kind == ClassifyApproval(request)
<1>1. /\ IsApproval(TrustedAutoApprove(kind)) => kind \in {"command_execution", "file_change"}
      /\ ~IsApproval(DenyAll(kind))
    BY DEF IsApproval, TrustedAutoApprove, DenyAll
<1>2. kind \in {"command_execution", "file_change"} =>
         /\ kind \in NameHints(request) \cup KeyHints(request)
         /\ "user_input" \notin NameHints(request)
    <2>. DEFINE names == NameHints(request)
                keys == KeyHints(request)
    <2>. HIDE DEF names, keys
    <2>1. kind = FirstKind(names, "user_input", "file_change", "command_execution",
                    FirstKind(keys, "file_change", "command_execution", "user_input", "unknown"))
        BY DEF ClassifyApproval, names, keys
    <2>. QED
        BY <2>1 DEF FirstKind, names, keys
<1>. HIDE DEF kind
<1>3. kind = ClassifyApproval(request)
    BY DEF kind
<1>. QED
    BY <1>1, <1>2, <1>3, Zenon DEF NothingApprovedUnread

-----------------------------------------------------------------------------
(* WorkspacePaths: where links lead                                        *)

\* at holds where the walk along a path is after each of its components.
WalkTo(at, links, path, n) ==
    at = [k \in 0 .. n |-> IF k = 0 THEN <<>> ELSE Enter(links, at[k - 1], path[k])]

LEMMA WalksExist ==
    ASSUME NEW links, NEW path, NEW n \in Nat
    PROVE  \E at : WalkTo(at, links, path, n)
<1>. DEFINE S == {k \in Nat : \E at : WalkTo(at, links, path, k)}
<1>1. 0 \in S
    <2>1. WalkTo([w \in 0 .. 0 |-> <<>>], links, path, 0)
        BY DEF WalkTo
    <2>. QED
        BY <2>1
<1>2. ASSUME NEW k \in Nat, k \in S PROVE k + 1 \in S
    <2>1. PICK at : WalkTo(at, links, path, k)
        BY <1>2
    <2>. DEFINE longer == [w \in 0 .. k + 1 |->
                             IF w = k + 1 THEN Enter(links, at[k], path[k + 1]) ELSE at[w]]
    <2>2. \A w \in 0 .. k :
            longer[w] = at[w] /\ at[w] = IF w = 0 THEN <<>> ELSE Enter(links, at[w - 1], path[w])
        BY <2>1 DEF WalkTo
    <2>3. ASSUME NEW w \in 0 .. k + 1
          PROVE  longer[w] = IF w = 0 THEN <<>> ELSE Enter(links, longer[w - 1], path[w])
        <3>1. CASE w = k + 1
            BY <3>1, <2>2
        <3>2. CASE w # k + 1
            <4>1. w \in 0 .. k /\ (w # 0 => w - 1 \in 0 .. k)
                BY <3>2
            <4>. HIDE DEF longer
            <4>. QED
                BY <4>1, <2>2
        <3>. QED
            BY <3>1, <3>2
    <2>4. WalkTo(longer, links, path, k + 1)
        BY <2>3 DEF WalkTo
    <2>. HIDE DEF longer
    <2>. QED
        BY <2>4
<1>. HIDE DEF S
<1>3. \A k \in Nat : k \in S
    BY <1>1, <1>2, SetInduction
<1>. QED
    BY <1>3 DEF S

StepByStep(at, links, path, n) ==
    at[0] = <<>> /\ \A k \in 1 .. n : at[k] = Enter(links, at[k - 1], path[k])

LEMMA WalkIs ==
    ASSUME NEW links, NEW path, NEW n \in Nat, NEW at, WalkTo(at, links, path, n)
    PROVE  StepByStep(at, links, path, n)
<1>. DEFINE walk == [k \in 0 .. n |-> IF k = 0 THEN <<>> ELSE Enter(links, at[k - 1], path[k])]
<1>1. at = walk
    BY Zenon DEF WalkTo
<1>2. \A k \in 0 .. n : walk[k] = IF k = 0 THEN <<>> ELSE Enter(links, at[k - 1], path[k])
    OBVIOUS
<1>. HIDE DEF walk
<1>. QED
    BY <1>1, <1>2 DEF StepByStep

LEMMA ResolveIs ==
    ASSUME NEW links, NEW path, Len(path) \in Nat
    PROVE  \E at : WalkTo(at, links, path, Len(path)) /\ Resolve(links, path) = at[Len(path)]
<1>. DEFINE walk == CHOOSE at : WalkTo(at, links, path, Len(path))
<1>1. WalkTo(walk, links, path, Len(path))
    BY WalksExist, Zenon
<1>2. Resolve(links, path) = walk[Len(path)]
    BY Zenon DEF Resolve, WalkTo
<1>. QED
    BY <1>1, <1>2, Zenon

\* Along a common beginning, two walks are at the same places.
LEMMA WalksAgree ==
    ASSUME NEW links, NEW path, NEW other, NEW n \in Nat, NEW m \in Nat, n <= m,
           \A k \in 1 .. n : path[k] = other[k],
           NEW at, WalkTo(at, links, path, n), NEW bt, WalkTo(bt, links, other, m)
    PROVE  at[n] = bt[n]
<1>. DEFINE S == {k \in Nat : k <= n => at[k] = bt[k]}
<1>1. /\ at[0] = <<>> /\ \A k \in 1 .. n : at[k] = Enter(links, at[k - 1], path[k])
      /\ bt[0] = <<>> /\ \A k \in 1 .. m : bt[k] = Enter(links, bt[k - 1], other[k])
    <2>1. StepByStep(at, links, path, n)
        BY WalkIs, Zenon
    <2>2. StepByStep(bt, links, other, m)
        BY WalkIs, Zenon
    <2>. QED
        BY <2>1, <2>2 DEF StepByStep
<1>2. 0 \in S
    BY <1>1
<1>3. ASSUME NEW k \in Nat, k \in S PROVE k + 1 \in S
    <2>. SUFFICES ASSUME k + 1 <= n PROVE at[k + 1] = bt[k + 1]
        OBVIOUS
    <2>1. k + 1 \in 1 .. n /\ k + 1 \in 1 .. m /\ (k + 1) - 1 = k
        OBVIOUS
    <2>2. at[k] = bt[k]
        BY <1>3
    <2>. HIDE DEF S
    <2>. QED
        BY <1>1, <2>1, <2>2
<1>. HIDE DEF S
<1>4. \A k \in Nat : k \in S
    BY <1>2, <1>3, SetInduction
<1>. QED
    BY <1>4 DEF S

LEMMA ResolveAppends ==
    ASSUME NEW links, NEW S, NEW path \in Seq(S), NEW c \in S
    PROVE  Resolve(links, Append(path, c)) = Enter(links, Resolve(links, path), c)
<1>. DEFINE longer == Append(path, c)
            n == Len(path)
<1>1. n \in Nat /\ Len(longer) = n + 1 /\ longer[n + 1] = c /\ \A k \in 1 .. n : path[k] = longer[k]
    OBVIOUS
<1>. HIDE DEF longer, n
<1>2. PICK at : WalkTo(at, links, path, n) /\ Resolve(links, path) = at[n]
    BY <1>1, ResolveIs DEF n
<1>3. PICK bt : WalkTo(bt, links, longer, n + 1) /\ Resolve(links, longer) = bt[n + 1]
    <2>1. Len(longer) \in Nat
        BY <1>1
    <2>. QED
        BY <1>1, <2>1, ResolveIs
<1>4. n + 1 \in Nat /\ n <= n + 1 /\ n + 1 \in 1 .. n + 1 /\ (n + 1) - 1 = n
    BY <1>1
<1>5. at[n] = bt[n]
    BY <1>1, <1>2, <1>3, <1>4, WalksAgree
<1>6. bt[n + 1] = Enter(links, bt[n], longer[n + 1])
    <2>1. StepByStep(bt, links, longer, n + 1)
        BY <1>3, <1>4, WalkIs, Zenon
    <2>. QED
        BY <1>4, <2>1 DEF StepByStep
<1>. QED
    BY <1>1, <1>2, <1>3, <1>5, <1>6, Zenon DEF longer

\* A resolved path holds names, and neither of the two dots.
Plain(N) == N \ (Skipped \cup {".."})
LinksOver(N) == UNION {[D -> Seq(Plain(N))] : D \in SUBSET Seq(Plain(N))}

LEMMA EnterIsPlain ==
    ASSUME NEW N, NEW links \in LinksOver(N), NEW path \in Seq(Plain(N)), NEW c \in N
    PROVE  Enter(links, path, c) \in Seq(Plain(N))
<1>1. CASE c \in Skipped
    BY <1>1, Zenon DEF Enter
<1>2. CASE c \notin Skipped /\ c = ".."
    <2>1. Enter(links, path, c) = IF path = <<>> THEN <<>> ELSE Front(path)
        BY <1>2, Zenon DEF Enter
    <2>2. path # <<>> => Front(path) \in Seq(Plain(N))
        BY DEF Front
    <2>. QED
        BY <2>1, <2>2
<1>3. CASE c \notin Skipped /\ c # ".."
    <2>1. c \in Plain(N)
        BY <1>3 DEF Plain
    <2>2. CASE Append(path, c) \in DOMAIN links
        <3>1. Enter(links, path, c) = links[Append(path, c)]
            BY <1>3, <2>2, Zenon DEF Enter
        <3>. QED
            BY <2>2, <3>1 DEF LinksOver
    <2>3. CASE Append(path, c) \notin DOMAIN links
        <3>1. Enter(links, path, c) = Append(path, c)
            BY <1>3, <2>3, Zenon DEF Enter
        <3>. QED
            BY <2>1, <3>1
    <2>. QED
        BY <2>2, <2>3
<1>. QED
    BY <1>1, <1>2, <1>3

LEMMA ResolveIsPlain ==
    ASSUME NEW N, NEW links \in LinksOver(N), NEW path \in Seq(N)
    PROVE  Resolve(links, path) \in Seq(Plain(N))
<1>. DEFINE m == Len(path)
<1>1. m \in Nat /\ \A k \in 1 .. m : path[k] \in N
    OBVIOUS
<1>. HIDE DEF m
<1>2. PICK at : WalkTo(at, links, path, m) /\ Resolve(links, path) = at[m]
    BY <1>1, ResolveIs DEF m
<1>3. at[0] = <<>> /\ \A k \in 1 .. m : at[k] = Enter(links, at[k - 1], path[k])
    BY <1>1, <1>2, WalkIs DEF StepByStep
<1>. DEFINE S == {k \in Nat : k <= m => at[k] \in Seq(Plain(N))}
<1>4. 0 \in S
    <2>1. at[0] \in Seq(Plain(N))
        <3>1. <<>> \in Seq(Plain(N))
            OBVIOUS
        <3>. QED
            BY <1>3, <3>1, Zenon
    <2>. QED
        BY <2>1
<1>5. ASSUME NEW k \in Nat, k \in S PROVE k + 1 \in S
    <2>. SUFFICES ASSUME k + 1 <= m PROVE at[k + 1] \in Seq(Plain(N))
        OBVIOUS
    <2>1. k + 1 \in 1 .. m /\ (k + 1) - 1 = k
        BY <1>1
    <2>2. at[k] \in Seq(Plain(N))
        BY <1>1, <1>5
    <2>. HIDE DEF S
    <2>. QED
        BY <1>1, <1>3, <2>1, <2>2, EnterIsPlain
<1>. HIDE DEF S
<1>6. \A k \in Nat : k \in S
    BY <1>4, <1>5, SetInduction
<1>. QED
    BY <1>1, <1>2, <1>6 DEF S

\* Without links, a resolved path is what it is.
LEMMA PlainIsResolved ==
    ASSUME NEW N, NEW path \in Seq(Plain(N))
    PROVE  Resolve(NoLinks, path) = path
<1>. DEFINE m == Len(path)
<1>1. m \in Nat /\ (\A k \in 1 .. m : path[k] \in Plain(N)) /\ SubSeq(path, 1, m) = path
    OBVIOUS
<1>2. \A k \in Nat : k + 1 <= m => /\ SubSeq(path, 1, k) \in Seq(Plain(N))
                                   /\ Append(SubSeq(path, 1, k), path[k + 1]) = SubSeq(path, 1, k + 1)
    OBVIOUS
<1>3. SubSeq(path, 1, 0) = <<>>
    OBVIOUS
<1>. HIDE DEF m
<1>4. PICK at : WalkTo(at, NoLinks, path, m) /\ Resolve(NoLinks, path) = at[m]
    BY <1>1, ResolveIs DEF m
<1>5. at[0] = <<>> /\ \A k \in 1 .. m : at[k] = Enter(NoLinks, at[k - 1], path[k])
    BY <1>1, <1>4, WalkIs DEF StepByStep
<1>. DEFINE S == {k \in Nat : k <= m => at[k] = SubSeq(path, 1, k)}
<1>6. 0 \in S
    BY <1>3, <1>5
<1>7. ASSUME NEW k \in Nat, k \in S PROVE k + 1 \in S
    <2>. SUFFICES ASSUME k + 1 <= m PROVE at[k + 1] = SubSeq(path, 1, k + 1)
        OBVIOUS
    <2>1. k + 1 \in 1 .. m /\ (k + 1) - 1 = k
        BY <1>1
    <2>2. at[k] = SubSeq(path, 1, k)
        BY <1>1, <1>7
    <2>3. path[k + 1] \notin Skipped /\ path[k + 1] # ".."
        BY <1>1, <2>1 DEF Plain
    <2>4. Append(at[k], path[k + 1]) \notin DOMAIN NoLinks
        BY DEF NoLinks
    <2>5. at[k + 1] = Append(at[k], path[k + 1])
        <3>1. at[k + 1] = Enter(NoLinks, at[k], path[k + 1])
            BY <1>5, <2>1
        <3>. QED
            BY <3>1, <2>3, <2>4, Zenon DEF Enter
    <2>. HIDE DEF S
    <2>. QED
        BY <1>2, <2>2, <2>5
<1>. HIDE DEF S
<1>8. \A k \in Nat : k \in S
    BY <1>6, <1>7, SetInduction
<1>. QED
    BY <1>1, <1>4, <1>8 DEF S

-----------------------------------------------------------------------------
(* WorkspacePaths: inside the root                                         *)

LEMMA NormalizedIs ==
    ASSUME NEW text, NormalizeRemote(text) # Rejected
    PROVE  NormalizeRemote(text) = Resolve(NoLinks, text.parts)
    BY Zenon DEF NormalizeRemote

LEMMA NoLinksOver == ASSUME NEW N PROVE NoLinks \in LinksOver(N)
<1>1. NoLinks \in [{} -> Seq(Plain(N))]
    BY DEF NoLinks
<1>. QED
    BY <1>1, Zenon DEF LinksOver

LEMMA AllowedIs ==
    ASSUME NEW path, NEW root, AssertRemoteWithin(path, root) # Rejected
    PROVE  /\ AssertRemoteWithin(path, root) = NormalizeRemote(path)
           /\ NormalizeRemote(path) # Rejected /\ NormalizeRemote(root) # Rejected
           /\ StrictlyWithin(NormalizeRemote(path), NormalizeRemote(root))
    BY Zenon DEF AssertRemoteWithin

LEMMA AppendIsWithin ==
    ASSUME NEW S, NEW root \in Seq(S), NEW c
    PROVE  StrictlyWithin(Append(root, c), root)
<1>1. /\ Len(root) \in Nat /\ Len(Append(root, c)) = Len(root) + 1
      /\ SubSeq(Append(root, c), 1, Len(root)) = SubSeq(root, 1, Len(root))
    OBVIOUS
<1>2. Append(root, c) # root
    BY <1>1
<1>. QED
    BY <1>1, <1>2 DEF StrictlyWithin, IsStrictPrefix, IsPrefix

\* A remote workspace is a name in the root, whatever the name.
LEMMA WorkspaceIsInRoot ==
    ASSUME NEW N, NEW root \in [slashes : Nat, parts : Seq(N)], NEW name \in N,
           RemoteWorkspace(root, name) # Rejected
    PROVE  /\ NormalizeRemote(root) \in Seq(Plain(N)) /\ name \in Plain(N)
           /\ RemoteWorkspace(root, name) = Append(NormalizeRemote(root), name)
<1>. DEFINE text == [root EXCEPT !.parts = Append(@, name)]
            start == NormalizeRemote(root)
            ws == RemoteWorkspace(root, name)
<1>1. text.parts = Append(root.parts, name) /\ root.parts \in Seq(N)
    OBVIOUS
<1>2. ws = AssertRemoteWithin(text, root)
    BY Zenon DEF RemoteWorkspace
<1>. HIDE DEF text
<1>3. /\ ws = NormalizeRemote(text) /\ NormalizeRemote(text) # Rejected
      /\ start # Rejected /\ StrictlyWithin(NormalizeRemote(text), start)
    BY <1>2, AllowedIs, Zenon
<1>4. start = Resolve(NoLinks, root.parts) /\ NormalizeRemote(text) = Resolve(NoLinks, text.parts)
    BY <1>3, NormalizedIs, Zenon
<1>5. start \in Seq(Plain(N))
    BY <1>1, <1>4, NoLinksOver, ResolveIsPlain
<1>6. ws = Enter(NoLinks, start, name)
    <2>1. Resolve(NoLinks, Append(root.parts, name)) = Enter(NoLinks, Resolve(NoLinks, root.parts), name)
        BY <1>1, ResolveAppends
    <2>. QED
        BY <1>1, <1>3, <1>4, <2>1, Zenon
<1>. HIDE DEF ws, start
<1>7. name \notin Skipped
    <2>1. name \in Skipped => Enter(NoLinks, start, name) = start
        BY Zenon DEF Enter
    <2>. QED
        BY <1>3, <1>6, <2>1 DEF StrictlyWithin, IsStrictPrefix
<1>8. name # ".."
    <2>. SUFFICES ASSUME name = ".." PROVE FALSE
        OBVIOUS
    <2>1. Enter(NoLinks, start, name) = IF start = <<>> THEN <<>> ELSE Front(start)
        BY <1>7, Zenon DEF Enter
    <2>2. Len(start) <= Len(ws) /\ ws # start
        BY <1>3 DEF StrictlyWithin, IsStrictPrefix, IsPrefix
    <2>3. start # <<>> => Len(Front(start)) < Len(start)
        BY <1>5 DEF Front
    <2>. QED
        BY <1>6, <2>1, <2>2, <2>3
<1>9. Append(start, name) \notin DOMAIN NoLinks
    BY DEF NoLinks
<1>10. ws = Append(start, name)
    BY <1>6, <1>7, <1>8, <1>9, Zenon DEF Enter
<1>. QED
    BY <1>5, <1>7, <1>8, <1>10, Zenon DEF ws, start, Plain

LEMMA PreflightIsInside ==
    ASSUME NEW N, NEW links \in LinksOver(N), NEW missing,
           NEW root \in [slashes : Nat, parts : Seq(N)], NEW ws \in Seq(N),
           NormalizeRemote(root) \in Seq(N),
           Preflighted(links, missing, root, ws) # Rejected
    PROVE  StrictlyWithin(Resolve(links, ws), Resolve(links, NormalizeRemote(root)))
<1>. DEFINE at == Resolve(links, NormalizeRemote(root))
            there == Resolve(links, ws)
<1>1. at \in Seq(Plain(N)) /\ there \in Seq(Plain(N))
    BY ResolveIsPlain
<1>2. Preflighted(links, missing, root, ws) = AssertRemoteWithin(Printed(there), Printed(at))
    BY Zenon DEF Preflighted
<1>. HIDE DEF at, there
<1>3. /\ NormalizeRemote(Printed(there)) # Rejected /\ NormalizeRemote(Printed(at)) # Rejected
      /\ StrictlyWithin(NormalizeRemote(Printed(there)), NormalizeRemote(Printed(at)))
    BY <1>2, AllowedIs, Zenon
<1>4. Printed(there).parts = there /\ Printed(at).parts = at
    BY DEF Printed
<1>5. NormalizeRemote(Printed(there)) = Resolve(NoLinks, there)
    BY <1>3, <1>4, NormalizedIs, Zenon
<1>6. NormalizeRemote(Printed(at)) = Resolve(NoLinks, at)
    BY <1>3, <1>4, NormalizedIs, Zenon
<1>7. Resolve(NoLinks, there) = there /\ Resolve(NoLinks, at) = at
    BY <1>1, PlainIsResolved
<1>8. StrictlyWithin(there, at)
    BY <1>3, <1>5, <1>6, <1>7, Zenon
<1>. QED
    BY <1>8, Zenon DEF at, there

(* path_for, assert_launch_cwd, preflight and the two remote commands:     *)
(* wherever links lead, on either host, and whatever the key is called, a  *)
(* workspace is strictly inside the resolved root: for roots, names and    *)
(* links of every length and number.                                       *)
THEOREM PathsAreInside ==
    \A N, missing : \A links \in LinksOver(N),
              root \in [slashes : Nat, parts : Seq(N)], name \in N :
        PathsStayInside(links, missing, root, name)
<1>. SUFFICES ASSUME NEW N, NEW links \in LinksOver(N), NEW missing,
                     NEW root \in [slashes : Nat, parts : Seq(N)], NEW name \in N
              PROVE  PathsStayInside(links, missing, root, name)
    OBVIOUS
<1>. DEFINE start == NormalizeRemote(root)
            ws == RemoteWorkspace(root, name)
            here == LocalWorkspace(links, start, name)
<1>1. here # Rejected => StrictlyWithin(here, Resolve(links, start))
    BY Zenon DEF LocalWorkspace
<1>2. ASSUME ws # Rejected
      PROVE  /\ RemoteLaunch(links, missing, root, ws) # Rejected =>
                  StrictlyWithin(RemoteLaunch(links, missing, root, ws), Resolve(links, start))
             /\ RemoteCleanup(links, missing, root, ws) # Rejected =>
                  StrictlyWithin(RemoteCleanup(links, missing, root, ws), Resolve(links, start))
    <2>1. start \in Seq(Plain(N)) /\ name \in Plain(N) /\ ws = Append(start, name)
        BY <1>2, WorkspaceIsInRoot
    <2>. HIDE DEF start, ws
    <2>2. start \in Seq(N) /\ ws \in Seq(N) /\ Front(ws) = start /\ Last(ws) = name
        BY <2>1 DEF Front, Last, Plain
    <2>3. Preflighted(links, missing, root, ws) # Rejected =>
            StrictlyWithin(Resolve(links, ws), Resolve(links, start))
        BY <2>2, PreflightIsInside DEF start
    <2>4. RemoteLaunch(links, missing, root, ws) # Rejected =>
            /\ Preflighted(links, missing, root, ws) # Rejected
            /\ RemoteLaunch(links, missing, root, ws) = Resolve(links, ws)
        BY Zenon DEF RemoteLaunch
    <2>5. RemoteCleanup(links, missing, root, ws) # Rejected =>
            RemoteCleanup(links, missing, root, ws) = Append(Resolve(links, Front(ws)), Last(ws))
        BY Zenon DEF RemoteCleanup
    <2>6. StrictlyWithin(Append(Resolve(links, start), name), Resolve(links, start))
        BY <2>2, ResolveIsPlain, AppendIsWithin
    <2>. QED
        BY <2>2, <2>3, <2>4, <2>5, <2>6
<1>. HIDE DEF start, ws, here
<1>3. ASSUME ws # Rejected
      PROVE  \A path \in {RemoteLaunch(links, missing, root, ws),
                          RemoteCleanup(links, missing, root, ws)} \ {Rejected} :
                StrictlyWithin(path, Resolve(links, start))
    BY <1>2, <1>3
<1>. QED
    BY <1>1, <1>3, Zenon DEF PathsStayInside, start, ws, here

-----------------------------------------------------------------------------
(* The types of the components                                             *)

\* The two counters of the host and the parts that refused; HostOrder has the
\* rest of its types.
LEMMA HostTypesStep ==
    ASSUME HostTypes, HostOrder, HostOrder', [HostNext]_hostVars PROVE HostTypes'
<1>. DEFINE Rest == /\ next \in 1 .. 7 /\ refused \subseteq Parts
                    /\ runLoop \in {"off", "running", "lost", "ended"}
                    /\ signals \in 0 .. MaxSignals /\ shutdown \in BOOLEAN /\ force \in BOOLEAN
<1>. SUFFICES Rest'
    BY StartupIs DEF HostOrder, HostTypes
<1>0. Rest
    BY StartupIs DEF HostTypes
<1>1. CASE StepStarts
    <2>1. stage = "starting" /\ next' = next + 1 /\ UNCHANGED <<refused, signals, shutdown, force, interrupt>>
        BY <1>1 DEF StepStarts
    <2>2. runLoop' \in {"running", runLoop}
        BY <1>1, Zenon DEF StepStarts
    <2>3. next \in 1 .. 6
        BY <2>1 DEF HostOrder
    <2>. QED
        BY <1>0, <2>1, <2>2, <2>3
<1>2. CASE StepFails
    <2>1. stage = "starting" /\ UNCHANGED <<refused, runLoop, signals, shutdown, force, interrupt>>
        BY <1>2 DEF StepFails
    <2>2. next' = next + 1 \/ next' = 1
        BY <1>2, Zenon DEF StepFails, Close
    <2>3. next \in 1 .. 6
        BY <2>1 DEF HostOrder
    <2>. QED
        BY <1>0, <2>1, <2>2, <2>3
<1>3. CASE Signal
    BY <1>0, <1>3, SignalAssumption DEF Signal
<1>4. CASE InterruptComes \/ InterruptLands \/ LoopEnds
    <2>1. next' \in {next, 1} /\ runLoop' \in {runLoop, "lost", "ended"}
          /\ UNCHANGED <<refused, signals, shutdown, force>>
        BY <1>4 DEF InterruptComes, InterruptLands, LoopEnds, Close
    <2>. QED
        BY <1>0, <2>1
<1>5. CASE LoopFoundDone \/ BeginStop \/ StopDone \/ LoopUnwound \/ LoopCancelled
    BY <1>0, <1>5 DEF LoopFoundDone, BeginStop, StopDone, LoopUnwound, LoopCancelled, Close
<1>6. CASE ClosePart
    <2>1. next <= 4 /\ next' = next + 1 /\ UNCHANGED <<stage, runLoop, signals, shutdown, force, interrupt, code>>
        BY <1>6, StartupIs DEF ClosePart
    <2>2. refused' = refused \/ (Teardown[next] \in up /\ refused' = refused \cup {Teardown[next]})
        BY <1>6, Zenon DEF ClosePart
    <2>3. up \subseteq Parts
        BY DEF HostOrder
    <2>. QED
        BY <1>0, <2>1, <2>2, <2>3
<1>7. CASE TeardownCut \/ Exit
    <2>1. runLoop' \in {runLoop, "ended"} /\ UNCHANGED <<next, refused, signals, shutdown, force>>
        BY <1>7, Zenon DEF TeardownCut, Exit
    <2>. QED
        BY <1>0, <2>1
<1>8. CASE UNCHANGED hostVars
    BY <1>0, <1>8 DEF hostVars
<1>. QED
    BY <1>1, <1>2, <1>3, <1>4, <1>5, <1>6, <1>7, <1>8 DEF HostNext

LEMMA HostIsTyped == HostSpec => []HostTypes
<1>1. HostInit => HostTypes
    <2>. SUFFICES ASSUME HostInit PROVE HostTypes
        OBVIOUS
    <2>1. next \in 1 .. (Len(Startup) + 1) /\ signals \in 0 .. MaxSignals
        BY StartupIs, SignalAssumption DEF HostInit
    <2>2. up \subseteq Parts /\ refused \subseteq Parts
        BY DEF HostInit
    <2>. QED
        BY <2>1, <2>2, Zenon DEF HostInit, HostTypes
<1>2. HostInit => HostOrder
    BY DEF HostInit, HostOrder
<1>. QED
    BY <1>1, <1>2, HostOrderStep, HostTypesStep, PTL DEF HostSpec

\* A refresh that is not served was requested.
ServedWasAsked == unserved <= requests

LEMMA HttpTypesStep ==
    ASSUME HttpTypes, ServedWasAsked, [HttpNext]_httpVars PROVE HttpTypes' /\ ServedWasAsked'
<1>. DEFINE Trigger == /\ pending \in BOOLEAN /\ event \in BOOLEAN
                       /\ waiter \in {"busy", "asleep", "woken", "refreshing"}
                       /\ unserved \in 0 .. MaxRequests /\ requests \in 0 .. MaxRequests
                       /\ unserved <= requests
            Clients == caller \in [Callers -> {"idle", "hooked"} \cup Statuses]
            Server == /\ listener \in {"none", "open"} /\ calling \in {"none", "start", "stop"}
                      /\ serving \in {"none", "starting", "up", "failed", "leaving", "over"}
<1>0. Trigger /\ Clients /\ Server
    BY DEF HttpTypes, ServedWasAsked
<1>. SUFFICES Trigger' /\ Clients' /\ Server'
    BY DEF HttpTypes, ServedWasAsked
<1>2. ASSUME Request \/ UNCHANGED <<pending, event, waiter, unserved, requests>> PROVE Trigger'
    <2>1. CASE UNCHANGED <<pending, event, waiter, unserved, requests>>
        BY <1>0, <2>1
    <2>2. CASE Request /\ ~UNCHANGED <<pending, event, waiter, unserved, requests>>
        <3>1. /\ requests < MaxRequests /\ requests' = requests + 1 /\ unserved' = unserved + 1
              /\ pending' = TRUE /\ event' = TRUE
              /\ waiter' \in {"woken", waiter}
            BY <2>2, Zenon DEF Request
        <3>2. waiter' \in {"busy", "asleep", "woken", "refreshing"}
            BY <1>0, <3>1
        <3>3. unserved' \in 0 .. MaxRequests /\ requests' \in 0 .. MaxRequests /\ unserved' <= requests'
            BY <1>0, <3>1, SurfaceAssumption
        <3>. QED
            BY <3>1, <3>2, <3>3
    <2>. QED
        BY <1>2, <2>1, <2>2
<1>3. ASSUME NEW c \in Callers, Refresh(c) PROVE Trigger' /\ Clients' /\ Server'
    <2>1. Request \/ UNCHANGED <<pending, event, waiter, unserved, requests>>
        BY <1>3, Zenon DEF Refresh
    <2>2. UNCHANGED <<listener, serving, calling>>
        BY <1>3, Zenon DEF Refresh, serverVars
    <2>3. Reply \in Statuses /\ "503 refresh_unavailable" \in Statuses
        BY DEF Reply, Statuses
    <2>4. \E status \in {"hooked"} \cup Statuses : caller' = [caller EXCEPT ![c] = status]
        <3>1. CASE Wired = {}
            BY <1>3, <2>3, <3>1, Zenon DEF Refresh
        <3>2. CASE Wired # {}
            <4>1. caller' = [caller EXCEPT ![c] = IF "hook" \in Wired THEN "hooked" ELSE Reply]
                BY <1>3, <3>2, Zenon DEF Refresh
            <4>. QED
                BY <2>3, <4>1, Zenon
        <3>. QED
            BY <3>1, <3>2
    <2>5. Trigger'
        BY <1>2, <2>1
    <2>6. Clients'
        BY <1>0, <2>4
    <2>. QED
        BY <1>0, <2>2, <2>5, <2>6
<1>4. ASSUME NEW c \in Callers, HookDone(c) PROVE Trigger' /\ Clients' /\ Server'
    BY <1>0, <1>4 DEF HookDone
<1>5. CASE Wait
    <2>1. /\ waiter' \in {"refreshing", "asleep"} /\ event' \in {FALSE, event}
          /\ UNCHANGED <<pending, unserved, requests, caller, listener, serving, calling>>
        BY <1>5, Zenon DEF Wait
    <2>. QED
        BY <1>0, <2>1
<1>6. CASE ConsumeWaited \/ ConsumePolled
    <2>1. /\ pending' = FALSE /\ event' = FALSE /\ waiter' \in {"busy", waiter}
          /\ UNCHANGED <<requests, caller, listener, serving, calling>>
        BY <1>6, Zenon DEF ConsumeWaited, ConsumePolled, Consume
    <2>2. unserved' = 0 \/ unserved' = unserved
        BY <1>6, Zenon DEF ConsumeWaited, ConsumePolled, Consume
    <2>3. unserved' \in 0 .. MaxRequests /\ requests' \in 0 .. MaxRequests /\ unserved' <= requests'
        BY <1>0, <2>1, <2>2, SurfaceAssumption
    <2>4. waiter' \in {"busy", "asleep", "woken", "refreshing"}
        BY <1>0, <2>1
    <2>. QED
        BY <1>0, <2>1, <2>3, <2>4
<1>7. CASE StartServer \/ UvicornStarts \/ StartReturns \/ TaskOver
    BY <1>0, <1>7 DEF StartServer, UvicornStarts, StartReturns, TaskOver, triggerVars
<1>8. CASE StopServer \/ StopReturns
    <2>1. /\ listener' \in {"none", listener} /\ serving' \in {"none", serving}
          /\ calling' \in {"none", "stop", calling} /\ UNCHANGED triggerVars
        BY <1>8, Zenon DEF StopServer, StopReturns
    <2>. QED
        BY <1>0, <2>1 DEF triggerVars
<1>9. CASE UNCHANGED httpVars
    BY <1>0, <1>9 DEF httpVars
<1>. QED
    BY <1>3, <1>4, <1>5, <1>6, <1>7, <1>8, <1>9 DEF HttpNext

LEMMA HttpIsTyped == HttpSpec => []HttpTypes
<1>1. HttpInit => HttpTypes
    <2>. SUFFICES ASSUME HttpInit PROVE HttpTypes
        OBVIOUS
    <2>1. pending \in BOOLEAN /\ event \in BOOLEAN
        BY DEF HttpInit
    <2>2. unserved \in 0 .. MaxRequests /\ requests \in 0 .. MaxRequests
        BY SurfaceAssumption DEF HttpInit
    <2>3. caller \in [Callers -> {"idle", "hooked"} \cup Statuses]
        BY DEF HttpInit
    <2>. QED
        BY <2>1, <2>2, <2>3, Zenon DEF HttpInit, HttpTypes
<1>2. HttpInit => ServedWasAsked
    BY DEF HttpInit, ServedWasAsked
<1>. QED
    BY <1>1, <1>2, HttpTypesStep, PTL DEF HttpSpec

\* What ReadInv leaves out: pages, the answer and the fault that was armed.
FaultRecord == [kind : {"none", "request", "pagination"}, after : 0 .. 1, left : 0 .. 2]
Answered(a) == a.ok \in BOOLEAN /\ a.out \in [Cards -> Nat]
ReadRest == read.pages \in 0 .. MaxPages /\ Answered(result) /\ fault \in FaultRecord

LEMMA NothingRead == NoRead.pages \in 0 .. MaxPages /\ Answered(Raised) /\ NoFault \in FaultRecord
<1>1. None \in [Cards -> Nat]
    BY DEF None
<1>2. NoRead.pages = 0 /\ MaxPages \in Nat
    BY ReadAssumption DEF NoRead
<1>3. NoFault \in FaultRecord
    BY DEF NoFault, FaultRecord
<1>. QED
    BY <1>1, <1>2, <1>3 DEF Raised, Answered

LEMMA AnswerIsTyped ==
    ASSUME NEW r, r.out \in [Cards -> Nat], Return(r)
    PROVE  read' = NoRead /\ Answered(result')
<1>1. read' = NoRead
      /\ result' = [ok |-> TRUE, op |-> r.op, ids |-> r.ids, pages |-> r.pages, out |-> r.out]
    BY Zenon DEF Return
<1>2. result'.ok = TRUE /\ result'.out = r.out
    BY <1>1
<1>. QED
    BY <1>1, <1>2 DEF Answered

LEMMA PageCounts ==
    ASSUME NEW r \in ReadRecord, NEW cursor
    PROVE  [AfterPage(r) EXCEPT !.cursor = cursor, !.seen = @ \cup {cursor}].pages = r.pages + 1
<1>1. PICK met, out : AfterPage(r) = [r EXCEPT !.pages = @ + 1, !.met = met, !.out = out]
    BY Zenon DEF AfterPage
<1>2. AfterPage(r).pages = r.pages + 1
    BY <1>1 DEF ReadRecord
<1>3. PICK a : a = AfterPage(r)
    OBVIOUS
<1>4. \A seen2 : [a EXCEPT !.cursor = cursor, !.seen = seen2].pages = a.pages \/ a.pages # r.pages + 1
    <2>1. a = [r EXCEPT !.pages = @ + 1, !.met = met, !.out = out]
        BY <1>1, <1>3
    <2>. QED
        BY <2>1 DEF ReadRecord
<1>. QED
    BY <1>2, <1>3, <1>4

LEMMA ReadRestStep ==
    ASSUME ReadInv, ReadRest, [ReadNext]_readVars PROVE ReadRest'
<1>0. Board /\ read \in ReadRecord
    BY DEF ReadInv
<1>1. CASE PageArrives
    <2>1. UNCHANGED fault
        BY <1>1, Zenon DEF PageArrives
    <2>2. CASE Raise
        BY <2>1, <2>2, NothingRead DEF Raise, ReadRest
    <2>3. CASE Return(AfterPage(read))
        <3>1. AfterPage(read).out \in [Cards -> Nat]
            BY <1>0, AfterPageIs DEF ReadRecord
        <3>. QED
            BY <2>1, <2>3, <3>1, NothingRead, AnswerIsTyped DEF ReadRest
    <2>4. ASSUME NEW cursor, ~TooManyPages(read), UNCHANGED result,
                 read' = [AfterPage(read) EXCEPT !.cursor = cursor, !.seen = @ \cup {cursor}]
          PROVE  ReadRest'
        <3>1. read'.pages = read.pages + 1
            BY <1>0, <2>4, PageCounts
        <3>2. read.pages + 1 \in 0 .. MaxPages
            BY <2>4, ReadAssumption DEF ReadRest, TooManyPages
        <3>. QED
            BY <2>1, <2>4, <3>1, <3>2 DEF ReadRest
    <2>. QED
        BY <1>1, <2>2, <2>3, <2>4, Zenon DEF PageArrives
<1>2. CASE BatchArrives
    <2>1. UNCHANGED fault
        BY <1>2, Zenon DEF BatchArrives
    <2>2. CASE Raise
        BY <2>1, <2>2, NothingRead DEF Raise, ReadRest
    <2>3. ASSUME ~Raise
          PROVE  \E batch, out : /\ out = AddTo(read.out, batch \cap Selected(read))
                                 /\ \/ Return([read EXCEPT !.out = out])
                                    \/ /\ read' = [read EXCEPT !.met = @ \cup batch, !.out = out]
                                       /\ UNCHANGED result
        BY <1>2, <2>3, Zenon DEF BatchArrives
    <2>4. ASSUME NEW batch, NEW out, out = AddTo(read.out, batch \cap Selected(read)),
                 \/ Return([read EXCEPT !.out = out])
                 \/ /\ read' = [read EXCEPT !.met = @ \cup batch, !.out = out]
                    /\ UNCHANGED result
          PROVE  ReadRest'
        <3>1. out \in [Cards -> Nat]
            BY <1>0, <2>4, AddToIs DEF ReadRecord
        <3>2. CASE Return([read EXCEPT !.out = out])
            <4>. DEFINE r == [read EXCEPT !.out = out]
            <4>1. r.out = out
                BY <1>0 DEF ReadRecord
            <4>2. Return(r)
                BY <3>2
            <4>. HIDE DEF r
            <4>. QED
                BY <2>1, <3>1, <4>1, <4>2, NothingRead, AnswerIsTyped DEF ReadRest
        <3>3. CASE read' = [read EXCEPT !.met = @ \cup batch, !.out = out] /\ UNCHANGED result
            <4>1. read'.pages = read.pages
                BY <1>0, <3>3 DEF ReadRecord
            <4>. QED
                BY <2>1, <3>3, <4>1 DEF ReadRest
        <3>. QED
            BY <2>4, <3>2, <3>3
    <2>5. CASE ~Raise
        BY <2>3, <2>4, <2>5, Zenon
    <2>. QED
        BY <2>2, <2>5
<1>3. CASE \E style \in {"github", "linear"}, op \in {"states", "ids"}, ids \in SUBSET Cards :
              StartRead(style, op, ids)
    <2>1. PICK style, op, ids : StartRead(style, op, ids)
        BY <1>3
    <2>2. read' = [NoRead EXCEPT !.style = style, !.op = op, !.ids = ids] /\ result' = Raised
          /\ UNCHANGED fault
        BY <2>1, Zenon DEF StartRead
    <2>3. read'.pages = NoRead.pages
        BY <2>2 DEF NoRead
    <2>. QED
        BY <2>2, <2>3, NothingRead DEF ReadRest
<1>4. CASE RequestFails
    BY <1>4, NothingRead DEF RequestFails, Raise, ReadRest
<1>5. CASE \E kind \in {"request", "pagination"}, after \in 0 .. 1, times \in 0 .. 2 :
              Arm(kind, after, times)
    BY <1>5 DEF Arm, ReadRest, FaultRecord
<1>6. CASE ClearFaults
    BY <1>6, NothingRead DEF ClearFaults, ReadRest
<1>7. CASE \E op \in {"states", "ids"}, ids \in SUBSET Cards : MemoryRead(op, ids)
    <2>1. PICK op, ids : MemoryRead(op, ids)
        BY <1>7
    <2>. DEFINE r == [NoRead EXCEPT !.style = "linear", !.op = op, !.ids = ids]
                out == AddTo(None, Selected(r) \ broken)
                answer == [r EXCEPT !.out = out]
    <2>2. Raise \/ Return(answer)
        BY <2>1, Zenon DEF MemoryRead
    <2>3. answer.out \in [Cards -> Nat]
        <3>1. None \in [Cards -> Nat]
            BY DEF None
        <3>2. out \in [Cards -> Nat]
            BY <3>1, AddToIs
        <3>. HIDE DEF out
        <3>. QED
            BY <3>2 DEF NoRead
    <2>4. fault' = fault \/ fault' = Consumed
        BY <2>1, Zenon DEF MemoryRead
    <2>. HIDE DEF answer
    <2>5. Consumed \in FaultRecord
        <3>1. CASE fault.left = 0 \/ fault.left = 1
            BY <3>1, NothingRead DEF Consumed, ReadRest
        <3>2. CASE fault.left # 0 /\ fault.left # 1
            <4>1. Consumed = [fault EXCEPT !.left = @ - 1] /\ fault.left = 2
                BY <3>2 DEF Consumed, ReadRest, FaultRecord
            <4>. QED
                BY <4>1 DEF ReadRest, FaultRecord
        <3>. QED
            BY <3>1, <3>2
    <2>6. read' = NoRead /\ Answered(result')
        BY <2>2, <2>3, NothingRead, AnswerIsTyped DEF Raise
    <2>. QED
        BY <2>4, <2>5, <2>6, NothingRead DEF ReadRest
<1>8. CASE \E c \in Cards : Drag(c) \/ \E to \in {"wanted", "other", "off"} : MoveColumn(c, to)
    BY <1>8 DEF Drag, MoveColumn, ReadRest
<1>9. CASE UNCHANGED readVars
    BY <1>9 DEF readVars, ReadRest
<1>. QED
    BY <1>1, <1>2, <1>3, <1>4, <1>5, <1>6, <1>7, <1>8, <1>9 DEF ReadNext

LEMMA ReadIsTyped == ReadSpec => []ReadsTypes
<1>1. ReadInit => ReadRest
    BY NothingRead DEF ReadInit, ReadRest
<1>2. ReadInv /\ ReadRest => ReadsTypes
    BY DEF ReadInv, Board, ReadRecord, ReadRest, Answered, FaultRecord, ReadsTypes
<1>. QED
    BY <1>1, <1>2, ReadInvInit, ReadInvStep, ReadRestStep, PTL DEF ReadSpec

LEMMA LogIsTyped == LogSpec => []LogTypes
<1>1. LogInv => LogTypes
    BY DEF LogInv, LogRecord, LogTypes
<1>. QED
    BY <1>1, LogInvInit, LogInvStep, PTL DEF LogSpec

LEMMA WatchIsTyped == WatchSpec => []WatchTypes
    BY WatchTypesInit, WatchTypesStep, PTL DEF WatchSpec

LEMMA ClaudeIsTyped == ClaudeSpec => []ClaudeTypes
<1>1. ClaudeInv => ClaudeTypes
    BY DEF ClaudeInv
<1>. QED
    BY <1>1, ClaudeInvInit, ClaudeInvStep, PTL DEF ClaudeSpec

LEMMA QueryIsTyped == QuerySpec => []QueryTypes
<1>1. QueryInv => QueryTypes
    BY DEF QueryInv
<1>. QED
    BY <1>1, QueryInvInit, QueryInvStep, PTL DEF QuerySpec

LEMMA TotalsAreTyped == TotalsSpec => []TotalsTypes
<1>1. TotalsInv => TotalsTypes
    BY DEF TotalsInv
<1>. QED
    BY <1>1, TotalsInvInit, TotalsInvStep, PTL DEF TotalsSpec

-----------------------------------------------------------------------------
(* The components side by side                                             *)

\* A step of the whole is a step of each component, or leaves it alone.
LEMMA StepsAreOfComponents ==
    ASSUME [ComponentsNext]_allVars
    PROVE  /\ [PoolNext]_poolVars /\ [RetryNext]_retryVars /\ [TotalsNext]_totalsVars
           /\ [QueryNext]_queryVars /\ [ReadNext]_readVars /\ [ClaudeNext]_claudeVars
           /\ [WatchNext]_watchVars /\ [HostNext]_hostVars /\ [LogNext]_logVars
           /\ [HttpNext]_httpVars /\ [HookNext]_hookVars
<1>1. CASE ComponentsNext
    BY <1>1, Zenon DEF ComponentsNext
<1>2. CASE UNCHANGED allVars
    BY <1>2, Zenon DEF allVars
<1>. QED
    BY <1>1, <1>2

(* What ComponentsMC runs is each of its components: what is proved of one *)
(* holds in the runs, whichever of them moves.                             *)
THEOREM EachRunsItsSpec ==
    ComponentsSpec =>
        /\ PoolSpec /\ RetrySpec /\ TotalsSpec /\ QuerySpec /\ ReadSpec /\ ClaudeSpec
        /\ WatchSpec /\ HostSpec /\ LogSpec /\ HttpSpec /\ HookSpec
<1>1. ComponentsInit =>
        /\ PoolInit /\ RetryInit /\ TotalsInit /\ QueryInit /\ ReadInit /\ ClaudeInit
        /\ WatchInit /\ HostInit /\ LogInit /\ HttpInit /\ HookInit
    BY Zenon DEF ComponentsInit
<1>. QED
    BY <1>1, StepsAreOfComponents, PTL
    DEF ComponentsSpec, PoolSpec, RetrySpec, TotalsSpec, QuerySpec, ReadSpec, ClaudeSpec,
        WatchSpec, HostSpec, LogSpec, HttpSpec, HookSpec

(* The state of every component stays of the type it is declared with, for *)
(* every value of the constants.                                           *)
THEOREM ComponentsAreTyped == ComponentsSpec => []ComponentTypes
<1>1. PoolTypes /\ RetryTypes /\ TotalsTypes /\ QueryTypes /\ ReadsTypes /\ ClaudeTypes
      /\ WatchTypes /\ HostTypes /\ LogTypes /\ HttpTypes /\ HookTypes => ComponentTypes
    BY Zenon DEF ComponentTypes
<1>. QED
    BY <1>1, EachRunsItsSpec, HostPoolTypes, RetryQueueTypes, TotalsAreTyped, QueryIsTyped,
       ReadIsTyped, ClaudeIsTyped, WatchIsTyped, HostIsTyped, LogIsTyped, HttpIsTyped,
       HookRunTypes, PTL

-----------------------------------------------------------------------------
(* The rules in the runs                                                   *)

LEMMA TrackersTellAlike == ASSUME NEW a \in GqlAnswers PROVE AnswersAreTold(a)
<1>. DEFINE linear == LinearVerdict(a)
            github == GithubVerdict(a)
            limited == Verdict("rate_limited", TRUE)
<1>1. /\ a.status \in {200, 401, 403, 429, 500} /\ a.errors \in GqlErrors
      /\ a.signal \in Signals /\ a.body \in {"data", "no_data", "not_object"}
    BY DEF GqlAnswers
<1>2. /\ a.status >= 400 <=> a.status # 200
      /\ a.status >= 500 <=> a.status = 500
    BY <1>1
<1>3. /\ Verdict("rate_limited", TRUE) # Success /\ Verdict("request", TRUE) # Success
      /\ Verdict("response", FALSE) # Success /\ Verdict("config", FALSE) # Success
      /\ \A r : Verdict("status", r) # Success
    BY DEF Verdict, Success
<1>4. \A r : Verdict("status", r).retryable = r
    BY DEF Verdict
<1>5. /\ LinearErrors(a) # Success /\ GithubErrors(a) # Success
      /\ a.errors = "rate" => LinearErrors(a) = limited /\ GithubErrors(a) = limited
      /\ a.status = 401 /\ a.errors = "auth" =>
            LinearErrors(a) = Verdict("status", FALSE) /\ GithubErrors(a) = Verdict("status", FALSE)
    <2>1. LinearErrors(a) # Success
        BY <1>3, Zenon DEF LinearErrors
    <2>2. GithubErrors(a) # Success
        BY <1>3 DEF GithubErrors
    <2>3. a.errors = "rate" => LinearErrors(a) = limited /\ GithubErrors(a) = limited
        BY DEF LinearErrors, GithubErrors
    <2>4. a.status = 401 /\ a.errors = "auth" =>
            LinearErrors(a) = Verdict("status", FALSE) /\ GithubErrors(a) = Verdict("status", FALSE)
        BY DEF LinearErrors, GithubErrors
    <2>. QED
        BY <2>1, <2>2, <2>3, <2>4
<1>6. ASSUME ~(a.status = 200 /\ a.errors = "none" /\ a.body = "data")
      PROVE  linear # Success
    <2>1. CASE a.body # "not_object" /\ a.errors # "none"
        <3>1. linear = LinearErrors(a)
            BY <2>1, Zenon DEF LinearVerdict
        <3>. QED
            BY <1>5, <3>1, Zenon
    <2>2. CASE ~(a.body # "not_object" /\ a.errors # "none") /\ a.status = 429
        <3>1. linear = limited
            BY <2>2, Zenon DEF LinearVerdict
        <3>. QED
            BY <1>3, <3>1, Zenon
    <2>3. CASE ~(a.body # "not_object" /\ a.errors # "none") /\ a.status # 429 /\ a.status >= 400
        <3>1. linear = Verdict("status", a.status >= 500)
            BY <2>3, Zenon DEF LinearVerdict
        <3>. QED
            BY <1>3, <3>1, Zenon
    <2>4. CASE ~(a.body # "not_object" /\ a.errors # "none") /\ a.status # 429 /\ ~(a.status >= 400)
        <3>1. a.status = 200
            BY <1>2, <2>4, Zenon
        <3>2. a.body # "data"
            BY <1>6, <2>4, <3>1, Zenon
        <3>3. linear = Verdict("response", FALSE)
            BY <2>4, <3>2, Zenon DEF LinearVerdict
        <3>. QED
            BY <1>3, <3>3, Zenon
    <2>. QED
        BY <2>1, <2>2, <2>3, <2>4, Zenon
<1>7. ASSUME ~(a.status = 200 /\ a.errors = "none" /\ a.body = "data")
      PROVE  github # Success
    <2>1. CASE GithubThrottled(a)
        <3>1. github = limited
            BY <2>1, Zenon DEF GithubVerdict
        <3>. QED
            BY <1>3, <3>1, Zenon
    <2>2. CASE ~GithubThrottled(a) /\ a.status >= 400
        <3>1. github = Verdict("status", a.status >= 500)
            BY <2>2, Zenon DEF GithubVerdict
        <3>. QED
            BY <1>3, <3>1, Zenon
    <2>3. CASE ~GithubThrottled(a) /\ ~(a.status >= 400)
        <3>1. a.status = 200
            BY <1>2, <2>3, Zenon
        <3>2. github \in {Verdict("response", FALSE), GithubErrors(a)}
            BY <1>7, <2>3, <3>1, Zenon DEF GithubVerdict
        <3>. QED
            BY <1>3, <1>5, <3>2, Zenon
    <2>. QED
        BY <2>1, <2>2, <2>3, Zenon
<1>8. ASSUME a.status = 200, a.errors = "rate", a.body # "not_object"
      PROVE  linear = limited /\ github = limited
    BY <1>2, <1>5, <1>8 DEF LinearVerdict, GithubVerdict, GithubThrottled
<1>9. ASSUME a.status = 429, a.signal # "none", a.errors = "none"
      PROVE  linear = limited /\ github = limited
    BY <1>9 DEF LinearVerdict, GithubVerdict, GithubThrottled
<1>10. ASSUME a.status = 401, a.errors \in {"none", "auth"}
      PROVE  linear = Verdict("status", FALSE) /\ github = Verdict("status", FALSE)
    <2>1. a.status # 429 /\ a.status # 403 /\ a.status # 200 /\ a.status # 500
        BY <1>10
    <2>2. a.status >= 400
        BY <1>10
    <2>. DEFINE down == a.status >= 500
    <2>3. down = FALSE
        BY <1>10
    <2>. HIDE DEF down
    <2>4. ASSUME a.body # "not_object" /\ a.errors # "none"
          PROVE  linear = Verdict("status", FALSE)
        <3>1. linear = LinearErrors(a)
            BY <2>4, Zenon DEF LinearVerdict
        <3>2. a.errors = "auth"
            BY <1>10, <2>4
        <3>. QED
            BY <1>5, <1>10, <3>1, <3>2, Zenon
    <2>5. ASSUME ~(a.body # "not_object" /\ a.errors # "none")
          PROVE  linear = Verdict("status", FALSE)
        <3>1. linear = Verdict("status", down)
            BY <2>1, <2>2, <2>5, Zenon DEF LinearVerdict, down
        <3>. QED
            BY <2>3, <3>1
    <2>6. github = Verdict("status", FALSE)
        <3>1. ~GithubThrottled(a)
            BY <1>10 DEF GithubThrottled
        <3>2. github = Verdict("status", down)
            BY <2>2, <3>1, Zenon DEF GithubVerdict, down
        <3>. QED
            BY <2>3, <3>2
    <2>7. linear = Verdict("status", FALSE)
        BY <2>4, <2>5, Zenon
    <2>. QED
        BY <2>6, <2>7, Zenon
<1>11. ASSUME a.status = 401, a.errors \in {"none", "auth"}
      PROVE  ~linear.retryable /\ ~github.retryable
    BY <1>4, <1>10, <1>11
<1>. HIDE DEF linear, github, limited
<1>12. Success \in {linear, github} => a.status = 200 /\ a.errors = "none" /\ a.body = "data"
    BY <1>6, <1>7
<1>13. \/ a.status = 200 /\ a.errors = "rate" /\ a.body # "not_object"
       \/ a.status = 429 /\ a.signal # "none" /\ a.errors = "none"
       => \A v \in {linear, github} : v = limited
    BY <1>8, <1>9
<1>14. a.status = 401 /\ a.errors \in {"none", "auth"} => \A v \in {linear, github} : ~v.retryable
    BY <1>11
<1>. QED
    BY <1>12, <1>13, <1>14, Zenon DEF AnswersAreTold, linear, github, limited

LEMMA TrackersDispatchAlike ==
    ASSUME NEW t, NEW rules PROVE AdaptersAgree(t, rules)
<1>1. MemoryDispatchable(t, rules) <=>
        /\ ~t.archived /\ (rules.requireAssignee => t.assigned)
        /\ \A b \in t.blockers : b = "closed"
    BY Zenon DEF MemoryDispatchable
<1>2. LinearDispatchable(t, rules, "started", TRUE) <=> MemoryDispatchable(t, rules)
    BY <1>1 DEF LinearDispatchable, LinearHasOpenBlocker
<1>3. GithubDispatchable(t, rules, "Issue", TRUE, TRUE) <=> MemoryDispatchable(t, rules)
    BY <1>1 DEF GithubDispatchable, GithubReasons
<1>4. MemoryDispatchable(t, rules) => t.blockers \subseteq {"closed"}
    BY <1>1
<1>5. LinearDispatchable(t, rules, "started", TRUE) = MemoryDispatchable(t, rules)
    BY <1>2, Zenon DEF LinearDispatchable, MemoryDispatchable
<1>6. GithubDispatchable(t, rules, "Issue", TRUE, TRUE) = MemoryDispatchable(t, rules)
    BY <1>3, Zenon DEF GithubDispatchable, MemoryDispatchable
<1>. QED
    BY <1>4, <1>5, <1>6, Zenon DEF AdaptersAgree

\* Whatever moves, the input of the rules stays.
InputFits == input \in Inputs \cup {NoInput}

LEMMA InputStays == ComponentsSpec => []InputFits
<1>1. ComponentsInit => InputFits
    BY Zenon DEF ComponentsInit, InputFits
<1>2. InputFits /\ [ComponentsNext]_allVars => InputFits'
    BY Zenon DEF ComponentsNext, allVars, InputFits
<1>. QED
    BY <1>1, <1>2, PTL DEF ComponentsSpec

LEMMA InputIs ==
    ASSUME InputFits
    PROVE  /\ input.kind = "answer" => input.answer \in GqlAnswers
           /\ input.kind = "identifier" => input.id \in Identifiers
           /\ input.kind = "path" => /\ input.links \in Links /\ input.root \in Roots
                                     /\ input.name \in {"k", ".", ".."}
    BY DEF InputFits, Inputs, NoInput

(* linear.py, github.py and memory.py: in every run the adapters tell the  *)
(* same failure and dispatch the same ticket.                              *)
THEOREM TrackersAlwaysAgree == ComponentsSpec => []TrackersAgree
<1>1. InputFits => TrackersAgree
    BY InputIs, TrackersTellAlike, TrackersDispatchAlike, Zenon DEF TrackersAgree
<1>. QED
    BY <1>1, InputStays, PTL

Alphabet ==
    {Letter(c) : c \in {"a", "A", "underscore", ".", "/", "-"}} \cup {Digest(id) : id \in Words(2)}

LEMMA WordsAre ==
    ASSUME NEW n \in Nat
    PROVE  Words(n) \subseteq Seq({Letter(c) : c \in {"a", "A", "underscore", ".", "/"}}) \ {<<>>}
<1>. DEFINE letters == {Letter(c) : c \in {"a", "A", "underscore", ".", "/"}}
<1>1. Words(n) = UNION {[1 .. k -> letters] : k \in 1 .. n}
    BY Zenon DEF Words
<1>. HIDE DEF letters
<1>2. ASSUME NEW k \in 1 .. n, NEW id \in [1 .. k -> letters]
      PROVE  id \in Seq(letters) /\ id # <<>>
    <2>1. Len(id) = k /\ id \in Seq(letters)
        OBVIOUS
    <2>. QED
        BY <2>1
<1>3. Words(n) \subseteq Seq(letters) \ {<<>>}
    BY <1>1, <1>2
<1>. QED
    BY <1>3, Zenon DEF letters

LEMMA SeqGrows ==
    ASSUME NEW D, NEW S, D \subseteq S
    PROVE  Seq(D) \subseteq Seq(S)
    OBVIOUS

LEMMA IdentifiersAre == Identifiers \subseteq Seq(Alphabet) \ {<<>>}
<1>. DEFINE letters == {Letter(c) : c \in {"a", "A", "underscore", ".", "/"}}
<1>0. letters \subseteq Alphabet /\ {Letter("-"), Letter("underscore")} \subseteq Alphabet
    <2>1. {"a", "A", "underscore", ".", "/"} \subseteq {"a", "A", "underscore", ".", "/", "-"}
        OBVIOUS
    <2>. QED
        BY <2>1, Zenon DEF Alphabet
<1>1. \A id \in Words(2) : Digest(id) \in Alphabet
    BY Zenon DEF Alphabet
<1>. HIDE DEF letters
<1>2. Words(3) \subseteq Seq(letters) \ {<<>>} /\ Words(2) \subseteq Seq(letters) \ {<<>>}
    <2>1. 3 \in Nat /\ 2 \in Nat
        OBVIOUS
    <2>. QED
        BY <2>1, WordsAre, Zenon DEF letters
<1>3. ASSUME NEW id \in Words(2) PROVE Digested(id) \in Seq(Alphabet) \ {<<>>}
    <2>1. id \in Seq(letters)
        BY <1>2, <1>3, Zenon
    <2>2. /\ Digested(id) \in Seq(letters \cup {Letter("underscore"), Letter("-"), Digest(id)})
          /\ Digested(id) # <<>>
        BY <2>1, DigestedIs, Zenon
    <2>3. letters \cup {Letter("underscore"), Letter("-"), Digest(id)} \subseteq Alphabet
        BY <1>0, <1>1, <1>3, Zenon
    <2>4. PICK D : D = letters \cup {Letter("underscore"), Letter("-"), Digest(id)} /\ D \subseteq Alphabet
        BY <2>3, Zenon
    <2>5. Digested(id) \in Seq(D)
        BY <2>2, <2>4, Zenon
    <2>6. Seq(D) \subseteq Seq(Alphabet)
        BY <2>4, SeqGrows, Zenon
    <2>. QED
        BY <2>2, <2>5, <2>6, Zenon
<1>4. Words(3) \subseteq Seq(Alphabet) \ {<<>>}
    <2>1. Seq(letters) \subseteq Seq(Alphabet)
        BY <1>0, SeqGrows, Zenon
    <2>. QED
        BY <1>2, <2>1, Zenon
<1>. QED
    BY <1>3, <1>4, Zenon DEF Identifiers

\* The names the checked roots, links and keys are made of.
NamesUsed == {"srv", "ws", "k", "out", "other", "elsewhere", ".", "..", "~"}

LEMMA NamesArePlain == {"srv", "ws", "k", "out", "other", "elsewhere"} \subseteq Plain(NamesUsed)
    BY Zenon DEF Plain, NamesUsed, Skipped

LEMMA LinksAre == Links \subseteq LinksOver(NamesUsed)
<1>1. Link \subseteq Seq(Plain(NamesUsed)) /\ Target \subseteq Seq(Plain(NamesUsed))
    BY NamesArePlain DEF Link, Target
<1>. QED
    BY <1>1 DEF Links, LinksOver

LEMMA RootsAre == Roots \subseteq [slashes : Nat, parts : Seq(NamesUsed)]
<1>. DEFINE parts == {<<>>, <<"srv">>, <<"srv", "ws">>, <<"srv", ".", "ws">>, <<"srv", "..">>,
                      <<"srv", "~">>}
<1>1. parts \subseteq Seq(NamesUsed)
    BY DEF NamesUsed
<1>2. Roots = [slashes : 0 .. 3, parts : parts]
    BY Zenon DEF Roots
<1>. HIDE DEF parts
<1>. QED
    BY <1>1, <1>2

(* models.py, safety.py and ssh/worker.py: in every run each identifier    *)
(* has a workspace of its own, but for one spelled with the digest of      *)
(* another at its end, and it is inside the root on either host.           *)
THEOREM WorkspacesAreAlwaysApart == ComponentsSpec => []WorkspacesAreApart
<1>1. ASSUME InputFits, input.kind = "identifier", NEW other \in Identifiers
      PROVE  KeysNeverMeet(input.id, other)
    BY <1>1, InputIs, IdentifiersAre, KeysAreApart
<1>2. ASSUME InputFits, input.kind = "path"
      PROVE  PathsStayInside(input.links, input.missing, input.root, input.name)
    <2>1. /\ input.links \in LinksOver(NamesUsed) /\ input.name \in NamesUsed
          /\ input.root \in [slashes : Nat, parts : Seq(NamesUsed)]
        BY <1>2, InputIs, LinksAre, RootsAre DEF NamesUsed
    <2>. QED
        BY <2>1, PathsAreInside, Zenon
<1>3. InputFits => WorkspacesAreApart
    BY <1>1, <1>2, Zenon DEF WorkspacesAreApart
<1>. QED
    BY <1>3, InputStays, PTL

=============================================================================
