---------------------------- MODULE WorkspacePaths ----------------------------
(***************************************************************************)
(* Where an issue's workspace is: the key models.py derives from its       *)
(* identifier, the containment check of workspace/safety.py under the host *)
(* file system's own folding and links, and the one of ssh/worker.py under *)
(* the remote host's, with the preflight that asks the remote shell.       *)
(*                                                                         *)
(* A path is the sequence of its component names.  An identifier and a key *)
(* are sequences of characters, of which a few matter; 16 hex digits that  *)
(* are the digest of an identifier stand in one as one character, and      *)
(* BLAKE2b is taken for injective: no two identifiers have one digest.     *)
(***************************************************************************)
EXTENDS Integers, Sequences, SequencesExt, FiniteSets

Letter(c) == [letter |-> c]
Digest(id) == [digest |-> id]

Rejected == <<"rejected">>

-----------------------------------------------------------------------------

Sanitize(id) == [n \in DOMAIN id |-> IF id[n] = Letter("/") THEN Letter("underscore") ELSE id[n]]

CaseFold(text) == [n \in DOMAIN text |-> IF text[n] = Letter("A") THEN Letter("a") ELSE text[n]]

(* rstrip(". "): trailing dots go, as a Windows file system has it.        *)
StripDots(text) ==
    LET kept == {n \in DOMAIN text : text[n] # Letter(".")}
    IN SubSeq(text, 1, IF kept = {} THEN 0 ELSE CHOOSE n \in kept : \A k \in kept : k <= n)

\* Mutant: only case is looked at.
FoldsByCase(text) == text # CaseFold(text)

FoldsAmbiguously(text) ==
    \/ text # CaseFold(text)
    \/ StripDots(text) # <<>> /\ StripDots(text) # text

Digested(id) == Sanitize(id) \o <<Letter("-"), Digest(id)>>

WorkspaceKey(id) ==
    IF Sanitize(id) = id /\ ~ FoldsAmbiguously(id) THEN id ELSE Digested(id)

(* What a folding file system makes of a key; hex digits do not fold.      *)
OnDisk(key) == CaseFold(IF StripDots(key) # <<>> THEN StripDots(key) ELSE key)

(* "a" and "A" stand for letters that fold together, the underscore and    *)
(* "." for the other allowed characters, "/" for one that sanitization     *)
(* replaces.                                                               *)
(* Nothing keeps a tracker from an identifier spelled like another's key.  *)
Words(n) == UNION {[1..k -> {Letter(c) : c \in {"a", "A", "underscore", ".", "/"}}] : k \in 1..n}
Identifiers == Words(3) \cup {Digested(id) : id \in Words(2)}

-----------------------------------------------------------------------------

(* normalize_abs: links, a function from some paths to where they lead, and *)
(* the two dot names are resolved from the left.                           *)
Skipped == {"", "."}

Enter(links, path, c) ==
    IF c \in Skipped THEN path
    ELSE IF c = ".." THEN IF path = <<>> THEN <<>> ELSE Front(path)
    ELSE IF Append(path, c) \in DOMAIN links THEN links[Append(path, c)]
    ELSE Append(path, c)

Resolve(links, path) ==
    LET at[n \in 0..Len(path)] ==
          IF n = 0 THEN <<>> ELSE Enter(links, at[n - 1], path[n])
    IN at[Len(path)]

NoLinks == <<>>

StrictlyWithin(path, root) == IsStrictPrefix(root, path)

(* path_for.                                                               *)
LocalWorkspace(links, root, name) ==
    LET base == Resolve(links, root)
        path == Resolve(links, Append(base, name))
    IN IF StrictlyWithin(path, base) THEN path ELSE Rejected

(* assert_launch_cwd: both sides resolved.                                 *)
LaunchAllowed(links, cwd, workspace) == Resolve(links, cwd) = Resolve(links, workspace)

-----------------------------------------------------------------------------

(* A remote path as text: its leading slashes and what stands between the  *)
(* others, "" where two meet.  "~", "$" and "\n" stand for a component     *)
(* with that character in it.                                              *)
Unsendable == {"\n"}
Unexpanded == {"~", "$"}

NormalizeRemote(text) ==
    IF \/ text.slashes = 0
       \/ text.slashes = 2
       \/ \E n \in DOMAIN text.parts :
            text.parts[n] \in Unsendable \cup Unexpanded \cup {".."}
    THEN Rejected
    ELSE Resolve(NoLinks, text.parts)

AssertRemoteWithin(path, root) ==
    LET target == NormalizeRemote(path)
        base == NormalizeRemote(root)
    IN IF Rejected \in {target, base} \/ ~ StrictlyWithin(target, base) THEN Rejected ELSE target

RemoteWorkspace(root, name) ==
    AssertRemoteWithin([root EXCEPT !.parts = Append(@, name)], root)

(* preflight: `cd root && pwd -P && cd ws && pwd -P`, and containment once *)
(* more on what the remote shell printed.  A directory that is not there,  *)
(* or not writable, fails the probe.                                       *)
Printed(path) == [slashes |-> 1, parts |-> path]

Preflighted(links, missing, root, ws) ==
    LET at == Resolve(links, NormalizeRemote(root))
        there == Resolve(links, ws)
    IN IF {at, there} \cap missing # {} THEN Rejected
       ELSE AssertRemoteWithin(Printed(there), Printed(at))

(* build_remote_launch_command and build_remote_cleanup_command, their     *)
(* paths checked again; `rm -rf -- ws` takes away a link, not its target.  *)
RemoteLaunch(links, missing, root, ws) ==
    IF Preflighted(links, missing, root, ws) = Rejected THEN Rejected ELSE Resolve(links, ws)

RemoteCleanup(links, missing, root, ws) ==
    IF \/ Preflighted(links, missing, root, ws) = Rejected
       \/ AssertRemoteWithin(Printed(ws), root) = Rejected
    THEN Rejected ELSE Append(Resolve(links, Front(ws)), Last(ws))

-----------------------------------------------------------------------------

(* models.py, workspace_key: a "collision-resistant workspace directory    *)
(* name", which a file system that folds case and drops trailing dots must *)
(* not undo.  Two identifiers share a directory only if one of them is     *)
(* spelled with the digest of the other at its end.                        *)
KeysNeverMeet(id, other) ==
    id # other /\ Last(id) # Digest(other) /\ Last(other) # Digest(id) =>
        OnDisk(WorkspaceKey(id)) # OnDisk(WorkspaceKey(other))

(* SPEC 9.5 invariants 1 and 2 on both sides: wherever links lead, a local *)
(* workspace path is strictly inside the resolved root, and a remote run   *)
(* starts, and a remote cleanup removes, strictly inside the root as the   *)
(* remote host resolves it.                                                *)
PathsStayInside(links, missing, root, name) ==
    LET base == NormalizeRemote(root)
        ws == RemoteWorkspace(root, name)
        local == LocalWorkspace(links, base, name)
    IN base # Rejected =>
        /\ local # Rejected => StrictlyWithin(local, Resolve(links, base))
        /\ ws # Rejected =>
            \A path \in {RemoteLaunch(links, missing, root, ws),
                         RemoteCleanup(links, missing, root, ws)} \ {Rejected} :
                StrictlyWithin(path, Resolve(links, base))

=============================================================================
