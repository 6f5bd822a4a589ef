------------------------------- MODULE Claims -------------------------------
(***************************************************************************)
(* When two resource claims conflict (resources.py), on a file system that *)
(* does not tell the cases of a letter apart.  A target is the sequence of *)
(* its segments below the project root; a segment of a glob may be the     *)
(* wildcard "*" or "**", which stands for any number of segments.          *)
(***************************************************************************)
EXTENDS Naturals, Sequences, FiniteSets

CONSTANTS Segment,      \* the segments of the files there are
          Capital,      \* a capital spelling of some of them: a function to Segment
          MaxDepth,     \* of a file below the project root
          MaxParts      \* segments of a claim's target

VARIABLES left, right   \* the claims of two tasks that are compared

claimsVars == <<left, right>>

SeqsUpTo(S, n) == UNION {[1..k -> S] : k \in 0..n}

Files == SeqsUpTo(Segment, MaxDepth)
Spelled == Segment \cup DOMAIN Capital

\* A spelling with capitals is not the name of another file, and no file is named like a
\* wildcard.
ASSUME ClaimsAssumption ==
    /\ Capital \in [DOMAIN Capital -> Segment] /\ DOMAIN Capital \cap Segment = {}
    /\ {"*", "**"} \cap Spelled = {}
    /\ MaxDepth \in Nat /\ MaxParts \in Nat

Access == {"read", "write", "exclusive"}
Claim ==
    [kind : {"path", "directory"}, target : SeqsUpTo(Spelled, MaxParts), access : Access]
      \cup [kind : {"glob"}, target : SeqsUpTo(Spelled \cup {"*", "**"}, MaxParts), access : Access]

ClaimsInit == left \in Claim /\ right \in Claim

-----------------------------------------------------------------------------
(* What the code computes.                                                  *)

\* (mutated: targets are compared as they are spelled)
Folded_Exact(target) == target

\* _folded: one file has one identity, however a claim spells it.
Folded(target) ==
    [i \in DOMAIN target |->
        IF target[i] \in DOMAIN Capital THEN Capital[target[i]] ELSE target[i]]

IsWithin(path, dir) == Len(dir) <= Len(path) /\ SubSeq(path, 1, Len(dir)) = dir

Nested(a, b) == IsWithin(a, b) \/ IsWithin(b, a)

HasMagic(segment) == segment \in {"*", "**"}

\* The literal segments a pattern begins with.
StaticRoot(glob) ==
    LET magic == {i \in DOMAIN glob : HasMagic(glob[i])}
    IN  SubSeq(glob, 1, IF magic = {} THEN Len(glob)
                        ELSE (CHOOSE i \in magic : \A j \in magic : i <= j) - 1)

GlobMatches(glob, path) ==
    LET match[key \in (1..(Len(glob) + 1)) \X (1..(Len(path) + 1))] ==
          LET i == key[1]
              j == key[2]
          IN  IF i > Len(glob) THEN j > Len(path)
              ELSE IF glob[i] = "**"
              THEN match[<<i + 1, j>>] \/ (j <= Len(path) /\ match[<<i, j + 1>>])
              ELSE j <= Len(path) /\ glob[i] \in {"*", path[j]} /\ match[<<i + 1, j + 1>>]
    IN  match[<<1, 1>>]

\* _filesystem_targets_overlap: two globs, or a glob and a directory, overlap as soon as
\* the literal parts are nested.
TargetsOverlap(k, s, l, t) ==
    CASE k = "path" /\ l = "path"           -> s = t
      [] k = "directory" /\ l = "directory" -> Nested(s, t)
      [] k = "directory" /\ l = "path"      -> IsWithin(t, s)
      [] k = "path" /\ l = "directory"      -> IsWithin(s, t)
      [] k = "glob" /\ l = "path"           -> GlobMatches(s, t)
      [] k = "path" /\ l = "glob"           -> GlobMatches(t, s)
      [] k = "glob" /\ l = "glob"           -> Nested(StaticRoot(s), StaticRoot(t))
      [] k = "glob" /\ l = "directory"      -> Nested(StaticRoot(s), t)
      [] k = "directory" /\ l = "glob"      -> Nested(s, StaticRoot(t))

ClaimsMatch(a, b) == TargetsOverlap(a.kind, Folded(a.target), b.kind, Folded(b.target))

ClaimsConflict(a, b) ==
    /\ ClaimsMatch(a, b)
    /\ "exclusive" \in {a.access, b.access} \/ ~(a.access = "read" /\ b.access = "read")

-----------------------------------------------------------------------------
(* What a claim is about.                                                   *)

Fold1(segment) == IF segment \in DOMAIN Capital THEN Capital[segment] ELSE segment

\* A file is one a pattern names when the pattern's segments can be laid over its own.
Named(glob, file) ==
    \E cut \in [0..Len(glob) -> 0..Len(file)] :
        /\ cut[0] = 0 /\ cut[Len(glob)] = Len(file)
        /\ \A i \in 1..Len(glob) :
              IF glob[i] = "**" THEN cut[i - 1] <= cut[i]
              ELSE /\ cut[i] = cut[i - 1] + 1
                   /\ glob[i] = "*" \/ Fold1(glob[i]) = file[cut[i]]

FilesOf ==
    [c \in {[kind |-> x.kind, target |-> x.target] : x \in Claim} |->
        {f \in Files :
            CASE c.kind = "glob"      -> Named(c.target, f)
              [] c.kind = "path"      -> f = [i \in DOMAIN c.target |-> Fold1(c.target[i])]
              [] c.kind = "directory" ->
                    /\ Len(c.target) <= Len(f)
                    /\ \A i \in DOMAIN c.target : Fold1(c.target[i]) = f[i]}]

Touched(c) == FilesOf[[kind |-> c.kind, target |-> c.target]]

\* Two claims on one file conflict unless both only read it: no spelling, kind of claim or
\* pattern lets a second writer, or a reader beside an exclusive claim, at the same file.
FailClosed ==
    \/ Touched(left) \cap Touched(right) = {}
    \/ left.access = "read" /\ right.access = "read"
    \/ ClaimsConflict(left, right)
=============================================================================
