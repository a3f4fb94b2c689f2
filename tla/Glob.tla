-------------------------------- MODULE Glob --------------------------------
(***************************************************************************)
(* The patterns of policy rules: matchGlob, the tests matchFirst makes of  *)
(* a rule and the index BuildSnapshot keeps it in (pkg/policy/matcher.go). *)
(* A string is a sequence of characters.  Matches is the reference: what a *)
(* pattern means, with a star for any run of characters, empty or not.     *)
(***************************************************************************)
EXTENDS Integers, Sequences, Functions

\* strings.Split: the pieces between the stars, character by character.
Split(p) ==
    LET Pieces[i \in 0 .. Len(p)] ==
            IF i = 0 THEN << << >> >>
            ELSE IF p[i] = "*" THEN Append(Pieces[i - 1], << >>)
            ELSE [Pieces[i - 1] EXCEPT ![Len(Pieces[i - 1])] = Append(@, p[i])]
    IN  Pieces[Len(p)]

\* q is in s, right after the first i characters.
Occurs(q, s, i) == i + Len(q) <= Len(s) /\ \A x \in 1 .. Len(q) : s[i + x] = q[x]

\* strings.Index in what is left of s after r characters: where the first
\* occurrence of q ends, if there is one.
AfterFirst(q, s, r) ==
    LET at == {i \in r .. Len(s) : Occurs(q, s, i)}
    IN  {i + Len(q) : i \in {j \in at : \A k \in at : j <= k}}

\* The first piece at the start, each middle piece at its first occurrence
\* after the one before: how much of s they take, if they are all found.
Taken(parts, s) ==
    LET Upto[k \in 0 .. Len(parts) - 2] ==
            IF k = 0 THEN IF Occurs(parts[1], s, 0) THEN {Len(parts[1])} ELSE {}
            ELSE UNION {AfterFirst(parts[k + 1], s, r) : r \in Upto[k - 1]}
    IN  Upto[Len(parts) - 2]

\* Mutant: the last piece is looked for in all of s, not in what is left.
matchGlobOverlap(p, s) ==
    IF "*" \notin Range(p) THEN p = s
    ELSE LET parts == Split(p)
             from == Len(s) - Len(parts[Len(parts)])
         IN  \E r \in Taken(parts, s) : from >= 0 /\ Occurs(parts[Len(parts)], s, from)

matchGlob(p, s) ==
    IF "*" \notin Range(p) THEN p = s
    ELSE LET parts == Split(p)
             from == Len(s) - Len(parts[Len(parts)])
         IN  \E r \in Taken(parts, s) : from >= r /\ Occurs(parts[Len(parts)], s, from)

\* A rule as its patterns compile: exact says which bucket of the snapshot it
\* is in, keys which (caller, target, method) it matches.
Compiled(id, allow, caller, target, method, Keys) ==
    [id |-> id, allow |-> allow, exact |-> "*" \notin Range(target),
     keys |-> {k \in Keys : /\ matchGlob(caller, k.caller)
                            /\ matchGlob(target, k.target)
                            /\ method = << >> \/ matchGlob(method, k.method)}]

-----------------------------------------------------------------------------
\* The lengths of the prefixes of s that the first i characters of p mean.
Matches(p, s) ==
    LET Means[i \in 0 .. Len(p)] ==
            IF i = 0 THEN {0}
            ELSE IF p[i] = "*" THEN {j \in 0 .. Len(s) : \E k \in Means[i - 1] : k <= j}
            ELSE {j \in 1 .. Len(s) : j - 1 \in Means[i - 1] /\ s[j] = p[i]}
    IN  Len(s) \in Means[Len(p)]

Strings(chars, n) == UNION {[1 .. m -> chars] : m \in 0 .. n}
=============================================================================
