----------------------------- MODULE EffectGate -----------------------------
(***************************************************************************)
(* The effect reconciliation gate (core/erg.ts).  A path is a sequence of  *)
(* names, "/" and "."; a pattern may hold "*" and "**" besides ("?", which *)
(* the code passes on to the regular expression, is left out).             *)
(***************************************************************************)
EXTENDS Naturals, Sequences

Stars == {"*", "**"}
Tokens(s) == {s[i] : i \in 1..Len(s)}

\* The path is made of pieces that the tokens of the pattern stand for, one by
\* one: fits has the set of pieces of each token.
Pieces(path) == {SubSeq(path, i, j) : i \in 1..(Len(path) + 1), j \in 0..Len(path)}

Covers(path, pattern, fits) ==
  \E cut \in [0..Len(pattern) -> 0..Len(path)] :
    /\ cut[0] = 0 /\ cut[Len(pattern)] = Len(path)
    /\ \A i \in 1..Len(pattern) :
         /\ cut[i-1] <= cut[i]
         /\ SubSeq(path, cut[i-1] + 1, cut[i]) \in fits[i]

\* What the documentation promises: *, ** and literal paths.
IsGlobMatch(path, pattern) ==
  LET fits == [i \in 1..Len(pattern) |-> {piece \in Pieces(path) :
        \/ pattern[i] = "**"
        \/ pattern[i] = "*" /\ "/" \notin Tokens(piece)
        \/ pattern[i] \notin Stars /\ piece = <<pattern[i]>>}]
  IN Covers(path, pattern, fits)

\* The dot is escaped, ** becomes .* and * becomes [^/]*, unless it follows a
\* dot: there it is left as it is and repeats the dot.
Quantified(pattern, i) ==
  pattern[i] = "." /\ i < Len(pattern) /\ pattern[i+1] = "*"
Quantifier(pattern, i) ==
  pattern[i] = "*" /\ i > 1 /\ pattern[i-1] = "."

IsRegexMatch(path, pattern) ==
  LET fits == [i \in 1..Len(pattern) |-> {piece \in Pieces(path) :
        IF Quantified(pattern, i) THEN Tokens(piece) \subseteq {"."}
        ELSE IF Quantifier(pattern, i) THEN piece = << >>
        ELSE \/ pattern[i] = "**"
             \/ pattern[i] = "*" /\ "/" \notin Tokens(piece)
             \/ pattern[i] \notin Stars /\ piece = <<pattern[i]>>}]
  IN Covers(path, pattern, fits)

StartsWith(path, prefix) ==
  Len(prefix) <= Len(path) /\ SubSeq(path, 1, Len(prefix)) = prefix

\* Mutant: the dot is not escaped and stands for any character.
matchesUnescaped(path, pattern) ==
  LET fits == [i \in 1..Len(pattern) |-> {piece \in Pieces(path) :
        \/ pattern[i] = "**"
        \/ pattern[i] = "*" /\ "/" \notin Tokens(piece)
        \/ pattern[i] = "." /\ Len(piece) = 1
        \/ pattern[i] \notin Stars /\ piece = <<pattern[i]>>}]
  IN Covers(path, pattern, fits)

matchesPathPattern(path, pattern) ==
  \/ pattern = path
  \/ pattern[Len(pattern)] = "/" /\ StartsWith(path, pattern)
  \/ IsRegexMatch(path, pattern)

\* Every actual change is declared, allowed and not immutable.
reconcileTreeEffects(actual, declared, allowed, immutable) ==
  \A f \in actual :
    /\ f \in declared
    /\ \A p \in immutable : ~matchesPathPattern(f, p)
    /\ \E p \in allowed : matchesPathPattern(f, p)
=============================================================================
