---------------------------- MODULE ShellProofs ----------------------------
(***************************************************************************)
(* Proofs about Shell and the modules below it, for every set of commands, *)
(* arguments, contents and bundled files.                                  *)
(***************************************************************************)
EXTENDS Shell, FileTreeProofs

-----------------------------------------------------------------------------
(***************************************************************************)
(* Short paths.                                                            *)
(***************************************************************************)

\* Sequences of up to three elements, and an element appended.
LEMMA ShortSequences ==
    ASSUME NEW S
    PROVE  /\ \A x \in S : <<x>> \in Seq(S) /\ Len(<<x>>) = 1
           /\ \A x, y \in S : <<x, y>> \in Seq(S) /\ Len(<<x, y>>) = 2
           /\ \A x, y, z \in S : <<x, y, z>> \in Seq(S) /\ Len(<<x, y, z>>) = 3
  OBVIOUS

\* The paths that the source spells out are paths.
LEMMA SpelledPaths ==
    /\ InvalidPath \in Names
    /\ {<<"user">>, <<"apps">>, <<"sys">>} \subseteq Paths
    /\ <<"sys", "apps">> \in Paths
    /\ InitializedPath \in Paths /\ SecurityPath \in Paths
    /\ \A id \in STRING : <<"user", "appdata", id>> \in Paths
<1>1. /\ \A x \in STRING : <<x>> \in Seq(STRING)
      /\ \A x, y \in STRING : <<x, y>> \in Seq(STRING)
      /\ \A x, y, z \in STRING : <<x, y, z>> \in Seq(STRING)
  BY ShortSequences, Zenon
<1>2. \A x, y, z : <<x>> # <<>> /\ <<x, y>> # <<>> /\ <<x, y, z>> # <<>>
  OBVIOUS
<1>3. /\ Forbidden \in STRING /\ "sys" \in STRING /\ "apps" \in STRING /\ "user" \in STRING
      /\ "config" \in STRING /\ "appdata" \in STRING /\ "security" \in STRING
      /\ "initialized" \in STRING
  BY StringsAssumption, Zenon
<1>. QED  BY <1>1, <1>2, <1>3, Zenon DEF InvalidPath, InitializedPath, SecurityPath, Names, Paths

-----------------------------------------------------------------------------
(***************************************************************************)
(* normalize_path.                                                         *)
(***************************************************************************)

\* A path without special components after the first k, and one without any.
CleanFrom(k, p) == p \in Names /\ \A i \in k + 1 .. Len(p) : p[i] \notin Special
Clean(p) == p \in Names /\ \A i \in 1 .. Len(p) : p[i] \notin Special

\* Clean from the first component is clean.
LEMMA CleanFromFirst == \A p : Clean(p) <=> CleanFrom(0, p)
  BY DEF Clean, CleanFrom

\* The paths that the loop of normalize_path has after each component.
Following(start, parts, after) ==
    /\ after[0] = start
    /\ \A n \in 1 .. Len(parts) : after[n] = FollowComponent(after[n - 1], parts[n])

\* The loop of normalize_path has a value after each component.
LEMMA FollowingExists ==
    ASSUME NEW start, NEW parts, Len(parts) \in Nat
    PROVE  \E after : /\ Following(start, parts, after)
                      /\ Follow(start, parts) =
                            IF Forbidden \in Range(parts) THEN InvalidPath ELSE after[Len(parts)]
<1>. DEFINE Round(f, n) == IF n = 0 THEN start ELSE FollowComponent(f[n - 1], parts[n])
            T == {k \in Nat : \E f : f = [n \in 0 .. k |-> Round(f, n)]}
<1>1. 0 \in T
  <2>1. PICK f : f = [n \in 0 .. 0 |-> start]
    BY Zenon
  <2>2. f = [n \in 0 .. 0 |-> Round(f, n)]
    BY <2>1
  <2>. QED  BY <2>2
<1>2. ASSUME NEW k \in T PROVE k + 1 \in T
  <2>1. PICK f : f = [n \in 0 .. k |-> Round(f, n)]
    OBVIOUS
  <2>2. PICK g : g = [n \in 0 .. k + 1 |-> Round(f, n)]
    BY Zenon
  <2>3. \A n \in 0 .. k : g[n] = f[n]
    <3>. HIDE DEF Round
    <3>. QED  BY <2>1, <2>2
  <2>4. \A n \in 0 .. k + 1 : Round(g, n) = Round(f, n)
    BY <2>3
  <2>5. g = [n \in 0 .. k + 1 |-> Round(g, n)]
    <3>. HIDE DEF Round
    <3>. QED  BY <2>2, <2>4
  <2>6. k + 1 \in Nat
    OBVIOUS
  <2>. HIDE DEF Round
  <2>. QED  BY <2>5, <2>6
<1>3. T = Nat
  <2>. HIDE DEF Round
  <2>1. T \subseteq Nat
    OBVIOUS
  <2>. HIDE DEF T
  <2>. QED  BY <1>1, <1>2, <2>1, Induction, Zenon
<1>4. \E f : f = [n \in 0 .. Len(parts) |-> Round(f, n)]
  <2>1. Len(parts) \in T
    BY <1>3
  <2>. QED  BY <2>1
<1>. DEFINE F == CHOOSE f : f = [n \in 0 .. Len(parts) |-> Round(f, n)]
<1>5. F = [n \in 0 .. Len(parts) |-> Round(F, n)]
  BY <1>4
<1>6. Follow(start, parts) = IF Forbidden \in Range(parts) THEN InvalidPath ELSE F[Len(parts)]
  BY DEF Follow
<1>. HIDE DEF F
<1>7. Following(start, parts, F)
  BY <1>5 DEF Following
<1>. QED  BY <1>6, <1>7

\* One round of normalize_path keeps a path, and a clean path unless it fails.
LEMMA FollowComponentFacts ==
    ASSUME NEW path \in Names, NEW component \in STRING, NEW k \in Nat
    PROVE  /\ FollowComponent(path, component) \in Names
           /\ CleanFrom(k, path) /\ component # Forbidden =>
                  \/ FollowComponent(path, component) = InvalidPath
                  \/ CleanFrom(k, FollowComponent(path, component))
<1>0. path \in Seq(STRING) /\ Len(path) \in Nat
  BY DEF Names
<1>1. InvalidPath \in Names
  BY SpelledPaths
<1>2. /\ Append(path, component) \in Names
      /\ CleanFrom(k, path) /\ component \notin Special => CleanFrom(k, Append(path, component))
  <2>1. /\ Append(path, component) \in Names
        /\ Len(Append(path, component)) = Len(path) + 1
        /\ \A i \in 1 .. Len(path) : Append(path, component)[i] = path[i]
        /\ Append(path, component)[Len(path) + 1] = component
    <3>1. Appended(path, component, Append(path, component))
      BY AppendFacts, Zenon
    <3>. QED  BY <3>1, Zenon DEF Appended, Paths
  <2>2. ASSUME NEW i \in k + 1 .. Len(path) + 1
        PROVE  (i \in k + 1 .. Len(path) /\ i \in 1 .. Len(path)) \/ i = Len(path) + 1
    BY <1>0
  <2>. QED  BY <2>1, <2>2, Zenon DEF CleanFrom
<1>3. ASSUME path # <<>>
      PROVE  Parent(path) \in Names /\ (CleanFrom(k, path) => CleanFrom(k, Parent(path)))
  <2>1. Len(path) - 1 \in 0 .. Len(path) /\ Len(path) - 1 \in Nat
    BY <1>0, <1>3
  <2>2. /\ SubSeq(path, 1, Len(path) - 1) \in Names
        /\ Len(SubSeq(path, 1, Len(path) - 1)) = Len(path) - 1
        /\ \A i \in 1 .. Len(path) - 1 : SubSeq(path, 1, Len(path) - 1)[i] = path[i]
    BY <2>1, BeginningFacts, Zenon
  <2>3. \A i \in k + 1 .. Len(path) - 1 : i \in k + 1 .. Len(path) /\ i \in 1 .. Len(path) - 1
    BY <1>0
  <2>. QED  BY <2>2, <2>3 DEF Parent, CleanFrom
<1>. QED  BY <1>1, <1>2, <1>3, Zenon DEF FollowComponent, Special

\* normalize_path yields a path and, unless it fails, leaves nothing special after the
\* first k components if there was nothing before.
LEMMA FollowKeeps ==
    ASSUME NEW start \in Names, NEW parts \in Names, NEW k \in Nat
    PROVE  /\ Follow(start, parts) \in Names
           /\ CleanFrom(k, start) =>
                  Follow(start, parts) = InvalidPath \/ CleanFrom(k, Follow(start, parts))
<1>0. Len(parts) \in Nat /\ \A n \in 1 .. Len(parts) : parts[n] \in STRING
  BY DEF Names
<1>1. PICK after : /\ Following(start, parts, after)
                   /\ Follow(start, parts) =
                          IF Forbidden \in Range(parts) THEN InvalidPath ELSE after[Len(parts)]
  BY <1>0, FollowingExists
<1>2. CASE Forbidden \in Range(parts)
  BY <1>1, <1>2, SpelledPaths
<1>3. CASE Forbidden \notin Range(parts)
  <2>1. \A n \in 1 .. Len(parts) : parts[n] # Forbidden
    BY <1>0, <1>3 DEF Range, Names
  <2>. DEFINE Fine(p) == p \in Names /\ (CleanFrom(k, start) => p = InvalidPath \/ CleanFrom(k, p))
              T == {n \in Nat : n <= Len(parts) => Fine(after[n])}
  <2>2. 0 \in T
    BY <1>1 DEF Following
  <2>3. ASSUME NEW n \in T PROVE n + 1 \in T
    <3>. SUFFICES ASSUME n + 1 <= Len(parts) PROVE Fine(after[n + 1])
      OBVIOUS
    <3>1. n + 1 \in 1 .. Len(parts) /\ n <= Len(parts) /\ n + 1 - 1 = n
      BY <1>0
    <3>2. Fine(after[n]) /\ after[n + 1] = FollowComponent(after[n], parts[n + 1])
      BY <1>1, <3>1 DEF Following
    <3>3. parts[n + 1] \in STRING /\ parts[n + 1] # Forbidden
      BY <1>0, <2>1, <3>1
    <3>4. after[n] = InvalidPath => after[n + 1] = InvalidPath
      BY <3>2 DEF FollowComponent
    <3>. QED  BY <3>2, <3>3, <3>4, FollowComponentFacts, Zenon
  <2>4. T = Nat
    <3>. HIDE DEF Fine
    <3>1. T \subseteq Nat
      OBVIOUS
    <3>. HIDE DEF T
    <3>. QED  BY <2>2, <2>3, <3>1, Induction, Zenon
  <2>5. Fine(after[Len(parts)])
    <3>. HIDE DEF Fine
    <3>1. Len(parts) \in T
      BY <1>0, <2>4
    <3>. QED  BY <1>0, <3>1
  <2>. QED  BY <1>1, <1>3, <2>5
<1>. QED  BY <1>2, <1>3

\* normalize_path yields a path, and a clean one from a clean one unless it fails.
LEMMA FollowFacts ==
    ASSUME NEW start \in Names, NEW parts \in Names
    PROVE  /\ Follow(start, parts) \in Names
           /\ Clean(start) => Follow(start, parts) = InvalidPath \/ Clean(Follow(start, parts))
  BY FollowKeeps, CleanFromFirst

\* The elements of two sequences, one after the other.
Concatenated(S, a, b, c) ==
    /\ c \in Seq(S) /\ Len(c) = Len(a) + Len(b)
    /\ \A n \in 1 .. Len(a) : c[n] = a[n]
    /\ \A n \in 1 .. Len(b) : c[Len(a) + n] = b[n]
Joined(a, b, c) == Concatenated(STRING, a, b, c)

\* The concatenation of two paths, component by component.
LEMMA JoinFacts ==
    ASSUME NEW a \in Names, NEW b \in Names
    PROVE  Joined(a, b, a \o b)
<1>1. ASSUME NEW S, NEW s \in Seq(S), NEW t \in Seq(S)
      PROVE  Concatenated(S, s, t, s \o t)
  BY DEF Concatenated
<1>. QED  BY <1>1, Zenon DEF Joined, Names

\* Following one path and then another is following both as one, unless the first fails.
LEMMA FollowComposes ==
    ASSUME NEW start \in Names, NEW a \in Names, NEW b \in Names, NEW c, Joined(a, b, c),
           Follow(start, a) # InvalidPath
    PROVE  Follow(Follow(start, a), b) = Follow(start, c)
<1>. DEFINE middle == Follow(start, a)
<1>0. /\ Len(a) \in Nat /\ Len(b) \in Nat /\ Len(c) = Len(a) + Len(b)
      /\ DOMAIN a = 1 .. Len(a) /\ DOMAIN b = 1 .. Len(b) /\ DOMAIN c = 1 .. Len(c)
  BY DEF Names, Joined, Concatenated
<1>1. PICK first : /\ Following(start, a, first)
                   /\ middle = IF Forbidden \in Range(a) THEN InvalidPath ELSE first[Len(a)]
  BY <1>0, FollowingExists
<1>2. PICK second : /\ Following(middle, b, second)
                    /\ Follow(middle, b) =
                           IF Forbidden \in Range(b) THEN InvalidPath ELSE second[Len(b)]
  BY <1>0, FollowingExists
<1>3. PICK both : /\ Following(start, c, both)
                  /\ Follow(start, c) =
                         IF Forbidden \in Range(c) THEN InvalidPath ELSE both[Len(c)]
  BY <1>0, FollowingExists, SMTT(30)
<1>4. Forbidden \notin Range(a) /\ middle = first[Len(a)]
  BY <1>1
<1>. HIDE DEF middle
<1>5. Forbidden \in Range(c) <=> Forbidden \in Range(b)
  <2>1. ASSUME NEW n \in 1 .. Len(c), c[n] = Forbidden PROVE Forbidden \in Range(b)
    <3>1. CASE n <= Len(a)
      <4>1. n \in 1 .. Len(a) /\ c[n] = a[n]
        BY <1>0, <3>1 DEF Joined, Concatenated
      <4>. QED  BY <1>0, <1>4, <2>1, <4>1 DEF Range
    <3>2. CASE n > Len(a)
      <4>1. n - Len(a) \in 1 .. Len(b) /\ n = Len(a) + (n - Len(a))
        BY <1>0, <3>2
      <4>2. c[n] = b[n - Len(a)]
        BY <4>1 DEF Joined, Concatenated
      <4>. QED  BY <1>0, <2>1, <4>1, <4>2 DEF Range
    <3>. QED  BY <1>0, <3>1, <3>2
  <2>2. ASSUME NEW n \in 1 .. Len(b), b[n] = Forbidden PROVE Forbidden \in Range(c)
    <3>1. Len(a) + n \in 1 .. Len(c) /\ c[Len(a) + n] = Forbidden
      BY <1>0, <2>2 DEF Joined, Concatenated
    <3>. QED  BY <1>0, <3>1 DEF Range
  <2>. QED  BY <1>0, <2>1, <2>2 DEF Range
<1>6. both[Len(a)] = first[Len(a)]
  <2>. DEFINE T == {n \in Nat : n <= Len(a) => both[n] = first[n]}
  <2>1. 0 \in T
    BY <1>1, <1>3 DEF Following
  <2>2. ASSUME NEW n \in T PROVE n + 1 \in T
    <3>. SUFFICES ASSUME n + 1 <= Len(a) PROVE both[n + 1] = first[n + 1]
      OBVIOUS
    <3>1. n + 1 \in 1 .. Len(a) /\ n + 1 \in 1 .. Len(c) /\ n + 1 - 1 = n /\ both[n] = first[n]
      BY <1>0
    <3>2. c[n + 1] = a[n + 1]
      BY <3>1 DEF Joined, Concatenated
    <3>. QED  BY <1>1, <1>3, <3>1, <3>2 DEF Following
  <2>3. T = Nat
    <3>1. T \subseteq Nat
      OBVIOUS
    <3>. HIDE DEF T
    <3>. QED  BY <2>1, <2>2, <3>1, Induction, Zenon
  <2>. QED  BY <1>0, <2>3
<1>7. both[Len(a) + Len(b)] = second[Len(b)]
  <2>. DEFINE T == {n \in Nat : n <= Len(b) => both[Len(a) + n] = second[n]}
  <2>1. 0 \in T
    BY <1>0, <1>2, <1>4, <1>6 DEF Following
  <2>2. ASSUME NEW n \in T PROVE n + 1 \in T
    <3>. SUFFICES ASSUME n + 1 <= Len(b) PROVE both[Len(a) + (n + 1)] = second[n + 1]
      OBVIOUS
    <3>1. /\ n + 1 \in 1 .. Len(b) /\ n + 1 - 1 = n /\ both[Len(a) + n] = second[n]
          /\ Len(a) + (n + 1) \in 1 .. Len(c) /\ Len(a) + (n + 1) - 1 = Len(a) + n
      BY <1>0
    <3>2. c[Len(a) + (n + 1)] = b[n + 1]
      BY <3>1 DEF Joined, Concatenated
    <3>3. both[Len(a) + (n + 1)] = FollowComponent(both[Len(a) + n], b[n + 1])
      BY <1>3, <3>1, <3>2 DEF Following
    <3>4. second[n + 1] = FollowComponent(second[n], b[n + 1])
      BY <1>2, <3>1 DEF Following
    <3>. QED  BY <3>1, <3>3, <3>4
  <2>3. T = Nat
    <3>1. T \subseteq Nat
      OBVIOUS
    <3>. HIDE DEF T
    <3>. QED  BY <2>1, <2>2, <3>1, Induction, Zenon
  <2>. QED  BY <1>0, <2>3
<1>8. Follow(middle, b) = Follow(start, c)
  BY <1>0, <1>2, <1>3, <1>5, <1>7
<1>. QED  BY <1>8 DEF middle

\* A clean path is followed component by component: normalize_path appends it.
LEMMA CleanAppends ==
    ASSUME NEW start \in Names, start # InvalidPath, NEW rest, Clean(rest)
    PROVE  Joined(start, rest, Follow(start, rest))
<1>0. /\ rest \in Names /\ Len(rest) \in Nat /\ Len(start) \in Nat /\ DOMAIN rest = 1 .. Len(rest)
      /\ \A n \in 1 .. Len(rest) : rest[n] \in STRING /\ rest[n] \notin Special
  BY DEF Clean, Names
<1>1. PICK after : /\ Following(start, rest, after)
                   /\ Follow(start, rest) =
                          IF Forbidden \in Range(rest) THEN InvalidPath ELSE after[Len(rest)]
  BY <1>0, FollowingExists
<1>2. Forbidden \notin Range(rest)
  BY <1>0, Zenon DEF Range, Special
<1>. DEFINE Reached(n, p) ==
                /\ p \in Names /\ Len(p) = Len(start) + n
                /\ \A i \in 1 .. Len(start) : p[i] = start[i]
                /\ \A i \in 1 .. n : p[Len(start) + i] = rest[i]
            T == {n \in Nat : n <= Len(rest) => Reached(n, after[n])}
<1>3. 0 \in T
  <2>1. after[0] = start
    BY <1>1 DEF Following
  <2>. QED  BY <1>0, <2>1
<1>4. ASSUME NEW n \in Nat, n <= Len(rest), NEW p, Reached(n, p) PROVE p # InvalidPath
  <2>. SUFFICES ASSUME p = InvalidPath PROVE FALSE
    OBVIOUS
  <2>1. Len(p) = 1 /\ p[1] = Forbidden
    BY DEF InvalidPath
  <2>2. Len(start) + n = 1 /\ Len(start) \in Nat
    BY <1>0, <1>4, <2>1, Zenon
  <2>3. CASE n = 0
    <3>1. Len(start) = 1 /\ 1 \in 1 .. Len(start)
      BY <2>2, <2>3
    <3>2. start[1] = Forbidden
      BY <1>4, <2>1, <3>1, Zenon
    <3>3. start = <<Forbidden>>
      BY <3>1, <3>2 DEF Names
    <3>. QED  BY <3>3 DEF InvalidPath
  <2>4. CASE n > 0
    <3>1. Len(start) = 0 /\ n = 1 /\ 1 \in 1 .. Len(rest) /\ 1 \in 1 .. n
      BY <1>0, <1>4, <2>2, <2>4
    <3>2. p[1] = rest[1]
      BY <1>4, <3>1
    <3>. QED  BY <1>0, <2>1, <3>1, <3>2, Zenon DEF Special
  <2>. QED  BY <2>3, <2>4
<1>5. ASSUME NEW n \in T PROVE n + 1 \in T
  <2>. SUFFICES ASSUME n + 1 <= Len(rest) PROVE Reached(n + 1, after[n + 1])
    OBVIOUS
  <2>1. n + 1 \in 1 .. Len(rest) /\ n <= Len(rest) /\ n + 1 - 1 = n
    BY <1>0
  <2>2. PICK p : p = after[n] /\ Reached(n, p)
    BY <2>1, SMTT(30)
  <2>3. PICK c \in STRING : c = rest[n + 1] /\ c \notin Special
    BY <1>0, <2>1
  <2>4. p # InvalidPath
    <3>. HIDE DEF Reached
    <3>. QED  BY <1>4, <2>1, <2>2
  <2>5. after[n + 1] = FollowComponent(p, c)
    BY <1>1, <2>1, <2>2, <2>3 DEF Following
  <2>6. after[n + 1] = Append(p, c)
    BY <2>3, <2>4, <2>5, Zenon DEF FollowComponent, Special
  <2>7. Appended(p, c, after[n + 1])
    BY <2>2, <2>3, <2>6, AppendFacts
  <2>8. PICK q : q = after[n + 1] /\ Appended(p, c, q)
    BY <2>7, Zenon
  <2>9. q \in Names /\ Len(q) = Len(start) + (n + 1)
    BY <1>0, <2>2, <2>8 DEF Appended, Paths
  <2>10. \A i \in 1 .. Len(start) : q[i] = start[i]
    BY <1>0, <2>2, <2>8, SMTT(30) DEF Appended
  <2>11. ASSUME NEW i \in 1 .. n + 1 PROVE q[Len(start) + i] = rest[i]
    BY <1>0, <2>2, <2>3, <2>8, SMTT(30) DEF Appended
  <2>. QED  BY <2>8, <2>9, <2>10, <2>11
<1>6. T = Nat
  <2>. HIDE DEF Reached
  <2>1. T \subseteq Nat
    OBVIOUS
  <2>. HIDE DEF T
  <2>. QED  BY <1>3, <1>5, <2>1, Induction, Zenon
<1>7. Reached(Len(rest), after[Len(rest)])
  <2>. HIDE DEF Reached
  <2>1. Len(rest) \in T
    BY <1>0, <1>6
  <2>. QED  BY <1>0, <2>1
<1>. QED  BY <1>1, <1>2, <1>7 DEF Joined, Concatenated, Names

\* The normalization with which every call of Vfs begins yields a path, and changes no
\* clean one.
LEMMA NormalizedFacts ==
    ASSUME NEW path \in Names
    PROVE  /\ Normalized(path) = Follow(<<>>, path) /\ Normalized(path) \in Names
           /\ Clean(path) => Normalized(path) = path
<1>1. Normalized(path) = Follow(<<>>, path)
  BY DEF Normalized, NormalizePath
<1>2. <<>> \in Names /\ <<>> # InvalidPath /\ Len(<<>>) = 0
  BY DEF Names, InvalidPath
<1>3. Normalized(path) \in Names
  BY <1>1, <1>2, FollowFacts
<1>4. ASSUME Clean(path) PROVE Normalized(path) = path
  <2>1. PICK p : p = Normalized(path) /\ Joined(<<>>, path, p)
    BY <1>1, <1>2, <1>4, CleanAppends
  <2>2. p \in Names /\ Len(p) = Len(path) /\ \A n \in 1 .. Len(path) : p[n] = path[n]
    BY <1>2, <2>1 DEF Joined, Concatenated, Names
  <2>3. p = path
    BY <2>2 DEF Names
  <2>. QED  BY <2>1, <2>3
<1>. QED  BY <1>1, <1>3, <1>4

\* What resolve_appdata lets through stays below what its root names.
LEMMA NormalizedBelow ==
    ASSUME NEW root \in Names, NEW start \in Names, Len(start) <= Len(root),
           NEW parts \in Names, NEW p, p = Follow(start, parts), p # InvalidPath,
           IsPrefix(root, p), Normalized(root) # InvalidPath
    PROVE  IsPrefix(Normalized(root), Normalized(p))
<1>0. p \in Names /\ Len(root) \in Nat /\ Len(p) \in Nat
  BY FollowFacts DEF Names
<1>1. Len(root) <= Len(p) /\ \A i \in 1 .. Len(root) : root[i] = p[i]
  BY <1>0, PrefixByComponent
<1>2. CleanFrom(Len(root), p)
  <2>1. CleanFrom(Len(root), start)
    BY <1>0 DEF CleanFrom, Names
  <2>. QED  BY <1>0, <2>1, FollowKeeps
<1>3. PICK rest : rest = SubSeq(p, Len(root) + 1, Len(p))
  BY Zenon
<1>4. /\ rest \in Names /\ Len(rest) = Len(p) - Len(root)
      /\ \A i \in 1 .. Len(rest) : rest[i] = p[Len(root) + i]
  <2>1. p \in Seq(STRING) /\ Len(root) + 1 \in 1 .. Len(p) + 1 /\ Len(p) \in (Len(root) + 1) - 1 .. Len(p)
    BY <1>0, <1>1 DEF Names
  <2>2. /\ rest \in Seq(STRING) /\ Len(rest) = Len(p) - (Len(root) + 1) + 1
        /\ \A i \in 1 .. Len(p) - (Len(root) + 1) + 1 : rest[i] = p[(Len(root) + 1) + i - 1]
    BY <1>3, <2>1, SubSeqFacts, Zenon
  <2>. QED  BY <1>0, <2>2 DEF Names
<1>5. Clean(rest)
  BY <1>0, <1>2, <1>4 DEF Clean, CleanFrom
<1>6. Joined(root, rest, p)
  BY <1>0, <1>1, <1>4 DEF Joined, Concatenated, Names
<1>7. PICK base \in Names : base = Normalized(root)
  BY NormalizedFacts
<1>8. Normalized(p) = Follow(base, rest)
  <2>1. <<>> \in Names
    BY DEF Names
  <2>2. base = Follow(<<>>, root) /\ Normalized(p) = Follow(<<>>, p)
    BY <1>0, <1>7, NormalizedFacts
  <2>. QED  BY <1>4, <1>6, <1>7, <2>1, <2>2, FollowComposes
<1>9. Joined(base, rest, Normalized(p))
  BY <1>5, <1>7, <1>8, CleanAppends
<1>10. PICK q : q = Normalized(p) /\ Joined(base, rest, q)
  BY <1>9
<1>11. q \in Names /\ Len(base) <= Len(q) /\ \A i \in 1 .. Len(base) : base[i] = q[i]
  BY <1>4, <1>7, <1>10 DEF Joined, Concatenated, Names
<1>. QED  BY <1>7, <1>10, <1>11, PrefixByComponent

\* Relative paths compose below every directory that cd can reach (normalize_path).
LEMMA CleanComposes ==
    ASSUME Clean(cwd)
    PROVE  NormalizeComposes
<1>. SUFFICES ASSUME NEW a \in Arguments \cup Directories, NEW b \in Arguments \cup Directories,
                     NEW p, p = NormalizePath(cwd, a), p # InvalidPath
              PROVE  /\ Range(p) \cap Special = {}
                     /\ ~b.absolute =>
                            NormalizePath(p, b) =
                            NormalizePath(cwd, [absolute |-> a.absolute, parts |-> a.parts \o b.parts])
  BY Zenon DEF NormalizeComposes
<1>1. a.parts \in Names /\ b.parts \in Names
  BY ArgumentsAssumption, TypedAssumption DEF Inputs
<1>2. PICK start : start = IF a.absolute THEN <<>> ELSE cwd
  OBVIOUS
<1>3. Clean(start) /\ start \in Names
  <2>1. Clean(<<>>)
    BY DEF Clean, Names
  <2>. QED  BY <1>2, <2>1 DEF Clean
<1>4. p = Follow(start, a.parts)
  BY <1>2 DEF NormalizePath
<1>5. Clean(p)
  BY <1>1, <1>3, <1>4, FollowFacts
<1>6. Range(p) \cap Special = {}
  <2>1. DOMAIN p = 1 .. Len(p)
    BY <1>5 DEF Clean, Names
  <2>. QED  BY <1>5, <2>1 DEF Clean, Range
<1>7. Joined(a.parts, b.parts, a.parts \o b.parts)
  BY <1>1, JoinFacts
<1>8. ~b.absolute => NormalizePath(p, b) = Follow(p, b.parts)
  BY DEF NormalizePath
<1>9. Follow(p, b.parts) = Follow(start, a.parts \o b.parts)
  BY <1>1, <1>3, <1>4, <1>7, FollowComposes
<1>10. NormalizePath(cwd, [absolute |-> a.absolute, parts |-> a.parts \o b.parts]) =
           Follow(start, a.parts \o b.parts)
  BY <1>2 DEF NormalizePath
<1>. QED  BY <1>6, <1>8, <1>9, <1>10

-----------------------------------------------------------------------------
(***************************************************************************)
(* The calls of the VFS on the desktop.                                    *)
(***************************************************************************)

\* persistent_path lets through only what is at or below a data root.
LEMMA PersistentFacts ==
    ASSUME NEW p \in Names, Persistent(p)
    PROVE  p \in Paths /\ p[1] \in DataRoots
<1>1. ASSUME NEW x \in STRING, IsPrefix(<<x>>, p) PROVE p \in Paths /\ p[1] = x
  <2>1. <<x>> \in Names /\ Len(<<x>>) = 1 /\ <<x>>[1] = x
    <3>1. <<x>> \in Seq(STRING) /\ Len(<<x>>) = 1
      BY ShortSequences, Zenon
    <3>. QED  BY <3>1, Zenon DEF Names
  <2>2. 1 <= Len(p) /\ p[1] = x
    <3>1. PICK r \in Names : r = <<x>> /\ Len(r) = 1 /\ r[1] = x
      BY <2>1, Zenon
    <3>2. IsPrefix(r, p)
      BY <1>1, <3>1
    <3>3. 1 <= Len(p) /\ r[1] = p[1]
      <4>1. Len(r) = 1
        BY <3>1
      <4>. QED  BY <3>2, <4>1, PrefixByComponent, SMTT(30)
    <3>. QED  BY <3>1, <3>3, Zenon
  <2>3. p # <<>>
    BY <2>2
  <2>. QED  BY <2>2, <2>3 DEF Paths
<1>2. "apps" \in STRING /\ "user" \in STRING
  BY StringsAssumption, Zenon
<1>. QED  BY <1>1, <1>2 DEF Persistent, DataRoots

\* No error of normalize_path is taken for a path of the storage.
LEMMA InvalidIsNotPersistent == ~Persistent(InvalidPath)
<1>1. InvalidPath \in Names
  BY SpelledPaths
<1>2. InvalidPath[1] \notin DataRoots
  BY DEF InvalidPath, DataRoots, Forbidden
<1>. QED  BY <1>1, <1>2, PersistentFacts

\* Vfs::write, whatever the host does.
LEMMA VfsWritesFacts ==
    ASSUME NEW t, Good(t, DataRoots), NEW path, NEW p \in Names, p = Normalized(path), NEW d,
           NEW o \in VfsWrites(t, path, d)
    PROVE  Changes(t, o.tree, Below(p))
<1>1. CASE ~Persistent(p)
  BY <1>1, SameFiles DEF VfsWrites, Err
<1>2. CASE Persistent(p)
  <2>1. p \in Paths /\ p[1] \in DataRoots
    BY <1>2, PersistentFacts
  <2>2. ASSUME NEW e, NEW w, w = DesktopWrite(t, p, e) PROVE Changes(t, w.tree, Below(p))
    BY <2>1, <2>2, DesktopWriteFacts
  <2>3. ASSUME NEW u \in CreateDirLeaves(t, Parent(p)) PROVE Changes(t, u, Below(p))
    <3>1. Parent(p) \in Names /\ (Parent(p) # <<>> => Parent(p)[1] \in DataRoots)
      BY <2>1, ParentPrefix
    <3>. QED  BY <3>1, CreateDirLeavesFacts, SameFiles
  <2>4. CASE o = DesktopWrite(t, p, d)
    BY <2>2, <2>4, SMTT(30)
  <2>5. CASE \E u \in WriteLeaves(t, p) : o = Err(u)
    <3>1. PICK u \in WriteLeaves(t, p) : o.tree = u
      BY <2>5 DEF Err
    <3>2. u \in CreateDirLeaves(t, Parent(p)) \/ u = DesktopWrite(t, p, Cut).tree
      BY DEF WriteLeaves
    <3>. QED  BY <2>2, <2>3, <3>1, <3>2
  <2>. QED  BY <1>2, <2>4, <2>5 DEF VfsWrites
<1>. QED  BY <1>1, <1>2

\* Vfs::create_dir_all touches no file.
LEMMA VfsCreatesDirAllFacts ==
    ASSUME NEW t, Good(t, DataRoots), NEW path, NEW p \in Names, p = Normalized(path),
           NEW o \in VfsCreatesDirAll(t, path), NEW S
    PROVE  Changes(t, o.tree, S)
<1>1. CASE ~Persistent(p)
  BY <1>1, SameFiles DEF VfsCreatesDirAll, Err
<1>2. CASE Persistent(p)
  <2>1. p \in Paths /\ p[1] \in DataRoots
    BY <1>2, PersistentFacts
  <2>2. CASE o = DesktopCreateDirAll(t, p)
    BY <2>1, <2>2, DesktopCreateFacts, SameFiles
  <2>3. CASE \E u \in CreateDirLeaves(t, p) : o = Err(u)
    <3>1. PICK u \in CreateDirLeaves(t, p) : o.tree = u
      BY <2>3, SMTT(30) DEF Err
    <3>. QED  BY <2>1, <3>1, CreateDirLeavesFacts, SameFiles
  <2>. QED  BY <1>2, <2>2, <2>3 DEF VfsCreatesDirAll
<1>. QED  BY <1>1, <1>2

\* Vfs::remove touches nothing but what is at or below its path, even if it stops half way.
LEMMA VfsRemovesFacts ==
    ASSUME NEW t, Good(t, DataRoots), NEW path, NEW p \in Names, p = Normalized(path),
           NEW o \in VfsRemoves(t, path)
    PROVE  Changes(t, o.tree, Below(p))
<1>. DEFINE entries == Files(t) \cup t.dirs
<1>0. entries \subseteq Paths /\ entries \subseteq Names
  BY DEF Good, Paths
<1>1. CASE o.tree = t
  BY <1>1, SameFiles, SMTT(30)
<1>2. ASSUME NEW gone, gone \subseteq Below(p), Without(t, gone, o.tree),
             \A q \in gone, r \in entries : IsStrictPrefix(q, r) => r \in gone
      PROVE  Changes(t, o.tree, Below(p))
  <2>1. /\ Good(o.tree, DataRoots) /\ Files(o.tree) = Files(t) \ gone
        /\ \A q \in Files(o.tree) : o.tree.files[q] = t.files[q]
    BY <1>2, WithoutFacts
  <2>. QED  BY <1>2, <2>1, SMTT(30) DEF Changes
<1>3. CASE o = DesktopRemove(t, p) /\ Existing(t, p) = "found"
  <2>. DEFINE gone == {q \in entries : IsPrefix(p, q)}
  <2>1. gone \subseteq Below(p)
    BY <1>0 DEF Below
  <2>2. Without(t, gone, o.tree)
    <3>1. o.tree = [files |-> RestrictDomain(t.files, LAMBDA q : ~IsPrefix(p, q)),
                    dirs |-> {q \in t.dirs : ~IsPrefix(p, q)}]
      BY <1>3 DEF DesktopRemove, Ok
    <3>2. RestrictDomain(t.files, LAMBDA q : ~IsPrefix(p, q)) = [q \in Files(t) \ gone |-> t.files[q]]
      <4>1. {q \in Files(t) : ~IsPrefix(p, q)} = Files(t) \ gone
        OBVIOUS
      <4>. QED  BY <4>1 DEF RestrictDomain, Restrict, Files
    <3>3. {q \in t.dirs : ~IsPrefix(p, q)} = t.dirs \ gone
      OBVIOUS
    <3>. QED  BY <3>1, <3>2, <3>3 DEF Without
  <2>3. ASSUME NEW q \in gone, NEW r \in entries, IsStrictPrefix(q, r) PROVE r \in gone
    BY <1>0, <2>3, PrefixOrder, SMTT(30) DEF IsStrictPrefix
  <2>. HIDE DEF gone
  <2>. QED  BY <1>2, <2>1, <2>2, <2>3
<1>4. CASE \E u \in RemoveLeaves(t, p) : o = Err(u)
  <2>. DEFINE below == {q \in entries : IsStrictPrefix(p, q)}
  <2>1. PICK gone \in SUBSET below :
            /\ \A q \in gone, r \in below : IsPrefix(q, r) => r \in gone
            /\ o = Err([files |-> Restrict(t.files, Files(t) \ gone), dirs |-> t.dirs \ gone])
    BY <1>4, Zenon DEF RemoveLeaves
  <2>2. Without(t, gone, o.tree)
    BY <2>1 DEF Without, Restrict, Err, Files
  <2>3. gone \subseteq Below(p) /\ gone \subseteq Names
    BY <1>0, SMTT(30) DEF Below, IsStrictPrefix
  <2>4. ASSUME NEW q \in gone, NEW r \in entries, IsStrictPrefix(q, r) PROVE r \in gone
    <3>1. IsPrefix(p, q) /\ IsPrefix(q, r) /\ Len(p) < Len(q) /\ Len(q) < Len(r) /\ Len(p) \in Nat /\ Len(q) \in Nat /\ Len(r) \in Nat
      BY <1>0, <2>3, <2>4, PrefixOrder, SMTT(30) DEF IsStrictPrefix
    <3>2. IsPrefix(p, r) /\ p # r
      BY <1>0, <2>3, <3>1, PrefixOrder
    <3>. QED  BY <2>1, <3>1, <3>2, SMTT(30) DEF IsStrictPrefix
  <2>. QED  BY <1>2, <2>2, <2>3, <2>4
<1>5. CASE o = DesktopRemove(t, p) /\ Existing(t, p) # "found"
  BY <1>1, <1>5 DEF DesktopRemove, Err
<1>. QED  BY <1>1, <1>3, <1>4, <1>5 DEF VfsRemoves, Err

\* Vfs::rename touches nothing but what is at or below its source and its target.
LEMMA VfsRenamesFacts ==
    ASSUME NEW t, Good(t, DataRoots), NEW source, NEW target, NEW from \in Names, NEW to \in Names,
           from = Normalized(source), to = Normalized(target), NEW o \in VfsRenames(t, source, target)
    PROVE  Changes(t, o.tree, Below(from) \cup Below(to))
<1>1. CASE ~(Persistent(from) /\ Persistent(to))
  BY <1>1, SameFiles DEF VfsRenames, Err
<1>2. CASE Persistent(from) /\ Persistent(to)
  <2>1. from \in Paths /\ to \in Paths /\ to[1] \in DataRoots
    BY <1>2, PersistentFacts
  <2>2. CASE o = DesktopRename(t, from, to)
    <3>1. PICK made : made = Writable(t, to)
      BY SMTT(30)
    <3>2. /\ Good(made.tree, DataRoots) /\ made.tree.files = t.files
          /\ t.dirs \subseteq made.tree.dirs /\ (made.ok => HasParents(made.tree, to))
      BY <2>1, <3>1, WritableFacts
    <3>3. CASE Existing(t, from) # "found"
      BY <2>2, <3>3, SameFiles, SMTT(30) DEF DesktopRename, Err
    <3>4. CASE Existing(t, from) = "found" /\ ~made.ok
      <4>1. o = made
        BY <2>2, <3>1, <3>4, SMTT(30) DEF DesktopRename
      <4>. QED  BY <3>2, <4>1, SameFiles
    <3>5. CASE Existing(t, from) = "found" /\ made.ok
      <4>1. o = HostRename(made.tree, from, to)
        BY <2>2, <3>1, <3>5, SMTT(30) DEF DesktopRename
      <4>2. Exists(made.tree, from)
        BY <3>2, <3>5, SMTT(30) DEF Existing, Exists, Files
      <4>3. Changes(made.tree, o.tree, Below(from) \cup Below(to))
        BY <2>1, <3>2, <3>5, <4>1, <4>2, HostRenameFacts
      <4>. QED  BY <3>2, <4>3 DEF Changes, Files
    <3>. QED  BY <3>3, <3>4, <3>5
  <2>3. CASE \E u \in RenameLeaves(t, from, to) : o = Err(u)
    <3>1. PICK u \in RenameLeaves(t, from, to) : o.tree = u
      BY <2>3 DEF Err
    <3>2. Parent(to) \in Names /\ (Parent(to) # <<>> => Parent(to)[1] \in DataRoots)
      BY <2>1, ParentPrefix
    <3>3. u = t \/ u \in CreateDirLeaves(t, Parent(to))
      BY DEF RenameLeaves
    <3>4. Good(u, DataRoots) /\ u.files = t.files
      BY <3>2, <3>3, CreateDirLeavesFacts
    <3>. QED  BY <3>1, <3>4, SameFiles
  <2>. QED  BY <1>2, <2>2, <2>3 DEF VfsRenames
<1>. QED  BY <1>1, <1>2, SMTT(30)

-----------------------------------------------------------------------------
(***************************************************************************)
(* initialize_layout.                                                      *)
(***************************************************************************)

\* What initialize_layout has made after each of the first n directories.
LayingOut(t, n, after) ==
    /\ after[0] = Ok(t)
    /\ \A k \in 1 .. n : after[k] = CreateNext(after[k - 1], Layout[k])

\* The loop of initialize_layout has a value after each directory.
LEMMA LayingOutExists ==
    ASSUME NEW t, NEW n \in Nat
    PROVE  \E after : LayingOut(t, n, after) /\ LaidOut(t, n) = after[n]
<1>. DEFINE Round(f, k) == IF k = 0 THEN Ok(t) ELSE CreateNext(f[k - 1], Layout[k])
            T == {m \in Nat : \E f : f = [k \in 0 .. m |-> Round(f, k)]}
<1>1. 0 \in T
  <2>1. PICK f : f = [k \in 0 .. 0 |-> Ok(t)]
    BY Zenon
  <2>2. f = [k \in 0 .. 0 |-> Round(f, k)]
    BY <2>1
  <2>. QED  BY <2>2
<1>2. ASSUME NEW m \in T PROVE m + 1 \in T
  <2>1. PICK f : f = [k \in 0 .. m |-> Round(f, k)]
    OBVIOUS
  <2>2. PICK g : g = [k \in 0 .. m + 1 |-> Round(f, k)]
    BY Zenon
  <2>3. \A k \in 0 .. m : g[k] = f[k]
    <3>. HIDE DEF Round
    <3>. QED  BY <2>1, <2>2
  <2>4. \A k \in 0 .. m + 1 : Round(g, k) = Round(f, k)
    BY <2>3
  <2>5. g = [k \in 0 .. m + 1 |-> Round(g, k)]
    <3>. HIDE DEF Round
    <3>. QED  BY <2>2, <2>4
  <2>6. m + 1 \in Nat
    OBVIOUS
  <2>. HIDE DEF Round
  <2>. QED  BY <2>5, <2>6
<1>3. T = Nat
  <2>. HIDE DEF Round
  <2>1. T \subseteq Nat
    OBVIOUS
  <2>. HIDE DEF T
  <2>. QED  BY <1>1, <1>2, <2>1, Induction, Zenon
<1>4. \E f : f = [k \in 0 .. n |-> Round(f, k)]
  <2>1. n \in T
    BY <1>3, Zenon
  <2>. QED  BY <2>1
<1>. DEFINE F == CHOOSE f : f = [k \in 0 .. n |-> Round(f, k)]
<1>5. F = [k \in 0 .. n |-> Round(F, k)]
  BY <1>4, Zenon
<1>6. LaidOut(t, n) = F[n]
  BY DEF LaidOut
<1>. HIDE DEF F
<1>7. LayingOut(t, n, F)
  BY <1>5 DEF LayingOut
<1>. QED  BY <1>6, <1>7

\* initialize_layout leaves a good tree, however far it gets.
LEMMA LaidOutIsGood ==
    ASSUME NEW t, Good(t, DataRoots), NEW n \in 0 .. Len(Layout)
    PROVE  Good(LaidOut(t, n).tree, DataRoots)
<1>0. Len(Layout) = 5
  BY DEF Layout
<1>1. ASSUME NEW k \in 1 .. 5 PROVE Layout[k] \in Paths /\ Layout[k][1] \in DataRoots
  <2>1. Layout[k] \in {<<"apps">>, <<"user">>, <<"user", "config">>, <<"user", "saves">>, <<"user", "appdata">>}
    BY DEF Layout
  <2>2. \A y \in STRING : <<"user", y>> \in Paths
    <3>1. "user" \in STRING
      BY StringsAssumption, Zenon
    <3>2. \A x, y \in STRING : <<x, y>> \in Seq(STRING)
      BY ShortSequences, Zenon
    <3>3. \A x, y : <<x, y>> # <<>>
      OBVIOUS
    <3>. QED  BY <3>1, <3>2, <3>3, Zenon DEF Paths, Names
  <2>3. "config" \in STRING /\ "saves" \in STRING /\ "appdata" \in STRING
    BY StringsAssumption, Zenon
  <2>4. <<"apps">> \in Paths /\ <<"user">> \in Paths
    BY SpelledPaths, Zenon
  <2>5. Layout[k] \in Paths
    BY <2>1, <2>2, <2>3, <2>4, Zenon
  <2>6. Layout[k][1] \in DataRoots
    BY <2>1 DEF DataRoots
  <2>. QED  BY <2>5, <2>6
<1>2. PICK after : LayingOut(t, n, after) /\ LaidOut(t, n) = after[n]
  BY <1>0, LayingOutExists
<1>. DEFINE T == {k \in Nat : k <= n => Good(after[k].tree, DataRoots)}
<1>3. 0 \in T
  BY <1>2 DEF LayingOut, Ok
<1>4. ASSUME NEW k \in T PROVE k + 1 \in T
  <2>. SUFFICES ASSUME k + 1 <= n PROVE Good(after[k + 1].tree, DataRoots)
    OBVIOUS
  <2>1. k + 1 \in 1 .. n /\ k + 1 \in 1 .. 5 /\ k + 1 - 1 = k /\ Good(after[k].tree, DataRoots)
    BY <1>0
  <2>2. after[k + 1] = CreateNext(after[k], Layout[k + 1])
    BY <1>2, <2>1 DEF LayingOut
  <2>3. Layout[k + 1] \in Paths /\ Layout[k + 1][1] \in DataRoots
    BY <1>1, <2>1
  <2>4. PICK made : made = DesktopCreateDirAll(after[k].tree, Layout[k + 1])
    OBVIOUS
  <2>5. Good(made.tree, DataRoots)
    BY <2>1, <2>3, <2>4, DesktopCreateFacts
  <2>. QED  BY <2>1, <2>2, <2>4, <2>5 DEF CreateNext
<1>5. T = Nat
  <2>1. T \subseteq Nat
    OBVIOUS
  <2>. HIDE DEF T
  <2>. QED  BY <1>3, <1>4, <2>1, Induction, Zenon
<1>. QED  BY <1>0, <1>2, <1>5

-----------------------------------------------------------------------------
(***************************************************************************)
(* resolve_command.                                                        *)
(***************************************************************************)

\* The path with the name's extension differs in its last component only.
LEMMA WithExtensionFacts ==
    ASSUME NEW p \in Paths, Undotted(p), NEW q, q = WithExtension(p)
    PROVE  /\ q \in Paths /\ Len(q) = Len(p) /\ Last(q) = Rhai[Last(p)]
           /\ Last(q) \in Range(Rhai)
           /\ Len(p) > 1 => q[1] = p[1]
<1>1. /\ Parent(p) \in Names /\ Len(Parent(p)) = Len(p) - 1 /\ Len(p) \in Nat \ {0}
      /\ Len(p) > 1 => Parent(p)[1] = p[1]
  <2>1. Parent(p) \in Names /\ Len(Parent(p)) = Len(p) - 1 /\ (Parent(p) # <<>> => Parent(p)[1] = p[1])
    BY ParentPrefix
  <2>2. Len(p) \in Nat \ {0}
    BY DEF Paths, Names
  <2>3. Len(p) > 1 => Parent(p) # <<>>
    BY <2>1, <2>2
  <2>. QED  BY <2>1, <2>2, <2>3
<1>2. Last(p) \in DOMAIN Rhai /\ Rhai[Last(p)] \in Range(Rhai)
  BY DEF Undotted, Range
<1>3. PICK name : name = Rhai[Last(p)] /\ name \in STRING /\ name \in Range(Rhai)
  BY <1>2, RhaiAssumption, Zenon
<1>4. Appended(Parent(p), name, Append(Parent(p), name))
  BY <1>1, <1>3, AppendFacts, Zenon
<1>5. q = Append(Parent(p), name)
  BY <1>3 DEF WithExtension
<1>6. /\ q \in Paths /\ Len(q) = Len(Parent(p)) + 1 /\ q[Len(Parent(p)) + 1] = name
      /\ \A i \in 1 .. Len(Parent(p)) : q[i] = Parent(p)[i]
  BY <1>4, <1>5 DEF Appended
<1>7. Len(q) = Len(p) /\ Last(q) = name
  BY <1>1, <1>6 DEF Last
<1>8. Len(p) > 1 => q[1] = p[1]
  BY <1>1, <1>6
<1>. QED  BY <1>3, <1>6, <1>7, <1>8

\* The name that a bare command has in every directory of the search.
BareName(c) == IF c.input.parts = <<>> THEN "apps" ELSE Last(c.input.parts)

\* Where a bare command is looked for, below a directory of the search.
LEMMA InRootFacts ==
    ASSUME NEW root \in Paths, Last(root) = "apps", NEW c \in Commands, NEW q, q = InRoot(root, c)
    PROVE  /\ q \in Paths
           /\ Last(q) = IF BareName(c) \in DOMAIN Rhai THEN Rhai[BareName(c)] ELSE BareName(c)
           /\ Len(root) > 1 => q[1] = root[1]
<1>. DEFINE parts == c.input.parts
            p == root \o parts
<1>1. parts \in Names /\ root \in Names /\ Len(parts) \in Nat /\ Len(root) \in Nat \ {0}
  BY TypedAssumption DEF Inputs, Paths, Names
<1>2. Joined(root, parts, p)
  BY <1>1, JoinFacts
<1>3. /\ p \in Names /\ Len(p) = Len(root) + Len(parts)
      /\ \A n \in 1 .. Len(root) : p[n] = root[n]
      /\ \A n \in 1 .. Len(parts) : p[Len(root) + n] = parts[n]
  BY <1>2 DEF Joined, Concatenated, Names
<1>4. q = IF Undotted(p) THEN WithExtension(p) ELSE p
  BY DEF InRoot
<1>5. Last(p) = BareName(c)
  <2>1. CASE parts = <<>>
    <3>1. Len(parts) = 0
      BY <2>1
    <3>2. Len(p) = Len(root) /\ p[Len(root)] = root[Len(root)]
      BY <1>1, <1>3, <3>1, SMTT(30)
    <3>. QED  BY <2>1, <3>2 DEF Last, BareName
  <2>2. CASE parts # <<>>
    <3>1. Len(parts) # 0
      BY <1>1, <2>2 DEF Names
    <3>2. p[Len(root) + Len(parts)] = parts[Len(parts)]
      BY <1>1, <1>3, <3>1
    <3>. QED  BY <1>3, <2>2, <3>2 DEF Last, BareName
  <2>. QED  BY <2>1, <2>2
<1>. HIDE DEF p, parts
<1>6. p \in Paths /\ Len(p) >= Len(root) /\ p[1] = root[1]
  <2>1. Len(p) \in Nat \ {0} /\ Len(p) >= Len(root) /\ 1 \in 1 .. Len(root)
    BY <1>1, <1>3
  <2>2. p # <<>>
    BY <2>1
  <2>. QED  BY <1>3, <2>1, <2>2 DEF Paths
<1>7. Undotted(p) <=> BareName(c) \in DOMAIN Rhai
  BY <1>5, <1>6 DEF Undotted, Paths
<1>8. CASE Undotted(p)
  <2>1. q \in Paths /\ Last(q) = Rhai[Last(p)] /\ (Len(p) > 1 => q[1] = p[1])
    BY <1>4, <1>6, <1>8, WithExtensionFacts
  <2>2. Len(root) > 1 => Len(p) > 1
    BY <1>1, <1>3, <1>6
  <2>. QED  BY <1>5, <1>6, <1>7, <1>8, <2>1, <2>2
<1>9. CASE ~Undotted(p)
  BY <1>4, <1>5, <1>6, <1>7, <1>9
<1>. QED  BY <1>8, <1>9

\* The directories of the search.
LEMMA SearchOrderFacts ==
    /\ DOMAIN SearchOrder = {1, 2}
    /\ SearchOrder[1] = <<"sys", "apps">> /\ SearchOrder[2] = <<"apps">>
    /\ \A i \in {1, 2} : SearchOrder[i] \in Paths /\ Last(SearchOrder[i]) = "apps"
<1>1. DOMAIN SearchOrder = {1, 2} /\ SearchOrder[1] = <<"sys", "apps">> /\ SearchOrder[2] = <<"apps">>
  BY DEF SearchOrder
<1>2. Last(<<"sys", "apps">>) = "apps" /\ Last(<<"apps">>) = "apps"
  BY DEF Last
<1>3. <<"sys", "apps">> \in Paths /\ <<"apps">> \in Paths
  BY SpelledPaths, Zenon
<1>. QED  BY <1>1, <1>2, <1>3

\* What a command resolves to has the name of an application.
LEMMA ResolvedFacts ==
    ASSUME Clean(cwd), NEW c \in Commands, NEW p \in Resolved(c)
    PROVE  p \in Paths /\ Last(p) \in Range(Rhai)
<1>1. CASE c.slash
  <2>. DEFINE named == NormalizePath(cwd, c.input)
  <2>1. named \in Names
    <3>1. c.input.parts \in Names
      BY TypedAssumption DEF Inputs
    <3>2. <<>> \in Names /\ cwd \in Names
      BY DEF Names, Clean
    <3>. QED  BY <3>1, <3>2, FollowFacts DEF NormalizePath
  <2>2. \/ p = named /\ Supports(p)
        \/ Undotted(named) /\ p = WithExtension(named)
    BY <1>1 DEF Resolved, NamedPaths
  <2>. HIDE DEF named
  <2>3. CASE p = named /\ Supports(p)
    BY <2>1, <2>3 DEF Supports, Paths
  <2>4. CASE Undotted(named) /\ p = WithExtension(named)
    <3>1. named \in Paths
      BY <2>1, <2>4 DEF Undotted, Paths
    <3>. QED  BY <2>4, <3>1, WithExtensionFacts
  <2>. QED  BY <2>2, <2>3, <2>4
<1>2. CASE ~c.slash
  <2>1. PICK i \in DOMAIN SearchOrder : p = InRoot(SearchOrder[i], c) /\ Supports(p)
    BY <1>2 DEF Resolved, SearchPaths
  <2>2. SearchOrder[i] \in Paths /\ Last(SearchOrder[i]) = "apps"
    BY SearchOrderFacts
  <2>3. p \in Paths
    BY <2>1, <2>2, InRootFacts
  <2>. QED  BY <2>1, <2>3 DEF Supports
<1>. QED  BY <1>1, <1>2

\* A bare command resolves to the bundled file of its name, if there is one.
LEMMA BundledFirst ==
    ASSUME NEW c \in Commands, ~c.slash, SystemFile(InRoot(<<"sys", "apps">>, c)),
           NEW p \in Resolved(c)
    PROVE  InSys(p)
<1>. DEFINE Has(i) == VfsExists(tree, InRoot(SearchOrder[i], c)) = "found" /\ Supports(InRoot(SearchOrder[i], c))
<1>1. PICK i \in {1, 2} : /\ p = InRoot(SearchOrder[i], c) /\ Has(i)
                          /\ \A k \in 1 .. i - 1 : ~Has(k)
  BY SearchOrderFacts DEF Resolved, SearchPaths
<1>2. PICK bundled : bundled = InRoot(SearchOrder[1], c)
  OBVIOUS
<1>3. PICK installed : installed = InRoot(SearchOrder[2], c)
  OBVIOUS
<1>4. bundled \in Paths /\ installed \in Paths /\ Last(bundled) = Last(installed)
  BY <1>2, <1>3, SearchOrderFacts, InRootFacts
<1>5. InSys(bundled)
  <2>1. bundled[1] = "sys"
    <3>1. Len(SearchOrder[1]) > 1 /\ SearchOrder[1][1] = "sys"
      BY DEF SearchOrder
    <3>2. bundled[1] = SearchOrder[1][1]
      BY <1>2, <3>1, SearchOrderFacts, InRootFacts
    <3>. QED  BY <3>1, <3>2
  <2>2. PICK r \in Names : r = <<"sys">> /\ Len(r) = 1 /\ r[1] = "sys"
    BY SpelledPaths DEF Paths
  <2>3. Len(bundled) \in Nat \ {0} /\ bundled \in Names
    BY <1>4 DEF Paths, Names
  <2>4. Len(r) <= Len(bundled) /\ \A j \in 1 .. Len(r) : r[j] = bundled[j]
    BY <2>1, <2>2, <2>3
  <2>5. IsPrefix(r, bundled)
    BY <2>3, <2>4, PrefixByComponent
  <2>. QED  BY <2>2, <2>5 DEF InSys
<1>6. VfsExists(tree, bundled) = "found"
  BY <1>2, <1>5, SearchOrderFacts DEF VfsExists
<1>7. CASE i = 1
  BY <1>1, <1>2, <1>5, <1>7
<1>8. CASE i = 2
  <2>1. ~Has(1) /\ Has(2)
    BY <1>1, <1>8
  <2>2. ~Supports(bundled) /\ Supports(installed)
    BY <1>2, <1>3, <1>6, <2>1
  <2>. QED  BY <1>4, <2>2, SMTT(30) DEF Supports, Paths
<1>. QED  BY <1>7, <1>8

-----------------------------------------------------------------------------
(***************************************************************************)
(* The invariant.                                                          *)
(***************************************************************************)

\* What parse_metadata lets an application declare.
Declared(a) ==
    /\ a.id \in STRING
    /\ \A declared \in a.capabilities : declared.kind = "write" => declared.prefix \in Inputs

\* The data directory is a tree below /apps and /user; cwd is normalized; the slot is the
\* running application's; every handle given out is smaller than the next one, and the
\* session has only its own.
ShellInv ==
    /\ Good(tree, DataRoots)
    /\ Clean(cwd)
    /\ phase # "running" => slot = NoApp /\ sockets = {} /\ leaked = {}
    /\ phase = "running" => slot = app /\ Declared(app)
    /\ next_handle \in Nat /\ connections \subseteq Nat /\ leaked \subseteq Nat
    /\ \A handle \in connections \cup leaked : handle < next_handle
    /\ OwnConnections
    /\ BundledWins

\* The working directory of a new process is normalized.
LEMMA UserIsClean == Clean(<<"user">>)
<1>1. <<"user">> \in Names
  BY SpelledPaths DEF Paths
<1>2. Len(<<"user">>) = 1 /\ <<"user">>[1] = "user"
  OBVIOUS
<1>3. "user" \notin Special
  BY DEF Special, Forbidden
<1>. QED  BY <1>1, <1>2, <1>3 DEF Clean

\* The process ends with its session and its connections: the return of run_interactive.
LEMMA EndsKeeps ==
    ASSUME ShellInv, NEW how, how # "running", Ends(how), Good(tree', DataRoots)
    PROVE  ShellInv'
  BY UserIsClean DEF ShellInv, Ends, OwnConnections, BundledWins

\* The end of a command: the prompt, or the end of the process.
LEMMA PromptsKeeps ==
    ASSUME ShellInv, phase # "running", NEW ok, Prompts(ok), Good(tree', DataRoots)
    PROVE  ShellInv'
<1>1. CASE Ends("stopped")
  BY <1>1, EndsKeeps
<1>2. CASE phase' = "prompt" /\ UNCHANGED process
  BY <1>2 DEF ShellInv, process, session, network, OwnConnections, BundledWins
<1>. QED  BY <1>1, <1>2 DEF Prompts

\* initialize_layout makes directories only.
LEMMA StartKeeps ==
    ASSUME ShellInv, NEW n \in 0 .. Len(Layout), Start(n)
    PROVE  ShellInv'
<1>1. Good(tree', DataRoots)
  BY LaidOutIsGood DEF Start, ShellInv
<1>2. phase # "running" /\ phase' # "running" /\ UNCHANGED process
  BY DEF Start
<1>. QED  BY <1>1, <1>2 DEF ShellInv, process, session, network, OwnConnections, BundledWins

\* set_password writes or removes the verifier, below /user.
LEMMA NewPasswordFacts ==
    ASSUME NEW t, Good(t, DataRoots), NEW o \in NewPassword(t)
    PROVE  Good(o.tree, DataRoots)
<1>1. Normalized(SecurityPath) \in Names
  BY SpelledPaths, NormalizedFacts DEF Paths
<1>2. CASE o \in VfsWrites(t, SecurityPath, Verifier)
  BY <1>1, <1>2, VfsWritesFacts DEF Changes
<1>3. CASE o \in VfsRemoves(t, SecurityPath)
  BY <1>1, <1>3, VfsRemovesFacts DEF Changes
<1>4. CASE o \in {Err(t), Ok(t)}
  BY <1>4 DEF Err, Ok
<1>. QED  BY <1>2, <1>3, <1>4 DEF NewPassword

\* The first run writes the verifier and the marker.
LEMMA SetupKeeps ==
    ASSUME ShellInv, Setup
    PROVE  ShellInv'
<1>1. PICK o \in {Ok(tree)} \cup NewPassword(tree) :
          \E w \in IF o.ok THEN VfsWrites(o.tree, InitializedPath, Marker) ELSE {o} :
              tree' = w.tree /\ Prompts(w.ok)
  BY DEF Setup
<1>2. Good(o.tree, DataRoots)
  <2>1. CASE o = Ok(tree)
    BY <2>1 DEF Ok, ShellInv
  <2>2. CASE o \in NewPassword(tree)
    BY <2>2, NewPasswordFacts DEF ShellInv
  <2>. QED  BY <1>1, <2>1, <2>2
<1>3. PICK w : /\ w \in VfsWrites(o.tree, InitializedPath, Marker) \/ w = o
               /\ tree' = w.tree /\ Prompts(w.ok)
  BY <1>1
<1>4. Normalized(InitializedPath) \in Names
  BY SpelledPaths, NormalizedFacts DEF Paths
<1>5. Good(w.tree, DataRoots)
  BY <1>2, <1>3, <1>4, VfsWritesFacts DEF Changes
<1>. QED  BY <1>3, <1>5, PromptsKeeps, SMTT(30) DEF Setup

\* passwd writes or removes the verifier.
LEMMA ChangePasswordKeeps ==
    ASSUME ShellInv, ChangePassword
    PROVE  ShellInv'
<1>1. PICK o : /\ o = Err(tree) \/ o \in NewPassword(tree)
               /\ tree' = o.tree /\ Prompts(o.ok)
  BY DEF ChangePassword
<1>2. Good(o.tree, DataRoots)
  BY <1>1, NewPasswordFacts DEF Err, ShellInv
<1>. QED  BY <1>1, <1>2, PromptsKeeps DEF ChangePassword

\* cd goes to a normalized path or ends the process.
LEMMA ChangeDirectoryKeeps ==
    ASSUME ShellInv, NEW argument \in Directories, ChangeDirectory(argument)
    PROVE  ShellInv'
<1>1. Good(tree', DataRoots)
  BY DEF ChangeDirectory, ShellInv
<1>2. CASE Ends("stopped")
  BY <1>1, <1>2, EndsKeeps, SMTT(30)
<1>3. CASE ~Ends("stopped")
  <2>1. PICK target : /\ target = NormalizePath(cwd, argument) /\ target # InvalidPath /\ cwd' = target
                      /\ UNCHANGED <<phase, approved, session, network>>
    BY <1>3 DEF ChangeDirectory
  <2>2. Clean(target)
    <3>1. PICK start : start = IF argument.absolute THEN <<>> ELSE cwd
      OBVIOUS
    <3>2. argument.parts \in Names
      BY TypedAssumption DEF Inputs
    <3>3. start \in Names /\ Clean(start)
      <4>1. <<>> \in Names /\ Len(<<>>) = 0
        BY DEF Names
      <4>2. Clean(<<>>)
        BY <4>1 DEF Clean
      <4>3. Clean(cwd) /\ cwd \in Names
        BY DEF ShellInv, Clean
      <4>. QED  BY <3>1, <4>1, <4>2, <4>3
    <3>4. target = Follow(start, argument.parts)
      BY <2>1, <3>1 DEF NormalizePath
    <3>. QED  BY <2>1, <3>2, <3>3, <3>4, FollowFacts
  <2>. QED  BY <1>1, <2>1, <2>2 DEF ShellInv, session, network, OwnConnections, BundledWins
<1>. QED  BY <1>2, <1>3

\* parse_metadata: a session's identity declares text.
LEMMA IdentityFacts ==
    ASSUME ShellInv, NEW c \in Commands, NEW p \in Runnable(c), NEW a, a = Identity(p)
    PROVE  p \in Resolved(c) /\ a.path = p /\ Declared(a)
<1>1. p \in Resolved(c) /\ VfsRead(tree, p) \in DOMAIN Sources
  BY DEF Runnable
<1>2. PICK source : source = Sources[VfsRead(tree, p)]
  OBVIOUS
<1>3. /\ source.id \in STRING
      /\ \A declared \in source.capabilities : declared.kind = "write" => declared.prefix \in Inputs
  BY <1>1, <1>2, SourcesAssumption, Zenon
<1>4. Last(p) \in Range(Rhai)
  BY <1>1, ResolvedFacts DEF ShellInv
<1>5. PICK stem : stem = CHOOSE name \in DOMAIN Rhai : Rhai[name] = Last(p)
  OBVIOUS
<1>6. stem \in DOMAIN Rhai
  BY <1>4, <1>5, Zenon DEF Range
<1>7. stem \in STRING
  BY <1>6, RhaiAssumption, Zenon
<1>8. a.path = p /\ a.id \in {stem, source.id} /\ a.capabilities = source.capabilities
  BY <1>2, <1>5, Zenon DEF Identity
<1>9. a.id \in STRING
  BY <1>3, <1>7, <1>8, Zenon
<1>. QED  BY <1>1, <1>3, <1>8, <1>9, Zenon DEF Declared

\* execute_app fills the slot with the session of what the command resolves to.
LEMMA ExecuteKeeps ==
    ASSUME ShellInv, NEW c \in Commands, Execute(c)
    PROVE  ShellInv'
<1>1. PICK p \in Runnable(c) : app' = Identity(p) /\ slot' = Identity(p)
  BY DEF Execute
<1>2. p \in Resolved(c) /\ app'.path = p /\ Declared(app')
  BY <1>1, IdentityFacts
<1>3. /\ phase' = "running" /\ typed' = c /\ sockets' = {} /\ leaked' = connections
      /\ UNCHANGED <<tree, cwd, approved, connections, next_handle>>
  BY DEF Execute, network
<1>4. BundledWins'
  <2>1. ~c.slash /\ SystemFile(InRoot(<<"sys", "apps">>, c)) => InSys(p)
    BY <1>2, BundledFirst
  <2>. QED  BY <1>2, <1>3, <2>1 DEF BundledWins
<1>5. OwnConnections'
  BY <1>3, SMTT(30) DEF OwnConnections
<1>. QED  BY <1>1, <1>2, <1>3, <1>4, <1>5, SMTT(30) DEF ShellInv

\* What an application may change: the directory that its id names below /user/appdata,
\* or what it declares and, unless it is bundled, the user grants.
Allowed(granted, p) ==
    \/ IsPrefix(Normalized(AppdataRoot), p)
    \/ Declares(At("write", p)) /\ (app.trusted \/ \E q \in granted : IsPrefix(q, p))

\* A declared prefix is a prefix of what is below the path that it covers.
LEMMA DeclaresBelow ==
    ASSUME Declared(app), NEW p \in Names, Declares(At("write", p)), NEW q \in Below(p)
    PROVE  Declares(At("write", q))
<1>1. PICK declared \in app.capabilities : Covers(declared, At("write", p))
  BY DEF Declares
<1>2. /\ At("write", p).kind = "write" /\ At("write", p).path = p
      /\ At("write", q).kind = "write" /\ At("write", q).path = q
  BY DEF At
<1>3. PICK prefix : prefix = NormalizePath(<<>>, declared.prefix)
  BY SMTT(30)
<1>4. declared.kind = "write" /\ prefix # InvalidPath /\ IsPrefix(prefix, p)
  BY <1>1, <1>2, <1>3, SMTT(30) DEF Covers
<1>5. prefix \in Names
  <2>1. declared.prefix.parts \in Names
    BY <1>4 DEF Declared, Inputs
  <2>2. <<>> \in Names
    BY DEF Names
  <2>3. prefix = Follow(<<>>, declared.prefix.parts)
    BY <1>3 DEF NormalizePath
  <2>. QED  BY <2>1, <2>2, <2>3, FollowFacts, SMTT(30)
<1>6. q \in Names /\ IsPrefix(p, q)
  BY SMTT(30) DEF Below, Paths
<1>7. IsPrefix(prefix, q)
  BY <1>4, <1>5, <1>6, PrefixOrder, SMTT(30)
<1>8. Covers(declared, At("write", q))
  BY <1>2, <1>3, <1>4, <1>7 DEF Covers
<1>. QED  BY <1>8 DEF Declares

\* What authorize lets a call change at a path it lets it change below the path.
LEMMA AuthorizedBelow ==
    ASSUME Declared(app), NEW p \in Names, NEW yes, Authorize(At("write", p), yes),
           NEW granted, yes /\ Asked(At("write", p)) => p \in granted, NEW q \in Below(p)
    PROVE  Allowed(granted, q)
<1>1. Declares(At("write", p)) /\ ~Protected(At("write", p)) /\ (app.trusted \/ yes)
  BY DEF Authorize
<1>2. Declares(At("write", q))
  BY <1>1, DeclaresBelow
<1>3. IsPrefix(p, q)
  BY DEF Below
<1>4. app.trusted \/ p \in granted
  BY <1>1, Zenon DEF Asked
<1>. QED  BY <1>2, <1>3, <1>4, Zenon DEF Allowed

\* normalize_path of what an application passes is an error or a clean path, which the
\* normalization of Vfs leaves as it is.
LEMMA ResolveFacts ==
    ASSUME ShellInv, NEW argument \in Arguments
    PROVE  /\ Resolve(argument) \in Names
           /\ Resolve(argument) # InvalidPath => Normalized(Resolve(argument)) = Resolve(argument)
<1>1. argument.parts \in Names
  BY ArgumentsAssumption DEF Inputs
<1>2. PICK start : start = IF argument.absolute THEN <<>> ELSE cwd
  OBVIOUS
<1>3. Clean(start) /\ start \in Names
  <2>1. Clean(<<>>)
    BY DEF Clean, Names
  <2>. QED  BY <1>2, <2>1 DEF Clean, ShellInv
<1>4. PICK p : p = Resolve(argument) /\ p = Follow(start, argument.parts)
  BY <1>2 DEF Resolve, NormalizePath
<1>5. p \in Names /\ (p = InvalidPath \/ Clean(p))
  BY <1>1, <1>3, <1>4, FollowFacts
<1>. QED  BY <1>4, <1>5, NormalizedFacts

\* A call of the session leaves a good tree and changes only files that it may change.
Obeys(t, u, granted) ==
    /\ Good(u, DataRoots)
    /\ \A p \in (Files(t) \cup Files(u)) :
           ~(p \in Files(t) /\ p \in Files(u) /\ u.files[p] = t.files[p]) => Allowed(granted, p)

\* Changes within what is allowed obey.
LEMMA ObeysWithin ==
    ASSUME NEW t, NEW u, NEW S, NEW granted, Changes(t, u, S), \A p \in S : Allowed(granted, p)
    PROVE  Obeys(t, u, granted)
  BY Zenon DEF Changes, Obeys

\* write_text, create_dir_all and remove change what is at or below their path.
LEMMA PathCallObeys ==
    ASSUME ShellInv, phase = "running", NEW p \in Names, NEW yes \in Answers, NEW outcomes,
           Performs({At("write", p)}, yes, outcomes),
           \A o \in outcomes : Changes(tree, o.tree, Below(p))
    PROVE  Obeys(tree, tree', approved')
<1>1. Authorize(At("write", p), yes)
  BY DEF Performs
<1>2. yes /\ Asked(At("write", p)) => p \in approved'
  BY DEF Performs, At
<1>3. PICK o \in outcomes : tree' = o.tree
  BY DEF Performs
<1>4. Changes(tree, tree', Below(p))
  BY <1>3
<1>5. Declared(app)
  BY DEF ShellInv
<1>6. \A q \in Below(p) : Allowed(approved', q)
  BY <1>1, <1>2, <1>5, AuthorizedBelow, SMTT(30)
<1>. QED  BY <1>4, <1>6, ObeysWithin, SMTT(30)

\* rename changes what is at or below its two paths, and asks for both.
LEMMA RenameObeys ==
    ASSUME ShellInv, phase = "running", NEW from \in Names, NEW to \in Names, NEW yes \in Answers,
           Normalized(from) = from, Normalized(to) = to,
           Performs(RenameRequests(from, to), yes, VfsRenames(tree, from, to))
    PROVE  Obeys(tree, tree', approved')
<1>1. Authorize(At("write", from), yes) /\ Authorize(At("write", to), yes)
  BY DEF Performs, RenameRequests
<1>2. /\ yes /\ Asked(At("write", from)) => from \in approved'
      /\ yes /\ Asked(At("write", to)) => to \in approved'
  <2>1. approved' = {c.path : c \in {r \in {At("write", from), At("write", to)} : yes /\ Asked(r)}}
    BY DEF Performs, RenameRequests
  <2>2. At("write", from).path = from /\ At("write", to).path = to
    BY SMTT(30) DEF At
  <2>. QED  BY <2>1, <2>2, SMTT(30)
<1>3. PICK o \in VfsRenames(tree, from, to) : tree' = o.tree
  BY DEF Performs
<1>4. Changes(tree, tree', Below(from) \cup Below(to))
  BY <1>3, VfsRenamesFacts, Zenon DEF ShellInv
<1>5. Declared(app)
  BY DEF ShellInv
<1>6. \A q \in Below(from) : Allowed(approved', q)
  BY <1>1, <1>2, <1>5, AuthorizedBelow
<1>7. \A q \in Below(to) : Allowed(approved', q)
  BY <1>1, <1>2, <1>5, AuthorizedBelow
<1>8. \A q \in Below(from) \cup Below(to) : Allowed(approved', q)
  BY <1>6, <1>7
<1>. QED  BY <1>4, <1>8, ObeysWithin, SMTT(30)

\* appdata_write changes a file in the directory that the application's id names.
LEMMA AppdataObeys ==
    ASSUME ShellInv, phase = "running", NEW argument \in Arguments, NEW d, AppdataWrite(argument, d)
    PROVE  Obeys(tree, tree', approved')
<1>1. PICK root : root = AppdataRoot
  OBVIOUS
<1>2. PICK p : p = NormalizePath(root, argument)
  OBVIOUS
<1>3. root \in Names
  BY <1>1, SpelledPaths, Zenon DEF ShellInv, Declared, AppdataRoot, Paths
<1>4. argument.parts \in Names
  BY ArgumentsAssumption DEF Inputs
<1>5. PICK made \in VfsCreatesDirAll(tree, root) :
          /\ p # InvalidPath /\ IsPrefix(root, p)
          /\ \E o \in IF made.ok THEN VfsWrites(made.tree, p, d) ELSE {made} : tree' = o.tree
  BY <1>1, <1>2 DEF AppdataWrite
<1>6. PICK base \in Names : base = Normalized(root)
  BY <1>3, NormalizedFacts
<1>7. Changes(tree, made.tree, {})
  BY <1>6, VfsCreatesDirAllFacts DEF ShellInv
<1>8. CASE tree' = made.tree
  BY <1>7, <1>8, ObeysWithin
<1>9. CASE tree' # made.tree
  <2>1. PICK o \in VfsWrites(made.tree, p, d) : made.ok /\ tree' = o.tree
    BY <1>5, <1>9, SMTT(30)
  <2>2. base # InvalidPath
    BY <1>6, <2>1, InvalidIsNotPersistent DEF VfsCreatesDirAll, Err
  <2>3. PICK start \in Names : Len(start) <= Len(root) /\ p = Follow(start, argument.parts)
    <3>1. <<>> \in Names /\ Len(<<>>) = 0 /\ Len(root) \in Nat
      BY <1>3 DEF Names
    <3>. QED  BY <1>2, <1>3, <3>1 DEF NormalizePath
  <2>4. p \in Names
    BY <1>4, <2>3, FollowFacts
  <2>5. PICK q \in Names : q = Normalized(p)
    BY <2>4, NormalizedFacts
  <2>6. IsPrefix(base, q)
    BY <1>3, <1>4, <1>5, <1>6, <2>2, <2>3, <2>5, NormalizedBelow, SMTT(30)
  <2>7. Changes(made.tree, tree', Below(q))
    <3>1. Good(made.tree, DataRoots)
      BY <1>7 DEF Changes
    <3>. QED  BY <2>1, <2>5, <3>1, VfsWritesFacts
  <2>8. Changes(tree, tree', Below(q))
    <3>1. \A f \in Files(tree) \cup Files(made.tree) :
              f \in Files(tree) /\ f \in Files(made.tree) /\ made.tree.files[f] = tree.files[f]
      BY <1>7 DEF Changes
    <3>. QED  BY <2>7, <3>1 DEF Changes
  <2>9. ASSUME NEW f \in Below(q) PROVE Allowed(approved', f)
    <3>1. f \in Names /\ IsPrefix(q, f)
      BY DEF Below, Paths
    <3>2. IsPrefix(base, f)
      BY <1>6, <2>5, <2>6, <3>1, PrefixOrder
    <3>. QED  BY <1>1, <1>6, <3>2 DEF Allowed
  <2>. QED  BY <2>8, <2>9, ObeysWithin
<1>. QED  BY <1>8, <1>9

\* Every call of the session obeys.
LEMMA FileCallObeys ==
    ASSUME ShellInv, phase = "running", FileCall
    PROVE  Obeys(tree, tree', approved')
<1>. DEFINE Goal == Obeys(tree, tree', approved')
<1>0. \A argument \in Arguments :
          /\ Resolve(argument) \in Names
          /\ Resolve(argument) # InvalidPath => Normalized(Resolve(argument)) = Resolve(argument)
  BY ResolveFacts
<1>1. ASSUME UNCHANGED tree PROVE Goal
  BY <1>1, Zenon DEF Obeys, ShellInv
<1>2. ASSUME NEW argument \in Arguments, NEW yes \in Answers, NEW d, WriteText(argument, d, yes)
      PROVE  Goal
  <2>1. PICK p \in Names : /\ Normalized(p) = p
                           /\ Performs({At("write", p)}, yes, VfsWrites(tree, p, d))
    BY <1>0, <1>2 DEF WriteText
  <2>2. \A o \in VfsWrites(tree, p, d) : Changes(tree, o.tree, Below(p))
    BY <2>1, VfsWritesFacts DEF ShellInv
  <2>. QED  BY <2>1, <2>2, PathCallObeys
<1>3. ASSUME NEW argument \in Arguments, NEW yes \in Answers, CreateDirAll(argument, yes)
      PROVE  Goal
  <2>1. PICK p \in Names : /\ Normalized(p) = p
                           /\ Performs({At("write", p)}, yes, VfsCreatesDirAll(tree, p))
    BY <1>0, <1>3 DEF CreateDirAll
  <2>2. \A o \in VfsCreatesDirAll(tree, p) : Changes(tree, o.tree, Below(p))
    BY <2>1, VfsCreatesDirAllFacts, SMTT(30) DEF ShellInv
  <2>. QED  BY <2>1, <2>2, PathCallObeys
<1>4. ASSUME NEW argument \in Arguments, NEW yes \in Answers, RemovePath(argument, yes)
      PROVE  Goal
  <2>1. PICK p \in Names : /\ Normalized(p) = p
                           /\ Performs({At("write", p)}, yes, VfsRemoves(tree, p))
    BY <1>0, <1>4 DEF RemovePath
  <2>2. \A o \in VfsRemoves(tree, p) : Changes(tree, o.tree, Below(p))
    BY <2>1, VfsRemovesFacts DEF ShellInv
  <2>. QED  BY <2>1, <2>2, PathCallObeys
<1>5. ASSUME NEW argument \in Arguments, NEW target \in Arguments, NEW yes \in Answers,
             RenamePath(argument, target, yes)
      PROVE  Goal
  <2>1. PICK from \in Names, to \in Names :
            /\ Normalized(from) = from /\ Normalized(to) = to
            /\ Performs(RenameRequests(from, to), yes, VfsRenames(tree, from, to))
    BY <1>0, <1>5 DEF RenamePath
  <2>. QED  BY <2>1, RenameObeys, SMTT(30)
<1>6. ASSUME NEW c, NEW yes, Query(c, yes) PROVE Goal
  BY <1>1, <1>6 DEF Query
<1>7. ASSUME NEW argument \in Arguments, NEW d, AppdataWrite(argument, d) PROVE Goal
  BY <1>7, AppdataObeys
<1>. QED  BY <1>2, <1>3, <1>4, <1>5, <1>6, <1>7, Zenon DEF FileCall

\* The calls that leave the connections alone.
LEMMA CallsFilesKeeps ==
    ASSUME ShellInv, CallsFiles
    PROVE  ShellInv'
<1>1. Good(tree', DataRoots)
  BY FileCallObeys DEF CallsFiles, Obeys
<1>2. UNCHANGED <<phase, cwd, typed, app, slot, sockets, leaked, connections, next_handle>>
  BY DEF CallsFiles, session, network
<1>. QED  BY <1>1, <1>2 DEF ShellInv, OwnConnections, BundledWins

\* A new connection has a handle that was never given out; a closed one was the session's.
LEMMA CallsNetworkKeeps ==
    ASSUME ShellInv, CallsNetwork
    PROVE  ShellInv'
<1>1. phase = "running" /\ UNCHANGED <<phase, cwd, typed, app, slot, leaked, tree>>
  BY Zenon DEF CallsNetwork, Connect, Close
<1>2. \/ Opened
      \/ \E handle \in sockets : /\ sockets' = sockets \ {handle}
                                 /\ connections' = connections \ {handle}
                                 /\ next_handle' = next_handle
  BY Zenon DEF CallsNetwork, Connect, Close
<1>3. /\ next_handle' \in Nat /\ connections' \subseteq Nat
      /\ \A handle \in connections' \cup leaked' : handle < next_handle'
      /\ sockets' \subseteq connections' \ leaked'
  <2>1. /\ next_handle \in Nat /\ connections \subseteq Nat /\ leaked \subseteq Nat
        /\ \A handle \in connections \cup leaked : handle < next_handle
        /\ sockets \subseteq connections \ leaked /\ leaked' = leaked
    BY <1>1 DEF ShellInv, OwnConnections
  <2>2. CASE Opened
    <3>1. next_handle \notin leaked
      BY <2>1
    <3>. QED  BY <2>1, <2>2, <3>1 DEF Opened
  <2>3. CASE \E handle \in sockets : /\ sockets' = sockets \ {handle}
                                     /\ connections' = connections \ {handle}
                                     /\ next_handle' = next_handle
    BY <2>1, <2>3, SMTT(30)
  <2>. QED  BY <1>2, <2>2, <2>3
<1>. QED  BY <1>1, <1>3 DEF ShellInv, OwnConnections, BundledWins

\* The session ends; what it left open stays with the platform.
LEMMA ReturnsKeeps ==
    ASSUME ShellInv, Returns
    PROVE  ShellInv'
  BY DEF ShellInv, Returns, EndSession, Dropped, network, OwnConnections, BundledWins

\* Every step keeps the invariant.
LEMMA NextKeeps ==
    ASSUME ShellInv, [Next]_vars
    PROVE  ShellInv'
<1>1. CASE \E n \in 0 .. Len(Layout) : Start(n)
  BY <1>1, StartKeeps
<1>2. CASE Setup
  BY <1>2, SetupKeeps
<1>3. CASE BuiltinFails \/ Exit \/ AppFails
  <2>1. tree' = tree /\ (Ends("stopped") \/ Ends("exited"))
    BY <1>3 DEF BuiltinFails, Exit, AppFails
  <2>2. Good(tree', DataRoots)
    BY <2>1 DEF ShellInv
  <2>. QED  BY <2>1, <2>2, EndsKeeps
<1>4. CASE ChangePassword
  BY <1>4, ChangePasswordKeeps
<1>5. CASE \E argument \in Directories : ChangeDirectory(argument)
  BY <1>5, ChangeDirectoryKeeps
<1>6. CASE \E c \in Commands : Execute(c)
  BY <1>6, ExecuteKeeps
<1>7. CASE \E c \in Commands : ExecuteFails(c)
  <2>1. tree' = tree /\ Ends("stopped")
    BY <1>7 DEF ExecuteFails
  <2>2. Good(tree', DataRoots)
    BY <2>1, SMTT(30) DEF ShellInv
  <2>. QED  BY <2>1, <2>2, EndsKeeps
<1>8. CASE CallsFiles
  BY <1>8, CallsFilesKeeps
<1>9. CASE CallsNetwork
  BY <1>9, CallsNetworkKeeps
<1>10. CASE Returns
  BY <1>10, ReturnsKeeps
<1>11. CASE UNCHANGED vars
  BY <1>11 DEF vars, process, session, network, ShellInv, OwnConnections, BundledWins
<1>. QED  BY <1>1, <1>2, <1>3, <1>4, <1>5, <1>6, <1>7, <1>8, <1>9, <1>10, <1>11, SMTT(30) DEF Next

\* The shell keeps its invariant from the first start on, through every exit, failure and
\* restart of the process (Afos::run_interactive, execute_app, AppSession).
THEOREM ShellInvariant == Spec => []ShellInv
<1>1. Init => ShellInv
  <2>1. ASSUME Init PROVE Good(tree, DataRoots)
    BY <2>1, EmptyIsGood DEF Init
  <2>. QED  BY <2>1, UserIsClean DEF Init, ShellInv, OwnConnections, BundledWins
<1>2. ShellInv /\ [Next]_vars => ShellInv'
  BY NextKeeps
<1>. QED  BY <1>1, <1>2, PTL DEF Spec

\* The API slot holds the running application's session while it runs and nothing at the
\* prompt (ApiGuard).
THEOREM SlotFollowsSession == Spec => []SlotIsCurrent
<1>1. ShellInv => SlotIsCurrent
  BY DEF ShellInv, SlotIsCurrent
<1>. QED  BY <1>1, ShellInvariant, PTL

\* A session reaches only open connections that it opened itself (owned_socket).
THEOREM ConnectionsAreOwn == Spec => []OwnConnections
<1>1. ShellInv => OwnConnections
  BY SMTT(30) DEF ShellInv
<1>. QED  BY <1>1, ShellInvariant, PTL

\* A bare command that names a bundled application runs it, whatever is installed
\* (resolve_command).
THEOREM BundledComesFirst == Spec => []BundledWins
<1>1. ShellInv => BundledWins
  BY DEF ShellInv
<1>. QED  BY <1>1, ShellInvariant, PTL

\* For all inputs, normalize_path leaves no special component and composes, from every
\* working directory that the shell can have.
THEOREM NormalizingComposes == Spec => []NormalizeComposes
<1>1. ShellInv => NormalizeComposes
  BY CleanComposes DEF ShellInv
<1>. QED  BY <1>1, ShellInvariant, PTL

\* A file changes under a running application only in the directory that the application's
\* id names below /user/appdata, or where it declares that it writes and the user agreed in
\* that very call (authorize, resolve_appdata).
THEOREM ChangesAreApproved == Spec => ChangesApproved
<1>. DEFINE Approved == phase = "running" =>
                            \A p \in Changed :
                                \/ IsPrefix(Normalized(AppdataRoot), p)
                                \/ Declares(At("write", p)) /\
                                   (app.trusted \/ \E q \in approved' : IsPrefix(q, p))
<1>1. ShellInv /\ [Next]_vars => [Approved]_vars
  <2>. SUFFICES ASSUME ShellInv, Next, phase = "running"
                PROVE  \A p \in Changed : Allowed(approved', p)
    BY DEF Allowed
  <2>1. CASE CallsFiles
    <3>1. Obeys(tree, tree', approved')
      BY <2>1, FileCallObeys DEF CallsFiles
    <3>2. Files(tree)' = Files(tree')
      BY DEF Files
    <3>. QED  BY <3>1, <3>2, Zenon DEF Obeys, Changed
  <2>2. CASE tree' = tree
    BY <2>2 DEF Changed, Files
  <2>3. CallsFiles \/ tree' = tree
    BY ZenonT(30)
      DEF Next, Start, Setup, BuiltinFails, Exit, ChangePassword, ChangeDirectory, Execute,
           ExecuteFails, CallsNetwork, Connect, Close, Returns, AppFails
  <2>. QED  BY <2>1, <2>2, <2>3
<1>. QED  BY <1>1, ShellInvariant, PTL DEF Spec, ChangesApproved

-----------------------------------------------------------------------------
(***************************************************************************)
(* The two platforms.                                                      *)
(***************************************************************************)

\* Below the same Vfs the two platforms make the same trees and listings, from every tree
\* that the desktop can have and for all paths and contents (storage_* of both platforms).
THEOREM PlatformsAreAlike == Spec => []PlatformsAgree
<1>1. ShellInv => PlatformsAgree
  <2>. SUFFICES ASSUME ShellInv PROVE PlatformsAgree
    OBVIOUS
  <2>. DEFINE paths == {p \in {Resolve(a) : a \in Arguments} : Persistent(p)}
  <2>1. Good(tree, DataRoots)
    BY DEF ShellInv
  <2>2. ASSUME NEW p \in paths PROVE p \in Paths /\ p \in Names /\ p[1] \in DataRoots
    <3>1. p \in Names /\ Persistent(p)
      BY ResolveFacts
    <3>. QED  BY <3>1, PersistentFacts
  <2>. HIDE DEF paths
  <2>3. ASSUME NEW bare, NEW desktop, SameOutcome(bare, desktop)
        PROVE  desktop.ok = (bare.next # "error") /\ (desktop.ok => desktop.tree = bare.tree)
    BY <2>3, ZenonT(30) DEF SameOutcome
  <2>4. ASSUME NEW p \in paths
        PROVE  /\ \A d \in Data : SameOutcome(StorageWrite(tree, p, d), DesktopWrite(tree, p, d))
               /\ SameOutcome(StorageCreateDirAll(tree, p), DesktopCreateDirAll(tree, p))
               /\ SameOutcome(StorageRemove(tree, p), DesktopRemove(tree, p))
               /\ StorageList(tree, p) = DesktopList(tree, p)
    BY <2>1, <2>2, WritesAgree, CreatesAgree, RemovesAgree, ListsAgree, ZenonT(30)
  <2>5. ASSUME NEW p \in paths, NEW q \in paths, Exists(tree, q) = (p = q)
        PROVE  SameOutcome(StorageRename(tree, p, q), DesktopRename(tree, p, q))
    <3>1. Exists(tree, q) <=> p = q
      BY <2>5, Zenon
    <3>. QED  BY <2>1, <2>2, <3>1, RenamesAgree, Zenon
  <2>. QED  BY <2>3, <2>4, <2>5, Zenon DEF PlatformsAgree, paths
<1>. QED  BY <1>1, ShellInvariant, PTL
=============================================================================
