--------------------------- MODULE FileTreeProofs ---------------------------
(***************************************************************************)
(* Lemmas about FileTree and DesktopStorage, for paths and trees of any    *)
(* size: what the storage methods of the two platforms keep, what they do  *)
(* to the files, and that they do the same.                                *)
(***************************************************************************)
EXTENDS DesktopStorage, WellFoundedInduction, TLAPS

-----------------------------------------------------------------------------
(***************************************************************************)
(* Numbers.                                                                *)
(***************************************************************************)

\* A set that has 0 and with every number the next one has all of them.
LEMMA Induction ==
    ASSUME NEW T, T \subseteq Nat, 0 \in T, \A n \in T : n + 1 \in T
    PROVE  T = Nat
<1>. DEFINE R == {pair \in Nat \X Nat : pair[1] < pair[2]}
            out == Nat \ T
<1>1. IsWellFoundedOn(R, Nat)
  BY NatLessThanWellFounded DEF OpToRel
<1>2. \A x, y \in Nat : y < x => <<y, x>> \in R
  OBVIOUS
<1>. HIDE DEF R
<1>. SUFFICES ASSUME out # {} PROVE FALSE
  BY Zenon
<1>3. PICK x \in out : \A y \in out : ~(<<y, x>> \in R)
  <2>1. out \subseteq Nat
    OBVIOUS
  <2>. HIDE DEF out
  <2>. QED  BY <1>1, <2>1, WFMin, Zenon
<1>4. x \in Nat /\ x - 1 \in Nat /\ x - 1 < x
  BY <1>3
<1>5. x - 1 \notin out
  BY <1>2, <1>3, <1>4, Zenon
<1>. QED  BY <1>3, <1>4, <1>5

-----------------------------------------------------------------------------
(***************************************************************************)
(* Sequences.                                                              *)
(***************************************************************************)

\* Two sequences with the same elements in the same places are equal.
LEMMA EqualSequences ==
    ASSUME NEW S, NEW s \in Seq(S), NEW t \in Seq(S), Len(s) = Len(t),
           \A i \in 1 .. Len(s) : s[i] = t[i]
    PROVE  s = t
  OBVIOUS

\* The elements of a concatenation.
LEMMA ConcatFacts ==
    ASSUME NEW S, NEW s \in Seq(S), NEW t \in Seq(S)
    PROVE  /\ s \o t \in Seq(S) /\ Len(s \o t) = Len(s) + Len(t)
           /\ \A i \in 1 .. Len(s) + Len(t) :
                  (s \o t)[i] = IF i <= Len(s) THEN s[i] ELSE t[i - Len(s)]
  OBVIOUS

\* The elements from m to n.
LEMMA SubSeqFacts ==
    ASSUME NEW S, NEW s \in Seq(S), NEW m \in 1 .. Len(s) + 1, NEW n \in m - 1 .. Len(s)
    PROVE  /\ SubSeq(s, m, n) \in Seq(S) /\ Len(SubSeq(s, m, n)) = n - m + 1
           /\ \A i \in 1 .. n - m + 1 : SubSeq(s, m, n)[i] = s[m + i - 1]
  OBVIOUS

\* The path new has one component more than path.
Appended(path, component, new) ==
    /\ new \in Paths /\ Len(new) = Len(path) + 1 /\ Len(path) \in Nat
    /\ \A i \in 1 .. Len(path) : new[i] = path[i]
    /\ new[Len(path) + 1] = component

\* Append, component by component.
LEMMA AppendFacts ==
    ASSUME NEW path \in Names, NEW component \in STRING
    PROVE  Appended(path, component, Append(path, component))
<1>1. ASSUME NEW S, NEW s \in Seq(S), NEW e \in S
      PROVE  /\ Append(s, e) \in Seq(S) /\ Append(s, e) # <<>>
             /\ Len(Append(s, e)) = Len(s) + 1 /\ Len(s) \in Nat
             /\ \A i \in 1 .. Len(s) : Append(s, e)[i] = s[i]
             /\ Append(s, e)[Len(s) + 1] = e
  OBVIOUS
<1>2. path \in Seq(STRING)
  BY DEF Names
<1>3. /\ Append(path, component) \in Seq(STRING) /\ Append(path, component) # <<>>
      /\ Len(Append(path, component)) = Len(path) + 1 /\ Len(path) \in Nat
      /\ \A i \in 1 .. Len(path) : Append(path, component)[i] = path[i]
      /\ Append(path, component)[Len(path) + 1] = component
  BY <1>1, <1>2, Zenon
<1>. QED  BY <1>3, Zenon DEF Appended, Names, Paths

-----------------------------------------------------------------------------
(***************************************************************************)
(* Prefixes.                                                               *)
(***************************************************************************)

\* The first n components of a path.
LEMMA BeginningFacts ==
    ASSUME NEW q \in Names, NEW n \in 0 .. Len(q)
    PROVE  /\ SubSeq(q, 1, n) \in Names
           /\ Len(SubSeq(q, 1, n)) = n
           /\ \A i \in 1 .. n : SubSeq(q, 1, n)[i] = q[i]
<1>1. q \in Seq(STRING) /\ 1 \in 1 .. Len(q) + 1 /\ n \in 1 - 1 .. Len(q)
  BY DEF Names
<1>2. /\ SubSeq(q, 1, n) \in Seq(STRING) /\ Len(SubSeq(q, 1, n)) = n - 1 + 1
      /\ \A i \in 1 .. n - 1 + 1 : SubSeq(q, 1, n)[i] = q[1 + i - 1]
  BY <1>1, SubSeqFacts, Zenon
<1>. QED  BY <1>2 DEF Names

\* A prefix, component by component.
LEMMA PrefixByComponent ==
    ASSUME NEW p \in Names, NEW q \in Names
    PROVE  IsPrefix(p, q) <=> Len(p) <= Len(q) /\ \A i \in 1 .. Len(p) : p[i] = q[i]
<1>1. SubSeq(p, 1, Len(p)) = p
  BY DEF Names
<1>2. ASSUME Len(p) <= Len(q)
      PROVE  /\ SubSeq(q, 1, Len(p)) \in Names /\ Len(SubSeq(q, 1, Len(p))) = Len(p)
             /\ \A i \in 1 .. Len(p) : SubSeq(q, 1, Len(p))[i] = q[i]
  <2>1. Len(p) \in 0 .. Len(q)
    BY <1>2 DEF Names
  <2>. QED  BY <2>1, BeginningFacts
<1>3. ASSUME Len(p) <= Len(q)
      PROVE  p = SubSeq(q, 1, Len(p)) <=> \A i \in 1 .. Len(p) : p[i] = q[i]
  <2>1. ASSUME \A i \in 1 .. Len(p) : p[i] = q[i] PROVE p = SubSeq(q, 1, Len(p))
    BY <1>2, <1>3, <2>1, EqualSequences DEF Names
  <2>. QED  BY <1>2, <1>3, <2>1
<1>. QED  BY <1>1, <1>3 DEF IsPrefix

\* The paths are ordered by their prefixes, and what is on the way to one path is a chain.
LEMMA PrefixOrder ==
    /\ \A p \in Names : IsPrefix(p, p) /\ Len(p) \in Nat
    /\ \A p, q \in Names : IsPrefix(p, q) /\ IsPrefix(q, p) => p = q
    /\ \A p, q, r \in Names : IsPrefix(p, q) /\ IsPrefix(q, r) => IsPrefix(p, r)
    /\ \A p, q, r \in Names : IsPrefix(p, r) /\ IsPrefix(q, r) => IsPrefix(p, q) \/ IsPrefix(q, p)
    /\ \A p, q \in Names : IsStrictPrefix(p, q) => Len(p) < Len(q)
<1>0. \A p \in Names : Len(p) \in Nat
  BY DEF Names
<1>1. \A p \in Names : IsPrefix(p, p)
  BY <1>0, PrefixByComponent
<1>2. ASSUME NEW p \in Names, NEW q \in Names, IsPrefix(p, q), Len(q) <= Len(p)
      PROVE  p = q
  <2>1. Len(p) = Len(q) /\ \A i \in 1 .. Len(p) : p[i] = q[i]
    BY <1>0, <1>2, PrefixByComponent
  <2>. QED  BY <2>1, EqualSequences DEF Names
<1>3. ASSUME NEW p \in Names, NEW q \in Names, NEW r \in Names, IsPrefix(p, q), IsPrefix(q, r)
      PROVE  IsPrefix(p, r)
  BY <1>0, <1>3, PrefixByComponent
<1>4. ASSUME NEW p \in Names, NEW q \in Names, NEW r \in Names, IsPrefix(p, r), IsPrefix(q, r)
      PROVE  IsPrefix(p, q) \/ IsPrefix(q, p)
  BY <1>0, <1>4, PrefixByComponent
<1>5. \A p, q \in Names : IsPrefix(p, q) => Len(p) <= Len(q)
  BY PrefixByComponent
<1>. QED  BY <1>0, <1>1, <1>2, <1>3, <1>4, <1>5 DEF IsStrictPrefix

\* What is on the way to a path is on the way to its parent, or is its parent (parent).
LEMMA ParentPrefix ==
    ASSUME NEW q \in Paths
    PROVE  /\ Parent(q) \in Names /\ Len(Parent(q)) = Len(q) - 1
           /\ IsStrictPrefix(Parent(q), q)
           /\ \A p \in Names : IsStrictPrefix(p, q) <=> IsPrefix(p, Parent(q))
           /\ Parent(q) # <<>> => Parent(q)[1] = q[1]
<1>1. q \in Seq(STRING) /\ Len(q) \in Nat \ {0} /\ Len(q) - 1 \in Nat
  BY DEF Paths, Names
<1>2. Len(q) - 1 \in 0 .. Len(q) /\ q \in Names
  BY <1>1 DEF Paths
<1>3. /\ Parent(q) \in Names /\ Len(Parent(q)) = Len(q) - 1
      /\ \A i \in 1 .. Len(q) - 1 : Parent(q)[i] = q[i]
  BY <1>1, <1>2, BeginningFacts, Zenon DEF Parent
<1>4. IsPrefix(Parent(q), q) /\ Parent(q) # q
  BY <1>1, <1>3, PrefixByComponent DEF Paths
<1>5. ASSUME NEW p \in Names
      PROVE  IsStrictPrefix(p, q) <=> IsPrefix(p, Parent(q))
  <2>1. ASSUME IsStrictPrefix(p, q) PROVE IsPrefix(p, Parent(q))
    <3>1. Len(p) < Len(q) /\ \A i \in 1 .. Len(p) : p[i] = q[i]
      BY <2>1, PrefixOrder, PrefixByComponent DEF IsStrictPrefix, Paths
    <3>2. Len(p) \in Nat
      BY PrefixOrder
    <3>. QED  BY <1>1, <1>3, <3>1, <3>2, PrefixByComponent
  <2>2. ASSUME IsPrefix(p, Parent(q)) PROVE IsStrictPrefix(p, q)
    <3>1. IsPrefix(p, q) /\ Len(p) <= Len(Parent(q))
      BY <1>3, <1>4, <2>2, PrefixOrder, PrefixByComponent DEF Paths
    <3>. QED  BY <1>1, <1>3, <3>1 DEF IsStrictPrefix
  <2>. QED  BY <2>1, <2>2
<1>6. Parent(q) # <<>> => Parent(q)[1] = q[1]
  <2>1. Parent(q) # <<>> => Len(Parent(q)) \in Nat \ {0}
    BY <1>3 DEF Names
  <2>. QED  BY <1>3, <2>1
<1>. QED  BY <1>3, <1>4, <1>5, <1>6 DEF IsStrictPrefix

\* Two beginnings of one path are ordered by their lengths, and are what is on the way to it.
LEMMA TrailFacts ==
    ASSUME NEW p \in Names, NEW n \in 0 .. Len(p)
    PROVE  {SubSeq(p, 1, m) : m \in 1 .. n} = {q \in Paths : IsPrefix(q, p) /\ Len(q) <= n}
<1>0. Len(p) \in Nat
  BY PrefixOrder
<1>1. ASSUME NEW m \in 1 .. n
      PROVE  /\ SubSeq(p, 1, m) \in Paths /\ IsPrefix(SubSeq(p, 1, m), p)
             /\ Len(SubSeq(p, 1, m)) <= n
  <2>1. m \in 0 .. Len(p)
    BY <1>0
  <2>2. /\ SubSeq(p, 1, m) \in Names /\ Len(SubSeq(p, 1, m)) = m
        /\ \A i \in 1 .. m : SubSeq(p, 1, m)[i] = p[i]
    BY <2>1, BeginningFacts
  <2>3. Len(SubSeq(p, 1, m)) <= Len(p)
    BY <2>1, <2>2
  <2>4. IsPrefix(SubSeq(p, 1, m), p)
    BY <2>2, <2>3, PrefixByComponent, Zenon
  <2>5. SubSeq(p, 1, m) # <<>>
    BY <2>2
  <2>. QED  BY <2>2, <2>4, <2>5 DEF Paths
<1>2. ASSUME NEW q \in Paths, IsPrefix(q, p), Len(q) <= n
      PROVE  \E m \in 1 .. n : q = SubSeq(p, 1, m)
  <2>1. q \in Names /\ Len(q) \in 1 .. n /\ Len(q) \in 0 .. Len(p)
    <3>1. q \in Names /\ Len(q) \in Nat \ {0}
      BY DEF Paths, Names
    <3>. QED  BY <1>0, <1>2, <3>1
  <2>2. q = SubSeq(p, 1, Len(q))
    <3>1. SubSeq(q, 1, Len(q)) = q
      BY <2>1 DEF Names
    <3>. QED  BY <1>2, <3>1 DEF IsPrefix
  <2>. QED  BY <2>1, <2>2, Zenon
<1>. QED  BY <1>1, <1>2, Zenon

-----------------------------------------------------------------------------
(***************************************************************************)
(* Trees.                                                                  *)
(***************************************************************************)

\* The trees that the storage methods keep: no path is a file and a directory, whatever
\* is on the way to an entry is a directory, and every entry is below one of the mounts.
Good(t, mounts) ==
    /\ t = [files |-> t.files, dirs |-> t.dirs]
    /\ t.files = [p \in Files(t) |-> t.files[p]]
    /\ Files(t) \subseteq Paths /\ t.dirs \subseteq Paths
    /\ Files(t) \cap t.dirs = {}
    /\ \A q \in Files(t) \cup t.dirs, p \in Paths : IsStrictPrefix(p, q) => p \in t.dirs
    /\ \A q \in Files(t) \cup t.dirs : q[1] \in mounts

\* A good tree is well formed.
LEMMA GoodIsWellFormed ==
    ASSUME NEW t, NEW mounts, Good(t, mounts)
    PROVE  WellFormedTree(t) /\ \A p \in Files(t) \cup t.dirs : p[1] \in mounts
<1>1. ASSUME NEW q \in Files(t) \cup t.dirs
      PROVE  q # <<>> /\ (Parent(q) # <<>> => Parent(q) \in t.dirs)
  <2>1. q \in Paths
    BY DEF Good
  <2>2. Parent(q) \in Names /\ IsStrictPrefix(Parent(q), q)
    BY <2>1, ParentPrefix
  <2>. QED  BY <2>1, <2>2 DEF Good, Paths
<1>. QED  BY <1>1 DEF Good, WellFormedTree

\* The tree of a new store is good.
LEMMA EmptyIsGood ==
    ASSUME NEW mounts
    PROVE  Good(EmptyTree, mounts) /\ Files(EmptyTree) = {}
<1>. QED  BY DEF Good, EmptyTree, Files

\* add_parents keeps the files and the directories, adds directories on the way to p only,
\* and succeeds only when all of them are there in the end; it leaves a good tree either way.
LEMMA AddParentsFacts ==
    ASSUME NEW t, NEW mounts, Good(t, mounts),
           NEW p \in Names, p # <<>> => p[1] \in mounts,
           NEW made, made = AddParents(t, p)
    PROVE  /\ Good(made.tree, mounts)
           /\ made.tree.files = t.files
           /\ t.dirs \subseteq made.tree.dirs
           /\ made.tree.dirs \subseteq t.dirs \cup {q \in Paths : IsPrefix(q, p)}
           /\ made.ok <=> (\A q \in Paths : IsPrefix(q, p) => q \notin Files(t))
           /\ made.ok => \A q \in Paths : IsPrefix(q, p) => q \in made.tree.dirs
<1>. DEFINE blocked == {n \in 1 .. Len(p) : SubSeq(p, 1, n) \in Files(t)}
            passed == {n \in 1 .. Len(p) : \A m \in blocked : n < m}
            new == {SubSeq(p, 1, n) : n \in passed}
<1>0. Len(p) \in Nat /\ Len(p) \in 0 .. Len(p)
  BY PrefixOrder
<1>1. \A n \in 1 .. Len(p) :
          SubSeq(p, 1, n) \in Paths /\ IsPrefix(SubSeq(p, 1, n), p) /\ Len(SubSeq(p, 1, n)) = n
  <2>1. {SubSeq(p, 1, n) : n \in 1 .. Len(p)} = {q \in Paths : IsPrefix(q, p) /\ Len(q) <= Len(p)}
    BY <1>0, TrailFacts
  <2>2. \A n \in 1 .. Len(p) : n \in 0 .. Len(p)
    BY <1>0
  <2>3. \A n \in 1 .. Len(p) : Len(SubSeq(p, 1, n)) = n
    BY <2>2, BeginningFacts
  <2>. QED  BY <2>1, <2>3, Zenon
<1>2. \A q \in Paths : IsPrefix(q, p) => Len(q) \in 1 .. Len(p) /\ q = SubSeq(p, 1, Len(q))
  <2>1. ASSUME NEW q \in Paths, IsPrefix(q, p) PROVE Len(q) \in 1 .. Len(p) /\ q = SubSeq(p, 1, Len(q))
    <3>1. Len(q) \in Nat \ {0} /\ Len(q) <= Len(p)
      BY <2>1 DEF Paths, Names, IsPrefix
    <3>. QED  BY <1>0, <2>1, <3>1 DEF IsPrefix
  <2>. QED  BY <2>1
<1>3. new = {q \in Paths : IsPrefix(q, p) /\ Len(q) \in passed}
  <2>1. \A n \in passed : n \in 1 .. Len(p)
    OBVIOUS
  <2>. HIDE DEF passed
  <2>. QED  BY <1>1, <1>2, <2>1, Zenon
<1>4. blocked = {} <=> \A q \in Paths : IsPrefix(q, p) => q \notin Files(t)
  BY <1>1, <1>2, Zenon
<1>5. /\ made.ok = (blocked = {})
      /\ made.tree = [files |-> t.files, dirs |-> t.dirs \cup new]
  BY Zenon DEF AddParents, Good
<1>6. \A q \in new : q \in Paths /\ IsPrefix(q, p) /\ Len(q) \in passed /\ q \notin Files(t)
  <2>1. \A n \in passed : n \notin blocked
    BY <1>0
  <2>2. \A q \in Paths : IsPrefix(q, p) /\ q \in Files(t) => Len(q) \in blocked
    BY <1>2, Zenon
  <2>. HIDE DEF passed, blocked, new
  <2>. QED  BY <1>3, <2>1, <2>2, Zenon
<1>7. made.ok => \A q \in Paths : IsPrefix(q, p) => q \in new
  <2>1. blocked = {} => \A n \in 1 .. Len(p) : n \in passed
    BY Zenon
  <2>. HIDE DEF passed, blocked, new
  <2>. QED  BY <1>2, <1>3, <1>5, <2>1, Zenon
<1>. HIDE DEF blocked, new
<1>8. Good(made.tree, mounts)
  <2>1. Files(made.tree) = Files(t) /\ made.tree.dirs = t.dirs \cup new /\ made.tree.files = t.files
    BY <1>5 DEF Files
  <2>2. ASSUME NEW q \in new, NEW r \in Paths, IsStrictPrefix(r, q)
        PROVE  r \in new
    <3>1. r \in Names /\ q \in Names /\ IsPrefix(r, q) /\ IsPrefix(q, p) /\ Len(r) < Len(q)
      BY <1>6, <2>2, PrefixOrder DEF IsStrictPrefix, Paths
    <3>2. IsPrefix(r, p)
      BY <3>1, PrefixOrder
    <3>3. Len(r) \in 1 .. Len(p) /\ Len(q) \in passed /\ blocked \subseteq 1 .. Len(p)
      BY <1>2, <1>6, <3>2 DEF blocked
    <3>4. Len(r) \in passed
      BY <1>0, <3>1, <3>3
    <3>. QED  BY <1>3, <3>2, <3>4, Zenon
  <2>3. ASSUME NEW q \in new PROVE q[1] \in mounts
    <3>1. q \in Names /\ Len(q) \in Nat \ {0} /\ IsPrefix(q, p)
      BY <1>6 DEF Paths, Names
    <3>2. Len(p) # 0 /\ p[1] = q[1]
      BY <1>0, <3>1, PrefixByComponent
    <3>3. p # <<>>
      BY <3>2
    <3>. QED  BY <3>2, <3>3
  <2>. QED  BY <1>5, <1>6, <2>1, <2>2, <2>3, Zenon DEF Good
<1>9. made.tree.files = t.files /\ made.tree.dirs = t.dirs \cup new
  BY <1>5
<1>10. made.ok <=> (\A q \in Paths : IsPrefix(q, p) => q \notin Files(t))
  BY <1>4, <1>5, Zenon
<1>11. made.ok => \A q \in Paths : IsPrefix(q, p) => q \in made.tree.dirs
  BY <1>7, <1>9
<1>12. t.dirs \subseteq made.tree.dirs /\ made.tree.dirs \subseteq t.dirs \cup {q \in Paths : IsPrefix(q, p)}
  BY <1>6, <1>9
<1>. QED  BY <1>8, <1>9, <1>10, <1>11, <1>12, Zenon

-----------------------------------------------------------------------------
(***************************************************************************)
(* The storage methods of the bare-metal platform.                         *)
(***************************************************************************)

\* What every method leaves in memory: a good tree, and after an error the same files and
\* no directory less.
Keeps(t, mounts, outcome) ==
    /\ outcome.next \in {"commit", "ok", "error"}
    /\ Good(outcome.tree, mounts)
    /\ outcome.next = "error" => /\ outcome.tree.files = t.files
                                 /\ t.dirs \subseteq outcome.tree.dirs
    /\ outcome.next = "ok" => outcome.tree = t

\* Every directory on the way to p is there.
HasParents(t, p) == \A q \in Paths : IsStrictPrefix(q, p) => q \in t.dirs

Inserted(t, p, d, new) == new = [files |-> Insert(t.files, p, d), dirs |-> t.dirs]

\* A file may be put at a path that is no directory, below directories only.
LEMMA InsertFacts ==
    ASSUME NEW t, NEW mounts, Good(t, mounts), NEW p \in Paths, p[1] \in mounts,
           p \notin t.dirs, HasParents(t, p), NEW d, NEW new, Inserted(t, p, d, new)
    PROVE  /\ Good(new, mounts)
           /\ new.dirs = t.dirs /\ Files(new) = Files(t) \cup {p}
           /\ new.files[p] = d
           /\ \A q \in Files(t) \ {p} : new.files[q] = t.files[q]
<1>1. /\ new = [files |-> new.files, dirs |-> new.dirs]
      /\ new.dirs = t.dirs /\ Files(new) = Files(t) \cup {p}
      /\ new.files = [q \in Files(new) |-> new.files[q]]
      /\ new.files[p] = d
      /\ \A q \in Files(t) \ {p} : new.files[q] = t.files[q]
  BY DEF Inserted, Insert, Files
<1>. QED  BY <1>1 DEF Good, HasParents

\* storage_write.
LEMMA WriteKeeps ==
    ASSUME NEW t, NEW mounts, Good(t, mounts), NEW p \in Paths, p[1] \in mounts, NEW d,
           NEW outcome, outcome = StorageWrite(t, p, d)
    PROVE  /\ Keeps(t, mounts, outcome)
           /\ outcome.next \in {"commit", "error"}
           /\ outcome.next = "commit" =>
                  /\ Files(outcome.tree) = Files(t) \cup {p} /\ t.dirs \subseteq outcome.tree.dirs
                  /\ \A q \in Paths : IsStrictPrefix(q, p) => q \in outcome.tree.dirs
                  /\ outcome.tree.dirs \subseteq t.dirs \cup {q \in Paths : IsStrictPrefix(q, p)}
                  /\ outcome.tree.files[p] = d
                  /\ \A q \in Files(t) \ {p} : outcome.tree.files[q] = t.files[q]
<1>1. /\ Parent(p) \in Names /\ (Parent(p) # <<>> => Parent(p)[1] \in mounts)
      /\ \A q \in Paths : IsStrictPrefix(q, p) <=> IsPrefix(q, Parent(p))
  BY ParentPrefix DEF Paths
<1>2. PICK made : made = AddParents(t, Parent(p))
  OBVIOUS
<1>3. /\ Good(made.tree, mounts) /\ made.tree.files = t.files /\ t.dirs \subseteq made.tree.dirs
      /\ made.tree.dirs \subseteq t.dirs \cup {q \in Paths : IsPrefix(q, Parent(p))}
      /\ made.ok => \A q \in Paths : IsPrefix(q, Parent(p)) => q \in made.tree.dirs
  BY <1>1, <1>2, AddParentsFacts
<1>4. CASE p \in t.dirs
  BY <1>4 DEF StorageWrite, Fails, Keeps
<1>5. CASE p \notin t.dirs /\ ~made.ok
  BY <1>2, <1>3, <1>5 DEF StorageWrite, Fails, Keeps
<1>6. CASE p \notin t.dirs /\ made.ok
  <2>1. PICK new : new = [files |-> Insert(made.tree.files, p, d), dirs |-> made.tree.dirs]
    BY Zenon
  <2>2. outcome = [next |-> "commit", tree |-> new]
    BY <1>2, <1>3, <1>6, <2>1 DEF StorageWrite, Commits, Good
  <2>3. p \notin made.tree.dirs
    BY <1>1, <1>3, <1>6 DEF IsStrictPrefix
  <2>6. HasParents(made.tree, p)
    BY <1>1, <1>3, <1>6 DEF HasParents
  <2>4. /\ Good(new, mounts) /\ new.dirs = made.tree.dirs /\ Files(new) = Files(made.tree) \cup {p}
        /\ new.files[p] = d /\ \A q \in Files(made.tree) \ {p} : new.files[q] = made.tree.files[q]
    <3>1. Inserted(made.tree, p, d, new)
      BY <2>1 DEF Inserted
    <3>. QED  BY <1>3, <2>3, <2>6, <3>1, InsertFacts
  <2>5. Files(made.tree) = Files(t)
    BY <1>3 DEF Files
  <2>. QED  BY <1>1, <1>3, <1>6, <2>2, <2>4, <2>5 DEF Keeps
<1>. QED  BY <1>4, <1>5, <1>6

\* storage_create_dir_all.
LEMMA CreateDirAllKeeps ==
    ASSUME NEW t, NEW mounts, Good(t, mounts), NEW p \in Paths, p[1] \in mounts,
           NEW outcome, outcome = StorageCreateDirAll(t, p)
    PROVE  /\ Keeps(t, mounts, outcome)
           /\ outcome.next \in {"commit", "error"}
           /\ outcome.tree.files = t.files /\ t.dirs \subseteq outcome.tree.dirs
           /\ outcome.next = "commit" => p \in outcome.tree.dirs
<1>1. PICK made : made = AddParents(t, p)
  OBVIOUS
<1>2. /\ Good(made.tree, mounts) /\ made.tree.files = t.files /\ t.dirs \subseteq made.tree.dirs
      /\ made.ok => \A q \in Paths : IsPrefix(q, p) => q \in made.tree.dirs
  BY <1>1, AddParentsFacts DEF Paths
<1>3. IsPrefix(p, p)
  BY PrefixOrder DEF Paths
<1>. QED  BY <1>1, <1>2, <1>3 DEF StorageCreateDirAll, Fails, Commits, Keeps

\* storage_remove.
LEMMA RemoveKeeps ==
    ASSUME NEW t, NEW mounts, Good(t, mounts), NEW p \in Paths,
           NEW outcome, outcome = StorageRemove(t, p)
    PROVE  Keeps(t, mounts, outcome) /\ outcome.next \in {"commit", "error"}
<1>1. CASE p \in Files(t)
  <2>1. outcome = [next |-> "commit",
                   tree |-> [files |-> [q \in Files(t) \ {p} |-> t.files[q]], dirs |-> t.dirs]]
    BY <1>1 DEF StorageRemove, Commits, Restrict, Good
  <2>2. PICK new : new = [files |-> [q \in Files(t) \ {p} |-> t.files[q]], dirs |-> t.dirs]
    BY Zenon
  <2>3. Files(new) = Files(t) \ {p} /\ new.dirs = t.dirs
    BY <2>2 DEF Files
  <2>4. new = [files |-> new.files, dirs |-> new.dirs] /\ new.files = [q \in Files(new) |-> new.files[q]]
    BY <2>2, <2>3
  <2>5. Good(new, mounts)
    BY <2>3, <2>4 DEF Good
  <2>. QED  BY <2>1, <2>2, <2>5 DEF Keeps
<1>2. CASE p \notin Files(t) /\ p \notin t.dirs
  BY <1>2 DEF StorageRemove, Fails, Keeps
<1>3. CASE p \notin Files(t) /\ p \in t.dirs
  <2>. DEFINE kept == {q \in Files(t) : ~IsStrictPrefix(p, q)}
              dirs == {q \in t.dirs : ~IsPrefix(p, q)}
              new == [files |-> [q \in kept |-> t.files[q]], dirs |-> dirs]
  <2>1. outcome = [next |-> "commit", tree |-> new]
    BY <1>3 DEF StorageRemove, Commits, RestrictDomain, Restrict, Files
  <2>2. ASSUME NEW q \in kept \cup dirs, NEW r \in Paths, IsStrictPrefix(r, q)
        PROVE  r \in dirs
    <3>1. r \in t.dirs /\ q \in Names /\ r \in Names /\ p \in Names
      BY <2>2 DEF Good, Paths
    <3>2. ASSUME IsPrefix(p, r) PROVE FALSE
      <4>1. IsPrefix(p, q) /\ Len(p) <= Len(r) /\ Len(r) < Len(q) /\ Len(p) \in Nat /\ Len(r) \in Nat /\ Len(q) \in Nat
        BY <2>2, <3>1, <3>2, PrefixOrder, PrefixByComponent DEF IsStrictPrefix
      <4>2. p # q
        BY <4>1
      <4>. QED  BY <4>1, <4>2 DEF IsStrictPrefix
    <3>. QED  BY <3>1, <3>2
  <2>3. Files(new) = kept /\ new.dirs = dirs /\ kept \subseteq Files(t) /\ dirs \subseteq t.dirs
    BY DEF Files
  <2>4. Good(new, mounts)
    <3>1. new = [files |-> new.files, dirs |-> new.dirs] /\ new.files = [q \in Files(new) |-> new.files[q]]
      BY DEF Files
    <3>. HIDE DEF kept, dirs, new
    <3>. QED  BY <2>2, <2>3, <3>1 DEF Good
  <2>. QED  BY <2>1, <2>4 DEF Keeps
<1>. QED  BY <1>1, <1>2, <1>3

-----------------------------------------------------------------------------
(***************************************************************************)
(* storage_rename.                                                         *)
(***************************************************************************)

\* The path r has to where p has from.
Replaced(p, from, to, r) ==
    /\ r \in Paths /\ Len(r) = Len(to) + (Len(p) - Len(from))
    /\ \A i \in 1 .. Len(to) : r[i] = to[i]
    /\ \A i \in 1 .. Len(p) - Len(from) : r[Len(to) + i] = p[Len(from) + i]
    /\ IsPrefix(to, r) /\ r[1] = to[1]

\* rebased, component by component.
LEMMA RebasedFacts ==
    ASSUME NEW p \in Names, NEW from \in Paths, NEW to \in Paths, IsPrefix(from, p)
    PROVE  Replaced(p, from, to, Rebased(p, from, to))
<1>. DEFINE rest == SubSeq(p, Len(from) + 1, Len(p))
            k == Len(p) - Len(from)
            r == Rebased(p, from, to)
<1>1. /\ from \in Names /\ to \in Names /\ Len(from) \in Nat \ {0} /\ Len(to) \in Nat \ {0}
      /\ Len(p) \in Nat /\ Len(from) <= Len(p) /\ k \in Nat
  <2>1. from \in Names /\ to \in Names /\ Len(from) \in Nat \ {0} /\ Len(to) \in Nat \ {0} /\ Len(p) \in Nat
    BY DEF Names, Paths
  <2>. QED  BY <2>1, PrefixByComponent
<1>2. rest \in Names /\ Len(rest) = k /\ \A i \in 1 .. k : rest[i] = p[Len(from) + i]
  <2>1. /\ p \in Seq(STRING) /\ Len(from) + 1 \in 1 .. Len(p) + 1
        /\ Len(p) \in Len(from) + 1 - 1 .. Len(p)
    BY <1>1 DEF Names
  <2>2. /\ rest \in Seq(STRING) /\ Len(rest) = Len(p) - (Len(from) + 1) + 1
        /\ \A i \in 1 .. Len(p) - (Len(from) + 1) + 1 : rest[i] = p[Len(from) + 1 + i - 1]
    BY <2>1, SubSeqFacts
  <2>3. Len(rest) = k
    BY <1>1, <2>2
  <2>4. ASSUME NEW i \in 1 .. k PROVE rest[i] = p[Len(from) + i]
    <3>1. i \in 1 .. Len(p) - (Len(from) + 1) + 1 /\ Len(from) + 1 + i - 1 = Len(from) + i
      BY <1>1
    <3>. HIDE DEF rest
    <3>. QED  BY <2>2, <3>1
  <2>. QED  BY <2>2, <2>3, <2>4 DEF Names
<1>3. r = to \o rest
  BY DEF Rebased
<1>. HIDE DEF rest, r
<1>4. /\ r \in Names /\ Len(r) = Len(to) + k
      /\ \A i \in 1 .. Len(to) + k : r[i] = IF i <= Len(to) THEN to[i] ELSE rest[i - Len(to)]
  <2>1. to \in Seq(STRING) /\ rest \in Seq(STRING)
    BY <1>1, <1>2 DEF Names
  <2>. HIDE DEF k
  <2>. QED  BY <1>2, <1>3, <2>1, ConcatFacts, Zenon DEF Names
<1>5. \A i \in 1 .. Len(to) : r[i] = to[i]
  BY <1>1, <1>4
<1>6. ASSUME NEW i \in 1 .. k PROVE r[Len(to) + i] = p[Len(from) + i]
  <2>1. Len(to) + i \in 1 .. Len(to) + k /\ ~(Len(to) + i <= Len(to)) /\ Len(to) + i - Len(to) = i
    BY <1>1
  <2>. QED  BY <1>2, <1>4, <2>1
<1>7. r \in Paths
  <2>1. Len(r) # 0
    BY <1>1, <1>4
  <2>. QED  BY <1>4, <2>1 DEF Paths
<1>8. IsPrefix(to, r)
  <2>1. Len(to) <= Len(r)
    BY <1>1, <1>4
  <2>. QED  BY <1>1, <1>4, <1>5, <2>1, PrefixByComponent
<1>9. Replaced(p, from, to, r)
  BY <1>1, <1>4, <1>5, <1>6, <1>7, <1>8 DEF Replaced
<1>. QED  BY <1>9 DEF r

\* Renaming back undoes a rename of a path.
LEMMA RebasedBack ==
    ASSUME NEW p \in Names, NEW from \in Paths, NEW to \in Paths, IsPrefix(from, p)
    PROVE  Rebased(Rebased(p, from, to), to, from) = p
<1>1. PICK r : r = Rebased(p, from, to)
  OBVIOUS
<1>2. PICK s : s = Rebased(r, to, from)
  OBVIOUS
<1>3. /\ r \in Paths /\ Len(r) = Len(to) + (Len(p) - Len(from)) /\ IsPrefix(to, r)
      /\ \A i \in 1 .. Len(p) - Len(from) : r[Len(to) + i] = p[Len(from) + i]
  BY <1>1, RebasedFacts, Zenon DEF Replaced
<1>4. /\ s \in Paths /\ Len(s) = Len(from) + (Len(r) - Len(to))
      /\ \A i \in 1 .. Len(from) : s[i] = from[i]
      /\ \A i \in 1 .. Len(r) - Len(to) : s[Len(from) + i] = r[Len(to) + i]
  <2>1. r \in Names
    BY <1>3 DEF Paths
  <2>2. Replaced(r, to, from, s)
    BY <1>2, <1>3, <2>1, RebasedFacts
  <2>. QED  BY <2>2 DEF Replaced
<1>5. Len(p) \in Nat /\ Len(from) \in Nat /\ Len(to) \in Nat /\ Len(from) <= Len(p)
  BY PrefixOrder, PrefixByComponent DEF Paths
<1>6. Len(s) = Len(p) /\ Len(r) - Len(to) = Len(p) - Len(from)
  BY <1>3, <1>4, <1>5
<1>7. \A i \in 1 .. Len(from) : s[i] = p[i]
  BY <1>4, <1>5, PrefixByComponent DEF Paths
<1>8. ASSUME NEW i \in 1 .. Len(p) PROVE s[i] = p[i]
  <2>1. CASE i <= Len(from)
    BY <1>5, <1>7, <2>1
  <2>2. CASE i > Len(from)
    <3>1. PICK j \in 1 .. Len(p) - Len(from) : i = Len(from) + j
      <4>1. i - Len(from) \in 1 .. Len(p) - Len(from) /\ i = Len(from) + (i - Len(from))
        BY <1>5, <2>2
      <4>. QED  BY <4>1
    <3>. QED  BY <1>3, <1>4, <1>6, <3>1, Zenon
  <2>. QED  BY <1>5, <2>1, <2>2
<1>9. s = p
  BY <1>4, <1>6, <1>8, EqualSequences DEF Names, Paths
<1>. QED  BY <1>1, <1>2, <1>9

\* The source itself becomes the target.
LEMMA RebasedWhole ==
    ASSUME NEW from \in Paths, NEW to \in Paths
    PROVE  Rebased(from, from, to) = to
<1>1. PICK r : r = Rebased(from, from, to)
  OBVIOUS
<1>2. Replaced(from, from, to, r)
  BY <1>1, RebasedFacts, PrefixOrder DEF Paths
<1>3. r \in Names /\ to \in Names /\ Len(r) = Len(to) /\ \A i \in 1 .. Len(to) : r[i] = to[i]
  <2>1. Len(from) \in Nat /\ Len(to) \in Nat
    BY PrefixOrder DEF Paths
  <2>. QED  BY <1>2, <2>1 DEF Replaced, Paths
<1>4. r = to
  BY <1>3, EqualSequences DEF Names
<1>. QED  BY <1>1, <1>4

\* rebased keeps the order of the paths below from.
LEMMA RebasedOrder ==
    ASSUME NEW p \in Names, NEW q \in Names, NEW from \in Paths, NEW to \in Paths,
           IsPrefix(from, p), IsPrefix(from, q), IsPrefix(p, q)
    PROVE  IsPrefix(Rebased(p, from, to), Rebased(q, from, to))
<1>1. PICK r, s : r = Rebased(p, from, to) /\ s = Rebased(q, from, to)
  OBVIOUS
<1>2. /\ r \in Paths /\ Len(r) = Len(to) + (Len(p) - Len(from))
      /\ \A i \in 1 .. Len(to) : r[i] = to[i]
      /\ \A i \in 1 .. Len(p) - Len(from) : r[Len(to) + i] = p[Len(from) + i]
  <2>1. Replaced(p, from, to, r)
    BY <1>1, RebasedFacts, Zenon
  <2>. QED  BY <2>1, Zenon DEF Replaced
<1>3. /\ s \in Paths /\ Len(s) = Len(to) + (Len(q) - Len(from))
      /\ \A i \in 1 .. Len(to) : s[i] = to[i]
      /\ \A i \in 1 .. Len(q) - Len(from) : s[Len(to) + i] = q[Len(from) + i]
  <2>1. Replaced(q, from, to, s)
    BY <1>1, RebasedFacts, Zenon
  <2>. QED  BY <2>1, Zenon DEF Replaced
<1>4. /\ Len(p) \in Nat /\ Len(q) \in Nat /\ Len(from) \in Nat /\ Len(to) \in Nat
      /\ Len(from) <= Len(p) /\ Len(p) <= Len(q) /\ \A i \in 1 .. Len(p) : p[i] = q[i]
  BY PrefixOrder, PrefixByComponent DEF Paths
<1>5. ASSUME NEW i \in 1 .. Len(r) PROVE r[i] = s[i]
  <2>1. CASE i <= Len(to)
    BY <1>2, <1>3, <1>4, <2>1
  <2>2. CASE i > Len(to)
    <3>1. PICK j \in 1 .. Len(p) - Len(from) : i = Len(to) + j
      <4>1. i - Len(to) \in 1 .. Len(p) - Len(from) /\ i = Len(to) + (i - Len(to))
        BY <1>2, <1>4, <2>2
      <4>. QED  BY <4>1, Zenon
    <3>2. Len(from) + j \in 1 .. Len(p) /\ j \in 1 .. Len(q) - Len(from)
      BY <1>4
    <3>. QED  BY <1>2, <1>3, <1>4, <3>1, <3>2
  <2>. QED  BY <1>2, <1>4, <2>1, <2>2
<1>6. Len(r) <= Len(s)
  BY <1>2, <1>3, <1>4
<1>. QED  BY <1>1, <1>2, <1>3, <1>5, <1>6, PrefixByComponent, Zenon DEF Paths

\* Where the entry p is after the rename.
Image(p, from, to) == IF IsPrefix(from, p) THEN Rebased(p, from, to) ELSE p

\* What storage_rename has checked when its loops begin: nothing is at the target, the
\* directories on the way to it are there, and it is not below the source.
Ready(t, mounts, from, to) ==
    /\ Good(t, mounts) /\ from \in Paths /\ to \in Paths /\ to[1] \in mounts
    /\ ~Exists(t, to) /\ HasParents(t, to) /\ ~IsPrefix(from, to)

\* Then no two entries meet, and what is on the way to the image of an entry is the image of
\* a directory.
LEMMA ImageFacts ==
    ASSUME NEW t, NEW mounts, NEW from, NEW to, Ready(t, mounts, from, to),
           NEW q \in Files(t) \cup t.dirs
    PROVE  /\ Image(q, from, to) \in Paths /\ Image(q, from, to)[1] \in mounts
           /\ \A p \in Files(t) \cup t.dirs : Image(p, from, to) = Image(q, from, to) => p = q
           /\ \A r \in Paths : IsStrictPrefix(r, Image(q, from, to)) =>
                  \E y \in t.dirs : r = Image(y, from, to)
<1>1. /\ Good(t, mounts) /\ from \in Paths /\ to \in Paths /\ to[1] \in mounts /\ from \in Names /\ to \in Names
      /\ to \notin Files(t) \cup t.dirs /\ HasParents(t, to) /\ ~IsPrefix(from, to)
  BY DEF Ready, Exists, Paths
<1>2. /\ Files(t) \cup t.dirs \subseteq Paths /\ Files(t) \cup t.dirs \subseteq Names
      /\ \A p \in Files(t) \cup t.dirs : p[1] \in mounts
      /\ \A p \in Files(t) \cup t.dirs, r \in Paths : IsStrictPrefix(r, p) => r \in t.dirs
  BY <1>1 DEF Good, Paths
<1>3. \A p \in Files(t) \cup t.dirs : ~IsPrefix(to, p)
  BY <1>1, <1>2 DEF IsStrictPrefix
<1>4. ASSUME NEW p \in Files(t) \cup t.dirs, IsPrefix(from, p)
      PROVE  /\ Rebased(p, from, to) \in Paths /\ Rebased(p, from, to)[1] = to[1]
             /\ IsPrefix(to, Rebased(p, from, to)) /\ Rebased(Rebased(p, from, to), to, from) = p
  BY <1>1, <1>2, <1>4, RebasedFacts, RebasedBack DEF Replaced
<1>5. Image(q, from, to) \in Paths /\ Image(q, from, to)[1] \in mounts
  BY <1>1, <1>2, <1>4 DEF Image
<1>6. ASSUME NEW p \in Files(t) \cup t.dirs, Image(p, from, to) = Image(q, from, to)
      PROVE  p = q
  BY <1>3, <1>4, <1>6 DEF Image
<1>7. ASSUME NEW r \in Paths, IsStrictPrefix(r, Image(q, from, to))
      PROVE  \E y \in t.dirs : r = Image(y, from, to)
  <2>0. r \in Names /\ q \in Names
    BY <1>2 DEF Paths
  <2>1. CASE ~IsPrefix(from, q)
    <3>1. r \in t.dirs /\ IsPrefix(r, q)
      BY <1>2, <1>7, <2>1 DEF Image, IsStrictPrefix
    <3>2. ~IsPrefix(from, r)
      BY <1>1, <2>0, <2>1, <3>1, PrefixOrder
    <3>. QED  BY <3>1, <3>2 DEF Image
  <2>2. CASE IsPrefix(from, q) /\ IsStrictPrefix(r, to)
    <3>1. r \in t.dirs /\ IsPrefix(r, to)
      BY <1>1, <2>2 DEF HasParents, IsStrictPrefix
    <3>2. ~IsPrefix(from, r)
      BY <1>1, <2>0, <3>1, PrefixOrder
    <3>. QED  BY <3>1, <3>2 DEF Image
  <2>3. CASE IsPrefix(from, q) /\ ~IsStrictPrefix(r, to)
    <3>. DEFINE s == Rebased(q, from, to)
                y == Rebased(r, to, from)
    <3>1. s \in Names /\ IsStrictPrefix(r, s) /\ IsPrefix(r, s) /\ IsPrefix(to, s) /\ Rebased(s, to, from) = q
      BY <1>4, <1>7, <2>3 DEF Image, IsStrictPrefix, Paths
    <3>2. IsPrefix(to, r)
      BY <1>1, <2>0, <2>3, <3>1, PrefixOrder DEF IsStrictPrefix
    <3>3. y \in Paths /\ IsPrefix(from, y) /\ Rebased(y, from, to) = r
      BY <1>1, <2>0, <3>2, RebasedFacts, RebasedBack DEF Replaced
    <3>4. IsPrefix(y, q)
      <4>1. IsPrefix(Rebased(r, to, from), Rebased(s, to, from))
        BY <1>1, <2>0, <3>1, <3>2, RebasedOrder
      <4>. QED  BY <3>1, <4>1
    <3>5. y # q
      BY <3>1, <3>3 DEF IsStrictPrefix
    <3>6. y \in t.dirs
      BY <1>2, <3>3, <3>4, <3>5 DEF IsStrictPrefix
    <3>. QED  BY <3>3, <3>6 DEF Image
  <2>. QED  BY <2>1, <2>2, <2>3
<1>. QED  BY <1>5, <1>6, <1>7

\* Every entry of t is at its image in new, with its contents.
Moved(t, from, to, new) ==
    /\ new = [files |-> new.files, dirs |-> new.dirs]
    /\ new.files = [q \in Files(new) |-> new.files[q]]
    /\ new.dirs = {Image(p, from, to) : p \in t.dirs}
    /\ Files(new) = {Image(p, from, to) : p \in Files(t)}
    /\ \A p \in Files(t) : new.files[Image(p, from, to)] = t.files[p]

\* Such a tree is good.
LEMMA MovedIsGood ==
    ASSUME NEW t, NEW mounts, NEW from, NEW to, Ready(t, mounts, from, to),
           NEW new, Moved(t, from, to, new)
    PROVE  Good(new, mounts)
<1>0. Files(t) \cap t.dirs = {}
  BY DEF Ready, Good
<1>1. ASSUME NEW q \in Files(new) \cup new.dirs
      PROVE  \E p \in Files(t) \cup t.dirs : q = Image(p, from, to)
  BY DEF Moved
<1>2. \A q \in Files(new) \cup new.dirs : q \in Paths /\ q[1] \in mounts
  BY <1>1, ImageFacts
<1>3. Files(new) \cap new.dirs = {}
  BY <1>0, ImageFacts DEF Moved
<1>4. \A q \in Files(new) \cup new.dirs, r \in Paths : IsStrictPrefix(r, q) => r \in new.dirs
  BY <1>1, ImageFacts DEF Moved
<1>. QED  BY <1>2, <1>3, <1>4 DEF Good, Moved

\* The branch for a file: nothing is below a file, so its image is the only one that differs.
LEMMA MoveFileFacts ==
    ASSUME NEW t, NEW mounts, NEW from, NEW to, Ready(t, mounts, from, to), from \in Files(t)
    PROVE  Moved(t, from, to, MoveFile(t, from, to))
<1>. DEFINE new == MoveFile(t, from, to)
<1>1. /\ Good(t, mounts) /\ from \in Paths /\ to \in Paths /\ to \notin Files(t) /\ from \in Names
  BY DEF Ready, Exists, Paths
<1>2. \A p \in Files(t) \cup t.dirs : IsPrefix(from, p) <=> p = from
  <2>1. IsPrefix(from, from)
    BY <1>1, PrefixOrder
  <2>. QED  BY <1>1, <2>1 DEF Good, IsStrictPrefix
<1>3. Rebased(from, from, to) = to
  BY <1>1, RebasedWhole
<1>4. \A p \in Files(t) \cup t.dirs : Image(p, from, to) = IF p = from THEN to ELSE p
  BY <1>2, <1>3 DEF Image
<1>5. /\ new = [files |-> Insert(Restrict(t.files, Files(t) \ {from}), to, t.files[from]),
                dirs |-> t.dirs]
  BY <1>1 DEF MoveFile, Good
<1>6. /\ new = [files |-> new.files, dirs |-> new.dirs]
      /\ Files(new) = (Files(t) \ {from}) \cup {to} /\ new.dirs = t.dirs
      /\ new.files = [q \in Files(new) |-> new.files[q]]
      /\ new.files[to] = t.files[from]
      /\ \A p \in Files(t) \ {from} : new.files[p] = t.files[p]
  BY <1>1, <1>5 DEF Insert, Restrict, Files
<1>. HIDE DEF new
<1>7. from \notin t.dirs
  BY <1>1 DEF Good
<1>8. new.dirs = {Image(p, from, to) : p \in t.dirs}
  BY <1>4, <1>6, <1>7
<1>9. Files(new) = {Image(p, from, to) : p \in Files(t)}
  BY <1>4, <1>6
<1>10. \A p \in Files(t) : new.files[Image(p, from, to)] = t.files[p]
  BY <1>4, <1>6
<1>11. Moved(t, from, to, new)
  BY <1>6, <1>8, <1>9, <1>10, Zenon DEF Moved
<1>. QED  BY <1>11 DEF new

\* The branch for a directory.
LEMMA MoveDirectoryFacts ==
    ASSUME NEW t, NEW mounts, NEW from, NEW to, Ready(t, mounts, from, to), from \in t.dirs
    PROVE  Moved(t, from, to, MoveDirectory(t, from, to))
<1>. DEFINE below == {p \in Files(t) : IsStrictPrefix(from, p)}
            Source(q) == CHOOSE p \in below : Rebased(p, from, to) = q
            arrived == {Rebased(p, from, to) : p \in below}
            new == MoveDirectory(t, from, to)
<1>1. Good(t, mounts) /\ from \notin Files(t)
  BY DEF Ready, Good
<1>2. \A p \in Files(t) : p \in below <=> IsPrefix(from, p)
  BY <1>1 DEF IsStrictPrefix
<1>3. \A p \in Files(t) : Image(p, from, to) = IF p \in below THEN Rebased(p, from, to) ELSE p
  BY <1>2 DEF Image
<1>4. /\ new = [files |-> [q \in (Files(t) \ below) \cup arrived |->
                              t.files[IF q \in arrived THEN Source(q) ELSE q]],
                dirs |-> {Image(p, from, to) : p \in t.dirs}]
  BY DEF MoveDirectory, Image
<1>. HIDE DEF below, new
<1>5. below \subseteq Files(t)
  BY DEF below
<1>6. \A p, q \in Files(t) : Image(p, from, to) = Image(q, from, to) => p = q
  BY ImageFacts
<1>7. Files(new) = {Image(p, from, to) : p \in Files(t)}
  <2>1. Files(new) = (Files(t) \ below) \cup arrived
    BY <1>4 DEF Files
  <2>. QED  BY <1>3, <1>5, <2>1
<1>8. ASSUME NEW p \in below PROVE Source(Rebased(p, from, to)) = p
  <2>1. Source(Rebased(p, from, to)) \in below /\ Rebased(Source(Rebased(p, from, to)), from, to) = Rebased(p, from, to)
    OBVIOUS
  <2>. QED  BY <1>3, <1>5, <1>6, <2>1
<1>9. ASSUME NEW p \in Files(t) PROVE new.files[Image(p, from, to)] = t.files[p]
  <2>1. CASE p \in below
    <3>1. Rebased(p, from, to) \in arrived
      BY <2>1
    <3>. HIDE DEF arrived, Source
    <3>. QED  BY <1>3, <1>4, <1>8, <2>1, <3>1
  <2>2. CASE p \notin below
    <3>1. p \notin arrived
      BY <1>3, <1>5, <1>6, <2>2
    <3>. HIDE DEF arrived, Source
    <3>. QED  BY <1>3, <1>4, <2>2, <3>1
  <2>. QED  BY <2>1, <2>2
<1>10. /\ new = [files |-> new.files, dirs |-> new.dirs]
       /\ new.files = [q \in Files(new) |-> new.files[q]]
       /\ new.dirs = {Image(p, from, to) : p \in t.dirs}
  <2>. HIDE DEF arrived, Source
  <2>. QED  BY <1>4 DEF Files
<1>11. Moved(t, from, to, new)
  BY <1>7, <1>9, <1>10, Zenon DEF Moved
<1>. QED  BY <1>11 DEF new

\* storage_rename: an error, nothing to do, or every entry at its image.
LEMMA RenameKeeps ==
    ASSUME NEW t, NEW mounts, Good(t, mounts), NEW from \in Paths, NEW to \in Paths,
           to[1] \in mounts, NEW outcome, outcome = StorageRename(t, from, to)
    PROVE  /\ Keeps(t, mounts, outcome)
           /\ outcome.next = "commit" =>
                  \E made : /\ Ready(made, mounts, from, to) /\ made.files = t.files
                            /\ t.dirs \subseteq made.dirs
                            /\ Moved(made, from, to, outcome.tree)
<1>1. /\ Parent(to) \in Names /\ (Parent(to) # <<>> => Parent(to)[1] \in mounts)
      /\ \A q \in Paths : IsStrictPrefix(q, to) <=> IsPrefix(q, Parent(to))
  BY ParentPrefix DEF Paths
<1>2. PICK made : made = AddParents(t, Parent(to))
  OBVIOUS
<1>3. /\ Good(made.tree, mounts) /\ made.tree.files = t.files /\ t.dirs \subseteq made.tree.dirs
      /\ made.tree.dirs \subseteq t.dirs \cup {q \in Paths : IsPrefix(q, Parent(to))}
      /\ made.ok => \A q \in Paths : IsPrefix(q, Parent(to)) => q \in made.tree.dirs
  BY <1>1, <1>2, AddParentsFacts
<1>4. CASE from = to \/ Exists(t, to) \/ IsStrictPrefix(from, to)
  BY <1>4 DEF StorageRename, Fails, Keeps
<1>5. CASE ~(from = to \/ Exists(t, to) \/ IsStrictPrefix(from, to)) /\ ~made.ok
  BY <1>2, <1>3, <1>5 DEF StorageRename, Fails, Keeps
<1>6. CASE ~(from = to \/ Exists(t, to) \/ IsStrictPrefix(from, to)) /\ made.ok
  <2>1. Files(made.tree) = Files(t)
    BY <1>3 DEF Files
  <2>2. HasParents(made.tree, to)
    BY <1>1, <1>3, <1>6 DEF HasParents
  <2>3. ~Exists(made.tree, to)
    BY <1>1, <1>3, <1>6, <2>1 DEF Exists, IsStrictPrefix
  <2>4. Ready(made.tree, mounts, from, to)
    BY <1>3, <1>6, <2>2, <2>3 DEF Ready, IsStrictPrefix
  <2>5. CASE from \in Files(t)
    <3>1. outcome = [next |-> "commit", tree |-> MoveFile(made.tree, from, to)]
      BY <1>2, <1>6, <2>5 DEF StorageRename, Commits
    <3>2. Moved(made.tree, from, to, outcome.tree)
      BY <2>1, <2>4, <2>5, <3>1, MoveFileFacts
    <3>. QED  BY <1>3, <2>4, <3>1, <3>2, MovedIsGood DEF Keeps
  <2>6. CASE from \notin Files(t) /\ from \notin made.tree.dirs
    BY <1>2, <1>3, <1>6, <2>6 DEF StorageRename, Fails, Keeps
  <2>7. CASE from \notin Files(t) /\ from \in made.tree.dirs
    <3>1. outcome = [next |-> "commit", tree |-> MoveDirectory(made.tree, from, to)]
      BY <1>2, <1>6, <2>7 DEF StorageRename, Commits
    <3>2. Moved(made.tree, from, to, outcome.tree)
      BY <2>4, <2>7, <3>1, MoveDirectoryFacts
    <3>. QED  BY <1>3, <2>4, <3>1, <3>2, MovedIsGood DEF Keeps
  <2>. QED  BY <2>5, <2>6, <2>7
<1>. QED  BY <1>4, <1>5, <1>6

-----------------------------------------------------------------------------
(***************************************************************************)
(* The storage methods of the desktop platform: the trees that they leave. *)
(***************************************************************************)

DataRoots == {"apps", "user"}
Below(p) == {q \in Paths : IsPrefix(p, q)}

\* Of a good tree t a call leaves the good tree u and touches only files in S.
Changes(t, u, S) ==
    /\ Good(u, DataRoots)
    /\ \A p \in (Files(t) \cup Files(u)) \ S :
           p \in Files(t) /\ p \in Files(u) /\ u.files[p] = t.files[p]

\* No file is touched by a call that leaves the files as they are.
LEMMA SameFiles ==
    ASSUME NEW t, NEW u, Good(u, DataRoots), u.files = t.files, NEW S
    PROVE  Changes(t, u, S)
  BY DEF Changes, Files

\* The directories that create_dir_all makes are those on the way, with the last.
LEMMA TrailIsWay ==
    ASSUME NEW p \in Names
    PROVE  Trail(p) = {q \in Paths : IsPrefix(q, p)}
<1>1. Len(p) \in 0 .. Len(p)
  BY PrefixOrder
<1>2. Trail(p) = {q \in Paths : IsPrefix(q, p) /\ Len(q) <= Len(p)}
  BY <1>1, TrailFacts DEF Trail
<1>3. \A q \in Paths : IsPrefix(q, p) => Len(q) <= Len(p)
  BY PrefixByComponent DEF Paths
<1>. QED  BY <1>2, <1>3

\* Host and bare metal make the same directories, or both fail: create_dir_all and
\* add_parents.
LEMMA MadeAlike ==
    ASSUME NEW t, NEW p \in Names, NEW host, host = HostCreateDirAll(t, p),
           NEW bare, bare = AddParents(t, p)
    PROVE  /\ host.ok \in BOOLEAN /\ bare.ok \in BOOLEAN
           /\ host.ok <=> bare.ok
           /\ host.ok => host.tree = bare.tree
           /\ ~host.ok => host.tree = t
<1>. DEFINE blocked == {n \in 1 .. Len(p) : SubSeq(p, 1, n) \in Files(t)}
<1>1. blocked = {} <=> Trail(p) \cap Files(t) = {}
  BY Zenon DEF Trail
<1>2. CASE blocked = {}
  <2>1. bare = [ok |-> TRUE, tree |-> [t EXCEPT !.dirs = @ \cup Trail(p)]]
    BY <1>2, Zenon DEF AddParents, Trail
  <2>2. host = [ok |-> TRUE, tree |-> [t EXCEPT !.dirs = @ \cup Trail(p)]]
    BY <1>1, <1>2 DEF HostCreateDirAll, Ok
  <2>3. host.ok = TRUE /\ bare.ok = TRUE /\ host.tree = bare.tree
    BY <2>1, <2>2
  <2>. QED  BY <2>3, Zenon
<1>3. CASE blocked # {}
  <2>1. bare.ok = FALSE
    BY <1>3, Zenon DEF AddParents
  <2>2. host = [ok |-> FALSE, tree |-> t]
    BY <1>1, <1>3 DEF HostCreateDirAll, Err
  <2>3. host.ok = FALSE /\ host.tree = t
    BY <2>2
  <2>. QED  BY <2>1, <2>3, Zenon
<1>. QED  BY <1>2, <1>3

\* create_dir_all leaves the files alone; if it succeeds, the whole way is there.
LEMMA HostCreateFacts ==
    ASSUME NEW t, Good(t, DataRoots), NEW p \in Names, p # <<>> => p[1] \in DataRoots,
           NEW made, made = HostCreateDirAll(t, p)
    PROVE  /\ made.ok \in BOOLEAN
           /\ Good(made.tree, DataRoots) /\ made.tree.files = t.files
           /\ t.dirs \subseteq made.tree.dirs
           /\ made.tree.dirs \subseteq t.dirs \cup {q \in Paths : IsPrefix(q, p)}
           /\ made.ok => \A q \in Paths : IsPrefix(q, p) => q \in made.tree.dirs
           /\ made.ok <=> \A q \in Paths : IsPrefix(q, p) => q \notin Files(t)
<1>1. PICK bare : bare = AddParents(t, p)
  OBVIOUS
<1>2. /\ Good(bare.tree, DataRoots) /\ bare.tree.files = t.files
      /\ t.dirs \subseteq bare.tree.dirs
      /\ bare.tree.dirs \subseteq t.dirs \cup {q \in Paths : IsPrefix(q, p)}
      /\ bare.ok => \A q \in Paths : IsPrefix(q, p) => q \in bare.tree.dirs
      /\ bare.ok <=> \A q \in Paths : IsPrefix(q, p) => q \notin Files(t)
  BY <1>1, AddParentsFacts
<1>3. /\ made.ok \in BOOLEAN /\ (made.ok <=> bare.ok)
      /\ made.ok => made.tree = bare.tree
      /\ ~made.ok => made.tree = t
  BY <1>1, MadeAlike
<1>4. CASE made.ok
  BY <1>2, <1>3, <1>4
<1>5. CASE ~made.ok
  BY <1>2, <1>3, <1>5
<1>. QED  BY <1>4, <1>5

\* The same if a host error ends it before its time.
LEMMA CreateDirLeavesFacts ==
    ASSUME NEW t, Good(t, DataRoots), NEW p \in Names, p # <<>> => p[1] \in DataRoots,
           NEW u \in CreateDirLeaves(t, p)
    PROVE  Good(u, DataRoots) /\ u.files = t.files
<1>1. PICK q \in Trail(p) \cup {<<>>} :
          u = [t EXCEPT !.dirs = @ \cup Trail(q)] /\ Trail(p) \cap Files(t) = {}
  BY DEF CreateDirLeaves
<1>2. CASE q = <<>>
  <2>1. Trail(q) = {}
    BY <1>2 DEF Trail
  <2>. QED  BY <1>1, <2>1 DEF Good
<1>3. CASE q \in Trail(p)
  <2>1. q \in Paths /\ q \in Names /\ IsPrefix(q, p)
    BY <1>3, TrailIsWay DEF Paths
  <2>2. Trail(q) \subseteq Trail(p)
    BY <2>1, TrailIsWay, PrefixOrder DEF Paths
  <2>3. HostCreateDirAll(t, q) = [ok |-> TRUE, tree |-> u]
    BY <1>1, <2>2 DEF HostCreateDirAll, Ok
  <2>4. q[1] \in DataRoots
    <3>1. Len(q) \in Nat \ {0} /\ Len(p) \in Nat
      BY <2>1 DEF Paths, Names
    <3>2. Len(q) <= Len(p) /\ q[1] = p[1]
      BY <2>1, <3>1, PrefixByComponent
    <3>3. p # <<>>
      BY <3>1, <3>2
    <3>. QED  BY <3>2, <3>3
  <2>5. PICK made : made = HostCreateDirAll(t, q)
    OBVIOUS
  <2>6. Good(made.tree, DataRoots) /\ made.tree.files = t.files
    BY <2>1, <2>4, <2>5, HostCreateFacts, Zenon
  <2>. QED  BY <2>3, <2>5, <2>6
<1>. QED  BY <1>1, <1>2, <1>3

\* What writable makes: the parents of a path, if no file is in the way.
LEMMA WritableFacts ==
    ASSUME NEW t, Good(t, DataRoots), NEW p \in Paths, p[1] \in DataRoots,
           NEW made, made = Writable(t, p)
    PROVE  /\ made.ok \in BOOLEAN
           /\ Good(made.tree, DataRoots) /\ made.tree.files = t.files
           /\ t.dirs \subseteq made.tree.dirs
           /\ made.tree.dirs \subseteq t.dirs \cup {q \in Paths : IsStrictPrefix(q, p)}
           /\ made.ok => HasParents(made.tree, p)
           /\ made.ok <=> \A q \in Paths : IsStrictPrefix(q, p) => q \notin Files(t)
<1>1. /\ Parent(p) \in Names /\ (Parent(p) # <<>> => Parent(p)[1] \in DataRoots)
      /\ \A q \in Paths : IsStrictPrefix(q, p) <=> IsPrefix(q, Parent(p))
  BY ParentPrefix DEF Paths
<1>2. made = HostCreateDirAll(t, Parent(p))
  BY DEF Writable
<1>3. /\ made.ok \in BOOLEAN
      /\ Good(made.tree, DataRoots) /\ made.tree.files = t.files
      /\ t.dirs \subseteq made.tree.dirs
      /\ made.tree.dirs \subseteq t.dirs \cup {q \in Paths : IsPrefix(q, Parent(p))}
      /\ made.ok => \A q \in Paths : IsPrefix(q, Parent(p)) => q \in made.tree.dirs
      /\ made.ok <=> \A q \in Paths : IsPrefix(q, Parent(p)) => q \notin Files(t)
  BY <1>1, <1>2, HostCreateFacts
<1>. QED  BY <1>1, <1>3 DEF HasParents

\* storage_write touches only its file.
LEMMA DesktopWriteFacts ==
    ASSUME NEW t, Good(t, DataRoots), NEW p \in Paths, p[1] \in DataRoots, NEW d,
           NEW o, o = DesktopWrite(t, p, d)
    PROVE  Changes(t, o.tree, Below(p))
<1>1. PICK made : made = Writable(t, p)
  OBVIOUS
<1>2. /\ Good(made.tree, DataRoots) /\ made.tree.files = t.files
      /\ made.ok => HasParents(made.tree, p)
  BY <1>1, WritableFacts
<1>3. CASE ~made.ok \/ p \in made.tree.dirs
  <2>1. o.tree = made.tree
    BY <1>1, <1>3 DEF DesktopWrite, Err
  <2>. QED  BY <1>2, <2>1, SameFiles
<1>4. CASE made.ok /\ p \notin made.tree.dirs
  <2>1. PICK new : new = [files |-> Insert(made.tree.files, p, d), dirs |-> made.tree.dirs]
    BY Zenon
  <2>2. o.tree = new
    <3>1. o = Ok([made.tree EXCEPT !.files = Insert(@, p, d)])
      BY <1>1, <1>4 DEF DesktopWrite
    <3>2. made.tree = [files |-> made.tree.files, dirs |-> made.tree.dirs]
      BY <1>2 DEF Good
    <3>. QED  BY <2>1, <3>1, <3>2 DEF Ok
  <2>3. Inserted(made.tree, p, d, new)
    BY <2>1 DEF Inserted
  <2>4. /\ Good(new, DataRoots) /\ Files(new) = Files(made.tree) \cup {p}
        /\ \A q \in Files(made.tree) \ {p} : new.files[q] = made.tree.files[q]
    BY <1>2, <1>4, <2>3, InsertFacts
  <2>5. p \in Below(p) /\ Files(made.tree) = Files(t)
    BY <1>2, PrefixOrder DEF Below, Paths, Files
  <2>. QED  BY <1>2, <2>2, <2>4, <2>5 DEF Changes
<1>. QED  BY <1>3, <1>4

\* storage_create_dir_all leaves the files alone.
LEMMA DesktopCreateFacts ==
    ASSUME NEW t, Good(t, DataRoots), NEW p \in Paths, p[1] \in DataRoots,
           NEW o, o = DesktopCreateDirAll(t, p)
    PROVE  Good(o.tree, DataRoots) /\ o.tree.files = t.files
<1>1. PICK made : made = Writable(t, p)
  OBVIOUS
<1>2. Good(made.tree, DataRoots) /\ made.tree.files = t.files
  BY <1>1, WritableFacts
<1>3. PICK last : last = HostCreateDirAll(made.tree, p)
  OBVIOUS
<1>4. Good(last.tree, DataRoots) /\ last.tree.files = made.tree.files
  BY <1>2, <1>3, HostCreateFacts DEF Paths
<1>5. o \in {made, last}
  BY <1>1, <1>3 DEF DesktopCreateDirAll
<1>. QED  BY <1>2, <1>4, <1>5

\* The tree new is t without the entries in gone.
Without(t, gone, new) ==
    new = [files |-> [q \in Files(t) \ gone |-> t.files[q]], dirs |-> t.dirs \ gone]

\* A good tree stays good without entries, if nothing that is below one of them is left.
LEMMA WithoutFacts ==
    ASSUME NEW t, NEW mounts, Good(t, mounts), NEW gone, NEW new, Without(t, gone, new),
           \A q \in gone, r \in Files(t) \cup t.dirs : IsStrictPrefix(q, r) => r \in gone
    PROVE  /\ Good(new, mounts) /\ Files(new) = Files(t) \ gone /\ new.dirs = t.dirs \ gone
           /\ \A q \in Files(new) : new.files[q] = t.files[q]
<1>1. /\ new = [files |-> new.files, dirs |-> new.dirs]
      /\ Files(new) = Files(t) \ gone /\ new.dirs = t.dirs \ gone
      /\ new.files = [q \in Files(new) |-> new.files[q]]
      /\ \A q \in Files(new) : new.files[q] = t.files[q]
  BY DEF Without, Files
<1>2. Good(new, mounts)
  BY <1>1 DEF Good
<1>. QED  BY <1>1, <1>2

\* Nothing is below p.
Childless(t, p) == \A r \in Files(t) \cup t.dirs : ~IsStrictPrefix(p, r)

\* The tree cleared is t without what is at the target, and the rename may begin.
Cleared(t, from, to, cleared) ==
    /\ Ready(cleared, DataRoots, from, to)
    /\ Files(cleared) = Files(t) \ {to} /\ cleared.dirs = t.dirs \ {to}
    /\ \A q \in Files(cleared) : cleared.files[q] = t.files[q]

\* Whatever is at the target may be put out of the way before a rename, if nothing is below it.
LEMMA ClearedFacts ==
    ASSUME NEW t, Good(t, DataRoots), NEW from \in Paths, NEW to \in Paths, to[1] \in DataRoots,
           HasParents(t, to), ~IsPrefix(from, to), Childless(t, to)
    PROVE  \E cleared : Cleared(t, from, to, cleared)
<1>0. PICK cleared : Without(t, {to}, cleared)
  BY Zenon DEF Without
<1>1. /\ Good(cleared, DataRoots)
      /\ Files(cleared) = Files(t) \ {to} /\ cleared.dirs = t.dirs \ {to}
      /\ \A q \in Files(cleared) : cleared.files[q] = t.files[q]
  BY <1>0, WithoutFacts DEF Childless
<1>2. HasParents(cleared, to)
  BY <1>1 DEF HasParents, IsStrictPrefix
<1>3. Cleared(t, from, to, cleared)
  BY <1>1, <1>2 DEF Cleared, Ready, Exists
<1>. QED  BY <1>3

\* Then the rename touches only what is at or below its source and its target.
LEMMA ClearedMoves ==
    ASSUME NEW t, NEW from, NEW to, NEW cleared, Cleared(t, from, to, cleared),
           NEW new, Moved(cleared, from, to, new)
    PROVE  Changes(t, new, Below(from) \cup Below(to))
<1>0. /\ from \in Paths /\ to \in Paths /\ Files(cleared) \subseteq Paths
      /\ Files(cleared) \subseteq Names
  BY DEF Cleared, Ready, Good, Paths
<1>1. Good(new, DataRoots)
  BY MovedIsGood DEF Cleared
<1>2. to \in Below(to)
  BY <1>0, PrefixOrder DEF Below, Paths
<1>3. ASSUME NEW p \in Files(t), p \notin Below(from) \cup Below(to)
      PROVE  p \in Files(new) /\ new.files[p] = t.files[p]
  <2>1. p \in Files(cleared) /\ ~IsPrefix(from, p)
    BY <1>0, <1>2, <1>3 DEF Below, Cleared
  <2>2. p \in Files(new) /\ new.files[p] = cleared.files[p]
    BY <2>1 DEF Moved, Image
  <2>. QED  BY <2>1, <2>2 DEF Cleared
<1>4. ASSUME NEW p \in Files(new), p \notin Below(from) \cup Below(to)
      PROVE  p \in Files(t)
  <2>1. PICK q \in Files(cleared) : p = Image(q, from, to)
    BY DEF Moved
  <2>2. CASE IsPrefix(from, q)
    <3>1. Replaced(q, from, to, Rebased(q, from, to))
      BY <1>0, <2>2, RebasedFacts
    <3>2. p = Rebased(q, from, to)
      BY <2>1, <2>2 DEF Image
    <3>. QED  BY <1>4, <3>1, <3>2 DEF Replaced, Below
  <2>3. CASE ~IsPrefix(from, q)
    BY <2>1, <2>3 DEF Image, Cleared
  <2>. QED  BY <2>2, <2>3
<1>. QED  BY <1>1, <1>3, <1>4 DEF Changes

\* rename of the host, below directories that are there.
LEMMA HostRenameFacts ==
    ASSUME NEW t, Good(t, DataRoots), NEW from \in Paths, NEW to \in Paths, to[1] \in DataRoots,
           HasParents(t, to), Exists(t, from), NEW o, o = HostRename(t, from, to)
    PROVE  Changes(t, o.tree, Below(from) \cup Below(to))
<1>. DEFINE entries == Files(t) \cup t.dirs
<1>0. /\ t = [files |-> t.files, dirs |-> t.dirs] /\ t.files = [q \in Files(t) |-> t.files[q]]
      /\ Files(t) \cap t.dirs = {}
      /\ \A q \in entries : IsStrictPrefix(to, q) => to \in t.dirs
  BY DEF Good
<1>1. CASE o.tree = t
  BY <1>1, SameFiles
<1>2. CASE from # to /\ from \in Files(t) /\ to \notin t.dirs
  <2>1. o.tree = MoveFile(t, from, to)
    BY <1>2 DEF HostRename, Ok
  <2>2. ~IsPrefix(from, to)
    BY <1>0, <1>2 DEF HasParents, IsStrictPrefix
  <2>3. PICK cleared : Cleared(t, from, to, cleared)
    <3>1. Childless(t, to)
      BY <1>0, <1>2 DEF Childless
    <3>. QED  BY <2>2, <3>1, ClearedFacts
  <2>4. /\ Ready(cleared, DataRoots, from, to)
        /\ Files(cleared) = Files(t) \ {to} /\ cleared.dirs = t.dirs
        /\ \A q \in Files(cleared) : cleared.files[q] = t.files[q]
    BY <1>2, <2>3 DEF Cleared
  <2>5. from \in Files(cleared)
    BY <1>2, <2>4
  <2>6. MoveFile(t, from, to) = MoveFile(cleared, from, to)
    <3>1. cleared = [files |-> cleared.files, dirs |-> t.dirs]
      BY <2>4 DEF Ready, Good
    <3>2. Insert(Restrict(t.files, Files(t) \ {from}), to, t.files[from]) =
          Insert(Restrict(cleared.files, Files(cleared) \ {from}), to, cleared.files[from])
      BY <2>4, <2>5 DEF Insert, Restrict
    <3>3. /\ MoveFile(t, from, to) = [files |-> Insert(Restrict(t.files, Files(t) \ {from}), to, t.files[from]), dirs |-> t.dirs]
          /\ MoveFile(cleared, from, to) = [files |-> Insert(Restrict(cleared.files, Files(cleared) \ {from}), to, cleared.files[from]), dirs |-> t.dirs]
      BY <1>0, <3>1 DEF MoveFile
    <3>. QED  BY <3>2, <3>3
  <2>7. Moved(cleared, from, to, MoveFile(cleared, from, to))
    BY <2>4, <2>5, MoveFileFacts
  <2>. QED  BY <2>1, <2>6, <2>7, <2>3, ClearedMoves
<1>3. CASE /\ from # to /\ from \notin Files(t) /\ ~IsStrictPrefix(from, to)
           /\ to \notin Files(t) /\ \A q \in entries : ~IsStrictPrefix(to, q)
  <2>1. o.tree = MoveDirectory(t, from, to)
    BY <1>3 DEF HostRename, Ok
  <2>2. PICK cleared : Cleared(t, from, to, cleared)
    <3>1. Childless(t, to) /\ ~IsPrefix(from, to)
      BY <1>3 DEF Childless, IsStrictPrefix
    <3>. QED  BY <3>1, ClearedFacts
  <2>3. /\ Ready(cleared, DataRoots, from, to)
        /\ Files(cleared) = Files(t) /\ cleared.dirs = t.dirs \ {to}
        /\ \A q \in Files(cleared) : cleared.files[q] = t.files[q]
    BY <1>3, <2>2 DEF Cleared
  <2>4. from \in cleared.dirs /\ from \in t.dirs
    BY <1>3, <2>3 DEF Exists
  <2>5. cleared.files = t.files
    <3>1. cleared.files = [q \in Files(cleared) |-> cleared.files[q]]
      BY <2>3 DEF Ready, Good
    <3>. QED  BY <1>0, <2>3, <3>1
  <2>6. {Image(p, from, to) : p \in t.dirs} = {Image(p, from, to) : p \in cleared.dirs}
    <3>1. Image(from, from, to) = to /\ Image(to, from, to) = to
      BY <1>3, RebasedWhole, PrefixOrder DEF Image, IsStrictPrefix, Paths
    <3>. QED  BY <2>3, <2>4, <3>1
  <2>7. MoveDirectory(t, from, to) = MoveDirectory(cleared, from, to)
    BY <2>3, <2>5, <2>6, Zenon DEF MoveDirectory, Image, Files
  <2>8. Moved(cleared, from, to, MoveDirectory(cleared, from, to))
    BY <2>3, <2>4, MoveDirectoryFacts
  <2>. QED  BY <2>1, <2>7, <2>8, <2>2, ClearedMoves
<1>4. CASE o.tree # t
  BY <1>2, <1>3, <1>4 DEF HostRename, Ok, Err
<1>. QED  BY <1>1, <1>4

-----------------------------------------------------------------------------
(***************************************************************************)
(* The two platforms.                                                      *)
(***************************************************************************)

\* A call that the one commits the other performs, with the same tree.
SameOutcome(bare, desktop) ==
    /\ desktop.ok \in BOOLEAN
    /\ desktop.ok <=> bare.next # "error"
    /\ desktop.ok => desktop.tree = bare.tree

\* storage_write of both platforms.
LEMMA WritesAgree ==
    ASSUME NEW t, Good(t, DataRoots), NEW p \in Paths, p[1] \in DataRoots, NEW d
    PROVE  SameOutcome(StorageWrite(t, p, d), DesktopWrite(t, p, d))
<1>1. PICK host : host = HostCreateDirAll(t, Parent(p))
  OBVIOUS
<1>2. PICK made : made = AddParents(t, Parent(p))
  OBVIOUS
<1>3. /\ host.ok \in BOOLEAN /\ (host.ok <=> made.ok) /\ (host.ok => host.tree = made.tree)
      /\ ~host.ok => host.tree = t
  BY <1>1, <1>2, MadeAlike, ParentPrefix
<1>4. /\ t.dirs \subseteq host.tree.dirs
      /\ host.tree.dirs \subseteq t.dirs \cup {q \in Paths : IsStrictPrefix(q, p)}
  BY <1>1, WritableFacts DEF Writable
<1>5. p \in host.tree.dirs <=> p \in t.dirs
  BY <1>4 DEF IsStrictPrefix
<1>6. CASE p \in t.dirs \/ ~host.ok
  <2>1. StorageWrite(t, p, d).next = "error"
    BY <1>2, <1>3, <1>6 DEF StorageWrite, Fails
  <2>2. DesktopWrite(t, p, d).ok = FALSE
    BY <1>1, <1>3, <1>5, <1>6 DEF DesktopWrite, Writable, Err
  <2>. QED  BY <2>1, <2>2, Zenon DEF SameOutcome
<1>7. CASE p \notin t.dirs /\ host.ok
  <2>1. StorageWrite(t, p, d) = Commits([made.tree EXCEPT !.files = Insert(@, p, d)])
    BY <1>2, <1>3, <1>7 DEF StorageWrite
  <2>2. DesktopWrite(t, p, d) = Ok([host.tree EXCEPT !.files = Insert(@, p, d)])
    BY <1>1, <1>5, <1>7 DEF DesktopWrite, Writable
  <2>. QED  BY <1>3, <1>7, <2>1, <2>2 DEF SameOutcome, Commits, Ok
<1>. QED  BY <1>3, <1>6, <1>7, Zenon

\* storage_create_dir_all: the desktop makes the parents first and then all of the path.
LEMMA CreatesAgree ==
    ASSUME NEW t, Good(t, DataRoots), NEW p \in Paths
    PROVE  SameOutcome(StorageCreateDirAll(t, p), DesktopCreateDirAll(t, p))
<1>1. PICK host : host = HostCreateDirAll(t, p)
  OBVIOUS
<1>2. PICK made : made = AddParents(t, p)
  OBVIOUS
<1>3. /\ host.ok \in BOOLEAN /\ (host.ok <=> made.ok) /\ (host.ok => host.tree = made.tree)
  BY <1>1, <1>2, MadeAlike DEF Paths
<1>4. Trail(Parent(p)) \subseteq Trail(p)
  BY TrailIsWay, ParentPrefix DEF Paths, IsStrictPrefix
<1>5. /\ DesktopCreateDirAll(t, p).ok = host.ok
      /\ host.ok => DesktopCreateDirAll(t, p).tree = host.tree
  <2>1. PICK first : first = HostCreateDirAll(t, Parent(p))
    OBVIOUS
  <2>2. CASE Trail(Parent(p)) \cap Files(t) # {}
    <3>1. first = Err(t) /\ host = Err(t)
      BY <1>1, <1>4, <2>1, <2>2 DEF HostCreateDirAll
    <3>. QED  BY <2>1, <3>1 DEF DesktopCreateDirAll, Writable, Err
  <2>3. CASE Trail(Parent(p)) \cap Files(t) = {}
    <3>1. first = Ok([t EXCEPT !.dirs = @ \cup Trail(Parent(p))])
      BY <2>1, <2>3 DEF HostCreateDirAll
    <3>2. /\ first.ok = TRUE
          /\ first.tree = [files |-> t.files, dirs |-> t.dirs \cup Trail(Parent(p))]
      BY <3>1, Zenon DEF Ok, Good
    <3>3. DesktopCreateDirAll(t, p) = HostCreateDirAll(first.tree, p)
      BY <2>1, <3>2 DEF DesktopCreateDirAll, Writable
    <3>4. Files(first.tree) = Files(t) /\ first.tree.dirs \cup Trail(p) = t.dirs \cup Trail(p)
      BY <1>4, <3>2 DEF Files
    <3>5. CASE Trail(p) \cap Files(t) # {}
      BY <1>1, <3>3, <3>4, <3>5 DEF HostCreateDirAll, Err
    <3>6. CASE Trail(p) \cap Files(t) = {}
      <4>1. host = Ok([files |-> t.files, dirs |-> t.dirs \cup Trail(p)])
        <5>1. host = Ok([t EXCEPT !.dirs = @ \cup Trail(p)])
          BY <1>1, <3>6 DEF HostCreateDirAll
        <5>2. t = [files |-> t.files, dirs |-> t.dirs]
          BY DEF Good
        <5>3. [t EXCEPT !.dirs = @ \cup Trail(p)] = [files |-> t.files, dirs |-> t.dirs \cup Trail(p)]
          BY <5>2
        <5>. QED  BY <5>1, <5>3
      <4>2. DesktopCreateDirAll(t, p) = Ok([files |-> t.files, dirs |-> t.dirs \cup Trail(p)])
        BY <3>2, <3>3, <3>4, <3>6 DEF HostCreateDirAll
      <4>. QED  BY <4>1, <4>2
    <3>. QED  BY <3>5, <3>6
  <2>. QED  BY <2>2, <2>3
<1>6. /\ StorageCreateDirAll(t, p).next # "error" <=> made.ok
      /\ StorageCreateDirAll(t, p).tree = made.tree
  BY <1>2 DEF StorageCreateDirAll, Commits, Fails
<1>. QED  BY <1>3, <1>5, <1>6 DEF SameOutcome

\* storage_remove: bare metal drops what is below a directory, the desktop what is at or
\* below any path, and nothing is below a file.
LEMMA RemovesAgree ==
    ASSUME NEW t, Good(t, DataRoots), NEW p \in Paths
    PROVE  SameOutcome(StorageRemove(t, p), DesktopRemove(t, p))
<1>0. /\ t = [files |-> t.files, dirs |-> t.dirs] /\ Files(t) \cap t.dirs = {}
      /\ Files(t) \subseteq Paths /\ t.dirs \subseteq Paths
      /\ \A q \in Files(t) \cup t.dirs : IsStrictPrefix(p, q) => p \in t.dirs
  BY DEF Good
<1>1. \A q \in Paths : IsPrefix(p, q) <=> IsStrictPrefix(p, q) \/ q = p
  BY PrefixOrder DEF IsStrictPrefix, Paths
<1>2. CASE ~Exists(t, p)
  <2>1. Existing(t, p) # "found"
    BY <1>2 DEF Existing
  <2>2. DesktopRemove(t, p).ok = FALSE
    BY <2>1 DEF DesktopRemove, Err
  <2>3. StorageRemove(t, p).next = "error"
    BY <1>2 DEF StorageRemove, Exists, Fails
  <2>. QED  BY <2>2, <2>3, Zenon DEF SameOutcome
<1>3. CASE Exists(t, p)
  <2>1. Existing(t, p) = "found"
    BY <1>3 DEF Existing
  <2>2. PICK kept : kept = {q \in Files(t) : ~IsPrefix(p, q)}
    BY Zenon
  <2>3. PICK dirs : dirs = {q \in t.dirs : ~IsPrefix(p, q)}
    BY Zenon
  <2>4. DesktopRemove(t, p) = Ok([files |-> Restrict(t.files, kept), dirs |-> dirs])
    BY <2>1, <2>2, <2>3 DEF DesktopRemove, RestrictDomain, Files
  <2>5. CASE p \in Files(t)
    <3>1. kept = Files(t) \ {p} /\ dirs = t.dirs
      BY <1>0, <1>1, <2>2, <2>3, <2>5
    <3>2. StorageRemove(t, p) = Commits([files |-> Restrict(t.files, kept), dirs |-> dirs])
      BY <1>0, <2>5, <3>1 DEF StorageRemove
    <3>. QED  BY <2>4, <3>2 DEF SameOutcome, Commits, Ok
  <2>6. CASE p \notin Files(t)
    <3>1. p \in t.dirs
      BY <1>3, <2>6 DEF Exists
    <3>2. kept = {q \in DOMAIN t.files : ~IsStrictPrefix(p, q)}
      BY <1>0, <1>1, <2>2, <2>6 DEF Files
    <3>3. StorageRemove(t, p) = Commits([files |-> Restrict(t.files, kept), dirs |-> dirs])
      BY <2>3, <2>6, <3>1, <3>2 DEF StorageRemove, RestrictDomain
    <3>. QED  BY <2>4, <3>3 DEF SameOutcome, Commits, Ok
  <2>. QED  BY <2>5, <2>6
<1>. QED  BY <1>2, <1>3

\* An entry of a directory is the directory's path and a name.
LEMMA EntryFacts ==
    ASSUME NEW p \in Names, NEW q \in Names, Len(q) = Len(p) + 1, IsPrefix(p, q)
    PROVE  Last(q) = q[Len(p) + 1] /\ Append(p, q[Len(p) + 1]) = q
<1>1. Len(p) \in Nat /\ Len(p) + 1 \in 1 .. Len(q)
  BY DEF Names
<1>2. PICK name \in STRING : name = q[Len(p) + 1]
  <2>1. \A n \in 1 .. Len(q) : q[n] \in STRING
    BY DEF Names
  <2>. QED  BY <1>1, <2>1, Zenon
<1>3. Appended(p, name, Append(p, name))
  BY AppendFacts, Zenon
<1>4. /\ Append(p, name) \in Names /\ Len(Append(p, name)) = Len(q)
      /\ \A i \in 1 .. Len(p) : Append(p, name)[i] = p[i]
      /\ Append(p, name)[Len(p) + 1] = q[Len(p) + 1]
  BY <1>2, <1>3 DEF Appended, Paths
<1>5. \A i \in 1 .. Len(p) : p[i] = q[i]
  BY PrefixByComponent
<1>6. ASSUME NEW i \in 1 .. Len(q) PROVE Append(p, name)[i] = q[i]
  <2>1. i \in 1 .. Len(p) \/ i = Len(p) + 1
    BY <1>1
  <2>. QED  BY <1>4, <1>5, <2>1, Zenon
<1>7. Append(p, name) = q
  BY <1>4, <1>6, EqualSequences, Zenon DEF Names
<1>. QED  BY <1>2, <1>7 DEF Last

\* storage_list of both platforms, of a directory.
LEMMA ListsAgree ==
    ASSUME NEW t, Good(t, DataRoots), NEW p \in Names
    PROVE  StorageList(t, p) = DesktopList(t, p)
<1>. DEFINE Entries(S) == {q \in S : Len(q) = Len(p) + 1 /\ IsPrefix(p, q)}
<1>0. Files(t) \subseteq Names /\ t.dirs \subseteq Names /\ Files(t) \cap t.dirs = {}
  BY DEF Good, Paths
<1>1. ASSUME NEW S, S \subseteq Names, NEW name \in Children(S, p)
      PROVE  Append(p, name) \in S
  <2>1. PICK q \in S : Len(q) = Len(p) + 1 /\ IsPrefix(p, q) /\ name = q[Len(p) + 1]
    BY DEF Children
  <2>. QED  BY <1>1, <2>1, EntryFacts, Zenon
<1>2. \A name : name \in Children(t.dirs, p) \cup Children(Files(t), p) <=>
                    name \in {Last(q) : q \in Entries(Files(t) \cup t.dirs)}
  <2>1. \A q \in Entries(Files(t) \cup t.dirs) : Last(q) = q[Len(p) + 1]
    BY <1>0, EntryFacts
  <2>. QED  BY <2>1 DEF Children
<1>3. ASSUME NEW name \in Children(t.dirs, p) \cup Children(Files(t), p)
      PROVE  name \in Children(Files(t), p) <=> Append(p, name) \notin t.dirs
  <2>1. name \in Children(Files(t), p) => Append(p, name) \in Files(t)
    BY <1>0, <1>1
  <2>2. name \in Children(t.dirs, p) => Append(p, name) \in t.dirs
    BY <1>0, <1>1
  <2>. QED  BY <1>0, <2>1, <2>2
<1>4. Children(t.dirs, p) \cup Children(Files(t), p) = {Last(q) : q \in Entries(Files(t) \cup t.dirs)}
  BY <1>2
<1>5. StorageList(t, p) =
          [name \in Children(t.dirs, p) \cup Children(Files(t), p) |->
              IF Append(p, name) \in t.dirs THEN "dir" ELSE "file"]
  BY <1>3 DEF StorageList
<1>. QED  BY <1>4, <1>5 DEF DesktopList

\* storage_rename of both platforms, unless the target is there and is another path: the
\* same parents are made, and the same file or directory is moved.
LEMMA RenamesAgree ==
    ASSUME NEW t, Good(t, DataRoots), NEW from \in Paths, NEW to \in Paths, to[1] \in DataRoots,
           Exists(t, to) <=> from = to
    PROVE  SameOutcome(StorageRename(t, from, to), DesktopRename(t, from, to))
<1>1. PICK host : host = HostCreateDirAll(t, Parent(to))
  OBVIOUS
<1>2. PICK made : made = AddParents(t, Parent(to))
  OBVIOUS
<1>3. /\ host.ok \in BOOLEAN /\ (host.ok <=> made.ok) /\ (host.ok => host.tree = made.tree)
      /\ ~host.ok => host.tree = t
  BY <1>1, <1>2, MadeAlike, ParentPrefix
<1>4. /\ t.dirs \subseteq host.tree.dirs /\ host.tree.files = t.files /\ Good(host.tree, DataRoots)
      /\ host.tree.dirs \subseteq t.dirs \cup {q \in Paths : IsStrictPrefix(q, to)}
      /\ host.ok <=> \A q \in Paths : IsStrictPrefix(q, to) => q \notin Files(t)
  BY <1>1, WritableFacts, Zenon DEF Writable
<1>5. DesktopRename(t, from, to) =
          IF ~Exists(t, from) THEN Err(t)
          ELSE IF host.ok THEN HostRename(host.tree, from, to) ELSE host
  BY <1>1, ZenonT(30) DEF DesktopRename, Writable, Existing
<1>6. CASE from = to
  <2>1. Exists(t, from) /\ StorageRename(t, from, to) = [next |-> "ok", tree |-> t]
    BY <1>6, Zenon DEF StorageRename
  <2>2. \A q \in Paths : IsStrictPrefix(q, to) => q \in t.dirs /\ q \notin Files(t)
    BY <1>6, <2>1 DEF Good, Exists
  <2>3. host.ok
    BY <1>4, <2>2, Zenon
  <2>4. host.tree = t
    <3>1. host.tree.dirs = t.dirs
      BY <1>4, <2>2
    <3>. QED  BY <1>4, <3>1 DEF Good
  <2>5. DesktopRename(t, from, to) = Ok(t)
    BY <1>5, <1>6, <2>1, <2>3, <2>4, ZenonT(30) DEF HostRename
  <2>. QED  BY <2>1, <2>5 DEF SameOutcome, Ok
<1>7. CASE from # to
  <2>1. to \notin Files(t) /\ to \notin t.dirs
    BY <1>7 DEF Exists
  <2>2. to \notin host.tree.dirs /\ Files(host.tree) = Files(t)
    BY <1>4, <2>1 DEF IsStrictPrefix, Files
  <2>3. ~\E q \in Files(host.tree) \cup host.tree.dirs : IsStrictPrefix(to, q)
    BY <1>4, <2>2 DEF Good
  <2>4. CASE ~host.ok \/ ~Exists(t, from) \/ IsStrictPrefix(from, to)
    <3>1. StorageRename(t, from, to).next = "error"
      <4>1. CASE ~host.ok \/ IsStrictPrefix(from, to)
        BY <1>2, <1>3, <1>7, <2>1, <4>1, ZenonT(30) DEF StorageRename, Exists, Fails
      <4>2. CASE host.ok /\ ~Exists(t, from) /\ ~IsStrictPrefix(from, to)
        <5>1. from \notin Files(t) /\ from \notin made.tree.dirs
          BY <1>3, <1>4, <4>2 DEF Exists
        <5>. QED  BY <1>2, <1>7, <2>1, <5>1, ZenonT(30) DEF StorageRename, Exists, Fails
      <4>. QED  BY <2>4, <4>1, <4>2
    <3>2. DesktopRename(t, from, to).ok = FALSE
      <4>1. CASE ~Exists(t, from)
        BY <1>5, <4>1 DEF Err
      <4>2. CASE Exists(t, from) /\ ~host.ok
        BY <1>3, <1>5, <4>2
      <4>3. CASE Exists(t, from) /\ host.ok /\ IsStrictPrefix(from, to)
        <5>1. from \notin Files(host.tree)
          BY <1>4, <2>2, <4>3
        <5>. QED  BY <1>5, <1>7, <4>3, <5>1 DEF HostRename, Err
      <4>. QED  BY <2>4, <4>1, <4>2, <4>3, Zenon
    <3>. QED  BY <3>1, <3>2, ZenonT(30) DEF SameOutcome
  <2>5. CASE host.ok /\ Exists(t, from) /\ ~IsStrictPrefix(from, to)
    <3>1. DesktopRename(t, from, to) = HostRename(host.tree, from, to) /\ made.ok
      BY <1>3, <1>5, <2>5
    <3>2. CASE from \in Files(t)
      <4>1. StorageRename(t, from, to) = Commits(MoveFile(made.tree, from, to))
        BY <1>2, <1>7, <2>1, <2>5, <3>1, <3>2, ZenonT(30) DEF StorageRename, Exists
      <4>2. HostRename(host.tree, from, to) = Ok(MoveFile(host.tree, from, to))
        BY <1>7, <2>2, <3>2, ZenonT(30) DEF HostRename
      <4>. QED  BY <1>3, <2>5, <3>1, <4>1, <4>2 DEF SameOutcome, Commits, Ok
    <3>3. CASE from \notin Files(t)
      <4>1. from \in made.tree.dirs
        BY <1>3, <1>4, <2>5, <3>3 DEF Exists
      <4>2. StorageRename(t, from, to) = Commits(MoveDirectory(made.tree, from, to))
        BY <1>2, <1>7, <2>1, <2>5, <3>1, <3>3, <4>1, ZenonT(30) DEF StorageRename, Exists
      <4>3. HostRename(host.tree, from, to) = Ok(MoveDirectory(host.tree, from, to))
        BY <1>7, <2>1, <2>2, <2>3, <2>5, <3>3, Zenon DEF HostRename
      <4>. QED  BY <1>3, <2>5, <3>1, <4>2, <4>3 DEF SameOutcome, Commits, Ok
    <3>. QED  BY <3>2, <3>3
  <2>. QED  BY <1>3, <2>4, <2>5, ZenonT(30)
<1>. QED  BY <1>6, <1>7

=============================================================================
