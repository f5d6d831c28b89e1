---------------------------- MODULE StorageProofs ---------------------------
(***************************************************************************)
(* Proofs about BareMetalStorage: for every layout, set of boot modules,   *)
(* paths and contents, and any number of operations, failures and power    *)
(* losses.                                                                 *)
(***************************************************************************)
EXTENDS BareMetalStorage, FileTreeProofs

-----------------------------------------------------------------------------
(***************************************************************************)
(* The seeded tree.                                                        *)
(***************************************************************************)

Given(initial) == {initial[i][1] : i \in 1 .. Len(initial)}

\* The files of a directory, below the mounts.
Seedable(initial) ==
    /\ Len(initial) \in Nat
    /\ \A p \in Given(initial) : OnMount(p)
    /\ Separate(Given(initial))

\* The loop over initial_files, one round after the other.
Seeding(initial, after) ==
    after = [n \in 0 .. Len(initial) |->
                IF n = 0 THEN Commits(EmptyTree) ELSE SeedFile(after[n - 1], initial[n])]

\* The recursive function of Seeded exists: it is made of its beginnings.
LEMMA SeedingExists ==
    ASSUME NEW initial, Len(initial) \in Nat
    PROVE  \E after : Seeding(initial, after) /\ Seeded(initial) = after[Len(initial)]
<1>. DEFINE Round(f, n) == IF n = 0 THEN Commits(EmptyTree) ELSE SeedFile(f[n - 1], initial[n])
            T == {k \in Nat : \E f : f = [n \in 0 .. k |-> Round(f, n)]}
<1>1. 0 \in T
  <2>1. PICK f : f = [n \in 0 .. 0 |-> Commits(EmptyTree)]
    BY Zenon
  <2>2. f = [n \in 0 .. 0 |-> Round(f, n)]
    BY <2>1
  <2>. QED  BY <2>2
<1>2. ASSUME NEW k \in T PROVE k + 1 \in T
  <2>1. PICK f : f = [n \in 0 .. k |-> Round(f, n)]
    OBVIOUS
  <2>2. PICK g : g = [n \in 0 .. k + 1 |-> Round(f, n)]
    BY Zenon
  <2>3. \A n \in 0 .. k : g[n] = f[n]
    <3>. HIDE DEF Round
    <3>. QED  BY <2>1, <2>2
  <2>4. \A n \in 0 .. k + 1 : Round(g, n) = Round(f, n)
    BY <2>3
  <2>5. g = [n \in 0 .. k + 1 |-> Round(g, n)]
    <3>. HIDE DEF Round
    <3>. QED  BY <2>2, <2>4
  <2>6. k + 1 \in Nat
    OBVIOUS
  <2>. HIDE DEF Round
  <2>. QED  BY <2>5, <2>6
<1>3. T = Nat
  <2>. HIDE DEF Round
  <2>1. T \subseteq Nat
    OBVIOUS
  <2>. HIDE DEF T
  <2>. QED  BY <1>1, <1>2, <2>1, Induction, Zenon
<1>4. \E f : f = [n \in 0 .. Len(initial) |-> Round(f, n)]
  <2>1. Len(initial) \in T
    BY <1>3
  <2>. QED  BY <2>1
<1>. DEFINE F == CHOOSE f : f = [n \in 0 .. Len(initial) |-> Round(f, n)]
<1>5. F = [n \in 0 .. Len(initial) |-> Round(F, n)]
  BY <1>4
<1>6. Seeded(initial) = F[Len(initial)]
  BY DEF Seeded
<1>. HIDE DEF F
<1>7. Seeding(initial, F)
  BY <1>5 DEF Seeding
<1>. QED  BY <1>6, <1>7

\* What the loop has made of the files that it has gone through.
SeedInv(initial, seeded) ==
    /\ seeded.next \in {"commit", "error"}
    /\ Good(seeded.tree, Mounts)
    /\ Files(seeded.tree) \subseteq Given(initial)
    /\ \A q \in seeded.tree.dirs : \E p \in Given(initial) : IsStrictPrefix(q, p)

\* One round: no directory is where the file goes, as no file of a directory is below another.
LEMMA SeedFileKeeps ==
    ASSUME NEW initial, Seedable(initial), NEW seeded, SeedInv(initial, seeded),
           NEW i \in 1 .. Len(initial)
    PROVE  SeedInv(initial, SeedFile(seeded, initial[i]))
<1>. DEFINE p == initial[i][1]
            d == initial[i][2]
            t == seeded.tree
<1>1. p \in Given(initial) /\ p \in Paths /\ p[1] \in Mounts /\ p \in Names
  BY DEF Given, Seedable, OnMount, Paths
<1>2. Good(t, Mounts)
  BY DEF SeedInv
<1>3. /\ Parent(p) \in Names /\ (Parent(p) # <<>> => Parent(p)[1] \in Mounts)
      /\ \A q \in Paths : IsStrictPrefix(q, p) <=> IsPrefix(q, Parent(p))
  BY <1>1, ParentPrefix DEF Paths
<1>. HIDE DEF p, t
<1>4. PICK made : made = AddParents(t, Parent(p))
  OBVIOUS
<1>5. /\ Good(made.tree, Mounts) /\ made.tree.files = t.files
      /\ made.tree.dirs \subseteq t.dirs \cup {q \in Paths : IsPrefix(q, Parent(p))}
      /\ made.ok => \A q \in Paths : IsPrefix(q, Parent(p)) => q \in made.tree.dirs
  BY <1>2, <1>3, <1>4, AddParentsFacts
<1>6. /\ Files(made.tree) \subseteq Given(initial)
      /\ \A q \in made.tree.dirs : \E r \in Given(initial) : IsStrictPrefix(q, r)
  BY <1>1, <1>3, <1>5 DEF SeedInv, Files, t
<1>7. CASE seeded.next = "error"
  BY <1>7 DEF SeedFile
<1>8. CASE seeded.next # "error" /\ ~made.ok
  <2>1. SeedFile(seeded, initial[i]) = [next |-> "error", tree |-> made.tree]
    BY <1>4, <1>8 DEF SeedFile, Fails, p, t
  <2>. QED  BY <1>5, <1>6, <2>1 DEF SeedInv
<1>9. CASE seeded.next # "error" /\ made.ok
  <2>1. PICK new : new = [files |-> Insert(made.tree.files, p, d), dirs |-> made.tree.dirs]
    BY Zenon
  <2>2. SeedFile(seeded, initial[i]) = [next |-> "commit", tree |-> new]
    BY <1>4, <1>5, <1>9, <2>1, Zenon DEF SeedFile, Commits, p, t, Good
  <2>3. Inserted(made.tree, p, d, new)
    BY <2>1 DEF Inserted
  <2>4. p \notin made.tree.dirs
    BY <1>1, <1>6 DEF Seedable, Separate
  <2>5. HasParents(made.tree, p)
    BY <1>3, <1>5, <1>9 DEF HasParents
  <2>6. Good(new, Mounts) /\ new.dirs = made.tree.dirs /\ Files(new) = Files(made.tree) \cup {p}
    BY <1>1, <1>5, <2>3, <2>4, <2>5, InsertFacts
  <2>. QED  BY <1>1, <1>6, <2>2, <2>6 DEF SeedInv
<1>. QED  BY <1>7, <1>8, <1>9

\* The tree of a new disk is good (BareMetalPlatform::new).
LEMMA SeededIsGood ==
    ASSUME NEW initial, Seedable(initial)
    PROVE  Good(Seeded(initial).tree, Mounts)
<1>1. Len(initial) \in Nat
  BY DEF Seedable
<1>2. PICK after : Seeding(initial, after) /\ Seeded(initial) = after[Len(initial)]
  BY <1>1, SeedingExists
<1>. DEFINE T == {n \in Nat : n <= Len(initial) => SeedInv(initial, after[n])}
<1>3. 0 \in T
  <2>1. after[0] = [next |-> "commit", tree |-> EmptyTree]
    BY <1>1, <1>2 DEF Seeding, Commits
  <2>2. EmptyTree.dirs = {}
    BY DEF EmptyTree
  <2>3. SeedInv(initial, after[0])
    BY <2>1, <2>2, EmptyIsGood DEF SeedInv
  <2>. QED  BY <2>3
<1>4. ASSUME NEW n \in T PROVE n + 1 \in T
  <2>1. SUFFICES ASSUME n + 1 <= Len(initial) PROVE SeedInv(initial, after[n + 1])
    OBVIOUS
  <2>2. n \in 0 .. Len(initial) /\ n + 1 \in 1 .. Len(initial) /\ SeedInv(initial, after[n])
    BY <1>1, <2>1
  <2>3. after[n + 1] = SeedFile(after[n], initial[n + 1])
    <3>1. n + 1 \in 0 .. Len(initial) /\ n + 1 # 0 /\ n + 1 - 1 = n
      BY <1>1, <2>2
    <3>. QED  BY <1>2, <3>1 DEF Seeding
  <2>. QED  BY <2>2, <2>3, SeedFileKeeps
<1>5. T = Nat
  <2>1. T \subseteq Nat
    OBVIOUS
  <2>. HIDE DEF T
  <2>. QED  BY <1>3, <1>4, <2>1, Induction, Zenon
<1>6. SeedInv(initial, after[Len(initial)])
  BY <1>1, <1>5
<1>. QED  BY <1>2, <1>6 DEF SeedInv

-----------------------------------------------------------------------------
(***************************************************************************)
(* The file system.                                                        *)
(***************************************************************************)

\* Every file of durable is in t, and no other, and every directory.
Covers(t, durable) == t.files = durable.files /\ durable.dirs \subseteq t.dirs

\* What the next step of the boot puts on the medium.
StepDone(t) ==
    IF step <= Len(Layout) THEN Layout[step] \in t.dirs ELSE Exists(t, Marker)

\* The inductive invariant.  A boot may find any tree that was ever attempted, so all of
\* them are good.  During the boot the tree in memory is the durable one between two saves;
\* later it has its files, and during a save that may still fail, the tree that would be
\* restored has them.  The layout is durable up to step.
StorageInv ==
    /\ phase \in {"off", "seed", "layout", "ready", "halted"} /\ step \in Nat \ {0}
    /\ Good(tree, Mounts) /\ Good(previous, Mounts)
    /\ pending # NoTree => Good(pending, Mounts)
    /\ committed # NoTree => Good(committed, Mounts)
    /\ \A t \in attempted : Good(t, Mounts)
    /\ phase \in {"off", "halted"} => pending = NoTree
    /\ pending # NoTree => tree = pending
    /\ phase \in {"layout", "ready"} => committed # NoTree
    /\ phase = "layout" /\ pending = NoTree => tree = committed
    /\ phase = "layout" /\ pending # NoTree =>
           committed.dirs \subseteq pending.dirs /\ StepDone(pending)
    /\ phase = "layout" =>
           \A k \in 1 .. Len(Layout) : k < step => Layout[k] \in committed.dirs
    /\ phase = "ready" => Covers(IF pending = NoTree THEN tree ELSE previous, committed)

\* A tree is not NoTree.
LEMMA GoodIsTree ==
    ASSUME NEW t, NEW mounts, Good(t, mounts)
    PROVE  t # NoTree
<1>1. "files" \in DOMAIN t
  BY DEF Good
<1>. QED  BY <1>1, StorageAssumption

\* persist and commit begin to save a good tree.
LEMMA SaveKeeps ==
    ASSUME StorageInv, Idle, phase \in {"seed", "layout", "ready"},
           NEW t, Good(t, Mounts),
           phase = "layout" => tree.dirs \subseteq t.dirs /\ StepDone(t),
           Save(t)
    PROVE  StorageInv'
<1>1. t # NoTree
  BY GoodIsTree
<1>2. /\ tree' = t /\ previous' = tree /\ pending' = t /\ attempted' = attempted \cup {t}
      /\ committed' = committed /\ phase' = phase /\ step' = step /\ pending = NoTree
  BY DEF Save, Store!BeginSave, Idle
<1>3. phase = "layout" => committed.dirs \subseteq t.dirs
  BY <1>2 DEF StorageInv
<1>4. phase = "ready" => Covers(tree, committed)
  BY <1>2 DEF StorageInv
<1>5. phase = "layout" => StepDone(pending)'
  BY <1>2 DEF StepDone
<1>6. \A u \in attempted' : Good(u, Mounts)
  BY <1>2 DEF StorageInv
<1>7. phase = "ready" => Covers(previous, committed)'
  BY <1>2, <1>4 DEF Covers
<1>. QED  BY <1>1, <1>2, <1>3, <1>5, <1>6, <1>7 DEF StorageInv

\* A save that is refused, or a method that returns an error with the files unchanged.
LEMMA AbortKeeps ==
    ASSUME StorageInv, Idle, phase \in {"seed", "layout", "ready"}, Abort,
           UNCHANGED <<previous, register>>,
           Good(tree', Mounts), Covers(tree', tree)
    PROVE  StorageInv'
<1>1. /\ phase' = IF phase = "ready" THEN "ready" ELSE "halted"
      /\ step' = step /\ previous' = previous /\ pending' = pending /\ committed' = committed
      /\ attempted' = attempted /\ pending = NoTree
  BY DEF Abort, register, Idle
<1>2. phase = "ready" => Covers(tree', committed)
  BY <1>1 DEF StorageInv, Covers
<1>3. phase = "ready" => Covers(tree, committed)'
  BY <1>1, <1>2 DEF Covers
<1>. QED  BY <1>1, <1>3 DEF StorageInv

\* Every storage method, with the save that ends it.
LEMMA PerformKeeps ==
    ASSUME StorageInv, Idle, phase \in {"layout", "ready"},
           NEW outcome, Keeps(tree, Mounts, outcome),
           phase = "layout" /\ outcome.next = "commit" =>
               tree.dirs \subseteq outcome.tree.dirs /\ StepDone(outcome.tree),
           phase = "layout" => outcome.next # "ok",
           Perform(outcome)
    PROVE  StorageInv'
<1>1. CASE outcome.next = "commit" /\ Save(outcome.tree)
  BY <1>1, SaveKeeps DEF Keeps
<1>2. CASE outcome.next = "commit" /\ SaveRefused(outcome.tree)
  <2>1. /\ Abort /\ UNCHANGED <<previous, register>>
        /\ Good(tree', Mounts) /\ Covers(tree', tree)
    BY <1>2 DEF SaveRefused, StorageInv, Covers
  <2>. QED  BY <2>1, AbortKeeps
<1>3. CASE outcome.next = "ok" /\ UNCHANGED <<tree, previous, phase, step, register>>
  <2>1. /\ tree' = tree /\ previous' = previous /\ phase' = phase /\ step' = step
        /\ pending' = pending /\ committed' = committed /\ attempted' = attempted
    BY <1>3 DEF register
  <2>. QED  BY <2>1 DEF StorageInv, Covers, StepDone
<1>4. CASE outcome.next = "error" /\ tree' = outcome.tree /\ Abort /\ UNCHANGED <<previous, register>>
  BY <1>4, AbortKeeps DEF Keeps, Covers
<1>. QED  BY <1>1, <1>2, <1>3, <1>4 DEF Perform

\* A boot finds a good tree, or seeds one.
LEMMA BootKeeps ==
    ASSUME StorageInv, NEW initial, Seedable(initial), Boot(initial)
    PROVE  StorageInv'
<1>1. phase = "off" /\ pending = NoTree
  BY DEF Boot, StorageInv
<1>2. /\ pending' = pending /\ attempted' = attempted /\ previous' = previous /\ step' = 1
      /\ committed' \in {committed} \cup attempted
  BY DEF Boot, Store!Open, Store!Outcomes
<1>3. committed' # NoTree => Good(committed', Mounts)
  BY <1>2 DEF StorageInv
<1>4. CASE committed' # NoTree /\ committed' # EmptyTree
  <2>1. tree' = committed' /\ phase' = "layout"
    BY <1>4 DEF Boot
  <2>. QED  BY <1>1, <1>2, <1>3, <1>4, <2>1 DEF StorageInv
<1>5. CASE committed' = NoTree \/ committed' = EmptyTree
  <2>1. tree' = Seeded(initial).tree /\ phase' \in {"halted", "seed"}
    BY <1>5 DEF Boot
  <2>2. Good(tree', Mounts)
    BY <2>1, SeededIsGood
  <2>. QED  BY <1>1, <1>2, <1>3, <2>1, <2>2 DEF StorageInv
<1>. QED  BY <1>4, <1>5

\* persist of the seeded tree.
LEMMA SaveSeedKeeps ==
    ASSUME StorageInv, SaveSeed
    PROVE  StorageInv'
<1>1. phase = "seed" /\ Idle /\ Good(tree, Mounts)
  BY DEF SaveSeed, StorageInv
<1>2. CASE Save(tree)
  BY <1>1, <1>2, SaveKeeps
<1>3. CASE SaveRefused(tree)
  <2>1. Abort /\ UNCHANGED <<previous, register>> /\ Good(tree', Mounts) /\ Covers(tree', tree)
    BY <1>1, <1>3 DEF SaveRefused, Covers
  <2>. QED  BY <1>1, <2>1, AbortKeeps
<1>. QED  BY <1>2, <1>3 DEF SaveSeed

\* initialize_layout makes its next directory.
LEMMA CreateLayoutKeeps ==
    ASSUME StorageInv, CreateLayout
    PROVE  StorageInv'
<1>1. phase = "layout" /\ Idle /\ step <= Len(Layout) /\ Good(tree, Mounts) /\ step \in Nat \ {0}
  BY DEF CreateLayout, StorageInv
<1>2. Layout[step] \in Paths /\ Layout[step][1] \in Mounts
  <2>1. Layout \in Seq(Paths) /\ \A i \in 1 .. Len(Layout) : OnMount(Layout[i])
    BY StorageAssumption
  <2>2. step \in 1 .. Len(Layout)
    BY <1>1, <2>1
  <2>. QED  BY <2>1, <2>2 DEF OnMount
<1>3. PICK outcome : outcome = StorageCreateDirAll(tree, Layout[step])
  OBVIOUS
<1>4. /\ Keeps(tree, Mounts, outcome) /\ outcome.next # "ok"
      /\ tree.dirs \subseteq outcome.tree.dirs
      /\ outcome.next = "commit" => Layout[step] \in outcome.tree.dirs
  BY <1>1, <1>2, <1>3, CreateDirAllKeeps
<1>5. outcome.next = "commit" => StepDone(outcome.tree)
  BY <1>1, <1>4 DEF StepDone
<1>6. Perform(outcome)
  BY <1>3 DEF CreateLayout
<1>. QED  BY <1>1, <1>4, <1>5, <1>6, PerformKeeps

\* System::initialize writes its marker, or finds it.
LEMMA MarkInitializedKeeps ==
    ASSUME StorageInv, MarkInitialized
    PROVE  StorageInv'
<1>1. phase = "layout" /\ Idle /\ step > Len(Layout) /\ Good(tree, Mounts) /\ step \in Nat \ {0}
  BY DEF MarkInitialized, StorageInv
<1>2. CASE Exists(tree, Marker)
  <2>1. /\ phase' = "ready" /\ tree' = tree /\ previous' = previous /\ step' = step
        /\ pending' = pending /\ committed' = committed /\ attempted' = attempted /\ pending = NoTree
    BY <1>1, <1>2 DEF MarkInitialized, register, Idle
  <2>2. tree = committed /\ committed # NoTree
    BY <1>1, <2>1, Zenon DEF StorageInv
  <2>. QED  BY <2>1, <2>2 DEF StorageInv, Covers
<1>3. CASE ~Exists(tree, Marker)
  <2>1. PICK d \in Data : Perform(StorageWrite(tree, Marker, d))
    BY <1>3 DEF MarkInitialized
  <2>2. Marker \in Paths /\ Marker[1] \in Mounts
    BY StorageAssumption DEF OnMount
  <2>3. PICK outcome : outcome = StorageWrite(tree, Marker, d)
    OBVIOUS
  <2>4. /\ Keeps(tree, Mounts, outcome) /\ outcome.next # "ok"
        /\ outcome.next = "commit" => /\ Files(outcome.tree) = Files(tree) \cup {Marker}
                                      /\ tree.dirs \subseteq outcome.tree.dirs
    <3>1. Keeps(tree, Mounts, outcome) /\ outcome.next \in {"commit", "error"}
      BY <1>1, <2>2, <2>3, WriteKeeps
    <3>2. outcome.next = "commit" => /\ Files(outcome.tree) = Files(tree) \cup {Marker}
                                     /\ tree.dirs \subseteq outcome.tree.dirs
      BY <1>1, <2>2, <2>3, WriteKeeps
    <3>. QED  BY <3>1, <3>2
  <2>5. outcome.next = "commit" => StepDone(outcome.tree)
    <3>1. Len(Layout) \in Nat
      BY StorageAssumption
    <3>. QED  BY <1>1, <2>4, <3>1 DEF StepDone, Exists
  <2>. QED  BY <1>1, <2>1, <2>3, <2>4, <2>5, PerformKeeps
<1>. QED  BY <1>2, <1>3

\* A save returns.
LEMMA SaveSucceedsKeeps ==
    ASSUME StorageInv, SaveSucceeds
    PROVE  StorageInv'
<1>1. /\ pending # NoTree /\ pending' = NoTree /\ committed' = pending /\ attempted' = {}
      /\ previous' = EmptyTree /\ tree' = tree /\ Continue
  BY DEF SaveSucceeds, Store!Acknowledge
<1>2. tree = pending /\ Good(pending, Mounts) /\ Good(tree, Mounts) /\ phase \notin {"off", "halted"}
  BY <1>1 DEF StorageInv
<1>3. Good(previous', Mounts)
  BY <1>1, EmptyIsGood
<1>4. CASE phase = "seed"
  <2>1. phase' = "layout" /\ step' = 1
    BY <1>1, <1>4 DEF Continue
  <2>. QED  BY <1>1, <1>2, <1>3, <2>1 DEF StorageInv
<1>5. CASE phase = "layout"
  <2>1. step' = step + 1 /\ phase' \in {"layout", "ready"} /\ (phase' = "layout" => step <= Len(Layout)) /\ step \in Nat
    <3>1. Len(Layout) \in Nat
      BY StorageAssumption
    <3>2. step \in Nat
      BY DEF StorageInv
    <3>3. step' = step + 1 /\ phase' = IF step > Len(Layout) THEN "ready" ELSE "layout"
      BY <1>1, <1>5 DEF Continue
    <3>. QED  BY <3>1, <3>2, <3>3
  <2>2. ASSUME phase' = "layout", NEW k \in 1 .. Len(Layout), k < step + 1
        PROVE  Layout[k] \in pending.dirs
    <3>1. /\ committed.dirs \subseteq pending.dirs /\ StepDone(pending)
          /\ \A i \in 1 .. Len(Layout) : i < step => Layout[i] \in committed.dirs
      BY <1>1, <1>5 DEF StorageInv
    <3>2. Layout[step] \in pending.dirs
      BY <2>1, <2>2, <3>1 DEF StepDone
    <3>3. k < step \/ k = step
      BY <2>1, <2>2
    <3>. QED  BY <3>1, <3>2, <3>3
  <2>. QED  BY <1>1, <1>2, <1>3, <2>1, <2>2 DEF StorageInv, Covers
<1>6. CASE phase = "ready"
  <2>1. phase' = "ready" /\ step' = step
    BY <1>1, <1>6 DEF Continue
  <2>. QED  BY <1>1, <1>2, <1>3, <1>6, <2>1 DEF StorageInv, Covers
<1>. QED  BY <1>2, <1>4, <1>5, <1>6, Zenon DEF StorageInv

\* A save fails, and commit restores the tree it replaced.
LEMMA SaveFailsKeeps ==
    ASSUME StorageInv, SaveFails
    PROVE  StorageInv'
<1>1. /\ pending # NoTree /\ pending' = NoTree /\ committed' = committed /\ attempted' = attempted
      /\ previous' = EmptyTree /\ tree' = previous /\ step' = step
      /\ phase' = IF phase = "ready" THEN "ready" ELSE "halted"
  BY DEF SaveFails, Store!FailSave, Rollback, Abort
<1>2. Good(previous', Mounts)
  BY <1>1, EmptyIsGood
<1>3. phase = "ready" => Covers(previous, committed)
  BY <1>1 DEF StorageInv
<1>4. phase = "ready" => Covers(tree, committed)'
  BY <1>1, <1>3 DEF Covers
<1>. QED  BY <1>1, <1>2, <1>4 DEF StorageInv

\* The machine loses power, or does not boot.
LEMMA OffKeeps ==
    ASSUME StorageInv, PowerLoss \/ BootFails
    PROVE  StorageInv'
<1>1. CASE PowerLoss
  <2>1. /\ pending' = NoTree /\ committed' = committed /\ attempted' = attempted /\ phase' = "off"
        /\ step' = 1 /\ tree' = EmptyTree /\ previous' = EmptyTree
    BY <1>1 DEF PowerLoss, Store!PowerLoss
  <2>2. Good(tree', Mounts) /\ Good(previous', Mounts)
    BY <2>1, EmptyIsGood
  <2>. QED  BY <2>1, <2>2 DEF StorageInv
<1>2. CASE BootFails
  <2>1. /\ phase = "off" /\ phase' = "halted" /\ tree' = tree /\ previous' = previous /\ step' = step
        /\ pending' = pending /\ committed' = committed /\ attempted' = attempted
    BY <1>2 DEF BootFails, register
  <2>. QED  BY <2>1 DEF StorageInv
<1>. QED  BY <1>1, <1>2

\* An operation that the VFS passes on or refuses.
LEMMA OperationKeeps ==
    ASSUME StorageInv, Operation
    PROVE  StorageInv'
<1>. DEFINE Called(outcome) == Calls(outcome) /\ Keeps(tree, Mounts, outcome)
<1>1. ASSUME NEW outcome, Called(outcome) PROVE StorageInv'
  <2>1. phase = "ready" /\ Idle /\ Perform(outcome)
    BY <1>1 DEF Calls, Serving
  <2>. QED  BY <1>1, <2>1, PerformKeeps
<1>2. Good(tree, Mounts)
  BY DEF StorageInv
<1>3. Keeps(tree, Mounts, Fails(tree))
  BY <1>2 DEF Keeps, Fails
<1>4. \A p \in Arguments : Persistent(p) => p \in Paths /\ p[1] \in Mounts
  BY StorageAssumption DEF Persistent, Paths
<1>. HIDE DEF Called
<1>5. ASSUME NEW p \in Arguments, NEW d \in Data, VfsWrite(p, d) PROVE StorageInv'
  <2>1. Keeps(tree, Mounts, Routed(p, StorageWrite(tree, p, d)))
    <3>1. Persistent(p) => Keeps(tree, Mounts, StorageWrite(tree, p, d))
      BY <1>2, <1>4, WriteKeeps
    <3>. QED  BY <1>3, <3>1 DEF Routed
  <2>. QED  BY <1>1, <1>5, <2>1 DEF VfsWrite, Called
<1>6. ASSUME NEW p \in Arguments, VfsCreateDirAll(p) PROVE StorageInv'
  <2>1. Keeps(tree, Mounts, Routed(p, StorageCreateDirAll(tree, p)))
    <3>1. Persistent(p) => Keeps(tree, Mounts, StorageCreateDirAll(tree, p))
      BY <1>2, <1>4, CreateDirAllKeeps
    <3>. QED  BY <1>3, <3>1 DEF Routed
  <2>. QED  BY <1>1, <1>6, <2>1 DEF VfsCreateDirAll, Called
<1>7. ASSUME NEW p \in Arguments, VfsRemove(p) PROVE StorageInv'
  <2>1. Keeps(tree, Mounts, Routed(p, StorageRemove(tree, p)))
    <3>1. Persistent(p) => Keeps(tree, Mounts, StorageRemove(tree, p))
      BY <1>2, <1>4, RemoveKeeps
    <3>. QED  BY <1>3, <3>1 DEF Routed
  <2>2. CASE p \in Range(Layout)
    BY <1>1, <1>3, <1>7, <2>2 DEF VfsRemove, Called
  <2>3. CASE p \notin Range(Layout)
    BY <1>1, <1>7, <2>1, <2>3 DEF VfsRemove, Called
  <2>. QED  BY <2>2, <2>3
<1>8. ASSUME NEW p \in Arguments, NEW to \in Arguments, VfsRename(p, to) PROVE StorageInv'
  <2>1. Keeps(tree, Mounts, Routed(p, Routed(to, StorageRename(tree, p, to))))
    <3>1. Persistent(p) /\ Persistent(to) => Keeps(tree, Mounts, StorageRename(tree, p, to))
      BY <1>2, <1>4, RenameKeeps
    <3>. QED  BY <1>3, <3>1 DEF Routed
  <2>. QED  BY <1>1, <1>8, <2>1 DEF VfsRename, Called
<1>. QED  BY <1>5, <1>6, <1>7, <1>8 DEF Operation

\* A step of the file system, with the files that a boot seeds.
StorageStep(initial) ==
    \/ Boot(initial) \/ BootFails \/ SaveSeed \/ CreateLayout \/ MarkInitialized
    \/ SaveSucceeds \/ SaveFails \/ PowerLoss \/ Operation

\* Every step of the file system keeps the invariant, and so does what leaves it alone.
LEMMA StorageStepKeeps ==
    ASSUME StorageInv, NEW initial, Seedable(initial), StorageStep(initial)
    PROVE  StorageInv'
BY BootKeeps, SaveSeedKeeps, CreateLayoutKeeps, MarkInitializedKeeps, SaveSucceedsKeeps,
   SaveFailsKeeps, OffKeeps, OperationKeeps DEF StorageStep

\* (The same, for a step that changes none of the storage.)
LEMMA StorageStutters ==
    ASSUME StorageInv, UNCHANGED vars
    PROVE  StorageInv'
<1>1. /\ tree' = tree /\ previous' = previous /\ phase' = phase /\ step' = step
      /\ pending' = pending /\ committed' = committed /\ attempted' = attempted
  BY DEF vars, register
<1>. QED  BY <1>1 DEF StorageInv, Covers, StepDone

\* A new machine has nothing.
LEMMA StorageInitially ==
    ASSUME Init
    PROVE  StorageInv
<1>1. Good(EmptyTree, Mounts)
  BY EmptyIsGood
<1>2. /\ tree = EmptyTree /\ previous = EmptyTree /\ phase = "off" /\ step = 1
      /\ pending = NoTree /\ committed = NoTree /\ attempted = {}
  BY DEF Init, Store!Init
<1>. QED  BY <1>1, <1>2 DEF StorageInv

\* Boot, operations, failures and power losses in any order keep the file system's
\* invariant (BareMetalPlatform, Vfs).
THEOREM StorageInvariant == Spec => []StorageInv
<1>1. Seedable(InitialFiles)
  <2>1. Len(InitialFiles) \in Nat /\ DOMAIN InitialFiles = 1 .. Len(InitialFiles)
    BY InitialFilesAssumption
  <2>. QED  BY <2>1, InitialFilesAssumption, Zenon DEF Seedable, Given
<1>2. ASSUME StorageInv, [Next]_vars PROVE StorageInv'
  <2>1. CASE Next
    BY <1>1, <1>2, <2>1, StorageStepKeeps DEF Next, StorageStep
  <2>2. CASE UNCHANGED vars
    BY <1>2, <2>2, StorageStutters
  <2>. QED  BY <1>2, <2>1, <2>2
<1>. QED  BY <1>2, StorageInitially, PTL DEF Spec

\* The invariant gives what the runs check of the trees.
LEMMA StorageInvImplies ==
    ASSUME StorageInv
    PROVE  WellFormed /\ FilesDurable
<1>1. ASSUME NEW t \in {tree} \cup Recoverable PROVE Good(t, Mounts)
  BY DEF Recoverable, Store!Outcomes, StorageInv
<1>2. WellFormed
  BY <1>1, GoodIsWellFormed DEF WellFormed
<1>3. FilesDurable
  BY DEF FilesDurable, Serving, Idle, StorageInv, Covers
<1>. QED  BY <1>2, <1>3

\* And of a rename.
LEMMA RenamesMove ==
    ASSUME StorageInv
    PROVE  RenameMovesSubtree
<1>. SUFFICES ASSUME NEW from \in Arguments, NEW to \in Arguments, Persistent(from), Persistent(to),
                     StorageRename(tree, from, to).next = "commit"
              PROVE  LET moved == StorageRename(tree, from, to).tree IN
                     /\ Files(moved) = {Image(p, from, to) : p \in Files(tree)}
                     /\ \A p \in Files(tree) : moved.files[Image(p, from, to)] = tree.files[p]
                     /\ \A p, q \in Files(tree) : Image(p, from, to) = Image(q, from, to) => p = q
  BY DEF RenameMovesSubtree, Image
<1>1. from \in Paths /\ to \in Paths /\ to[1] \in Mounts
  BY StorageAssumption DEF Persistent, Paths
<1>2. PICK outcome : outcome = StorageRename(tree, from, to)
  OBVIOUS
<1>3. Good(tree, Mounts)
  BY DEF StorageInv
<1>4. PICK made : /\ Ready(made, Mounts, from, to) /\ made.files = tree.files
                  /\ Moved(made, from, to, outcome.tree)
  BY <1>1, <1>2, <1>3, RenameKeeps, Zenon
<1>5. Files(made) = Files(tree)
  BY <1>4, ZenonT(30) DEF Files
<1>6. /\ Files(outcome.tree) = {Image(p, from, to) : p \in Files(tree)}
      /\ \A p \in Files(tree) : outcome.tree.files[Image(p, from, to)] = tree.files[p]
  BY <1>4, <1>5, Zenon DEF Moved
<1>7. \A p, q \in Files(tree) : Image(p, from, to) = Image(q, from, to) => p = q
  <2>1. ASSUME NEW p \in Files(made), NEW q \in Files(made), Image(p, from, to) = Image(q, from, to)
        PROVE  p = q
    BY <1>4, <2>1, ImageFacts
  <2>. QED  BY <1>5, <2>1
<1>. QED  BY <1>2, <1>6, <1>7

\* A boot is ready only when the last of its steps is durable.
LEMMA BootCompletes ==
    ASSUME StorageInv, NEW initial, StorageStep(initial), phase = "layout", phase' = "ready"
    PROVE  Exists(committed', Marker) /\ Range(Layout) \subseteq committed'.dirs
<1>0. Len(Layout) \in Nat /\ DOMAIN Layout = 1 .. Len(Layout) /\ step \in Nat
  BY StorageAssumption DEF StorageInv
<1>1. ASSUME NEW outcome, Perform(outcome) PROVE FALSE
  BY <1>1 DEF Perform, Save, SaveRefused, Abort
<1>2. \A k \in 1 .. Len(Layout) : k < step => Layout[k] \in committed.dirs
  BY DEF StorageInv
<1>3. CASE MarkInitialized
  <2>1. Exists(tree, Marker) /\ committed' = committed /\ Idle /\ step > Len(Layout)
    BY <1>1, <1>3 DEF MarkInitialized, register
  <2>2. tree = committed
    BY <2>1 DEF StorageInv, Idle
  <2>3. \A k \in DOMAIN Layout : Layout[k] \in committed.dirs
    BY <1>0, <1>2, <2>1
  <2>. QED  BY <2>1, <2>2, <2>3 DEF Range
<1>4. CASE SaveSucceeds
  <2>1. committed' = pending /\ pending # NoTree /\ Continue
    BY <1>4 DEF SaveSucceeds, Store!Acknowledge
  <2>2. step > Len(Layout)
    BY <1>0, <2>1 DEF Continue
  <2>3. Exists(pending, Marker) /\ committed.dirs \subseteq pending.dirs
    BY <1>0, <2>1, <2>2 DEF StorageInv, StepDone
  <2>4. \A k \in DOMAIN Layout : Layout[k] \in pending.dirs
    BY <1>0, <1>2, <2>2, <2>3
  <2>. QED  BY <2>1, <2>3, <2>4 DEF Range
<1>5. ~Boot(initial) /\ ~BootFails /\ ~SaveSeed /\ ~SaveFails /\ ~PowerLoss
  BY DEF Boot, BootFails, SaveSeed, SaveFails, Abort, PowerLoss
<1>6. ~CreateLayout
  BY <1>1 DEF CreateLayout
<1>7. ~Operation
  BY DEF Operation, VfsWrite, VfsCreateDirAll, VfsRemove, VfsRename, Calls, Serving
<1>. QED  BY <1>3, <1>4, <1>5, <1>6, <1>7, Zenon DEF StorageStep

=============================================================================
