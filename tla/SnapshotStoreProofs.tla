------------------------ MODULE SnapshotStoreProofs ------------------------
(***************************************************************************)
(* Proofs about SnapshotStore and SnapshotFaults, for every device size,   *)
(* every set of trees and every bound on the number of saves; those that   *)
(* depend on the generations assume that the counter has not saturated.    *)
(***************************************************************************)
EXTENDS SnapshotFaults, TLAPS

-----------------------------------------------------------------------------
(***************************************************************************)
(* Geometry of the device.                                                 *)
(***************************************************************************)

\* The blocks of the two slots are distinct blocks of the device (slot_start).
LEMMA Geometry ==
    /\ SlotBlocks \in Nat /\ Available \in Nat \ {0}
    /\ \A s \in Slots : SlotStart(s) \in Addresses
    /\ \A s \in Slots : \A i \in 1 .. Available : SlotStart(s) + i \in Addresses
    /\ \A s, r \in Slots : s # r => SlotStart(s) # SlotStart(r)
    /\ \A s, r \in Slots : \A i \in 1 .. Available : SlotStart(s) + i # SlotStart(r)
    /\ \A s, r \in Slots : \A i, j \in 1 .. Available :
           SlotStart(s) + i = SlotStart(r) + j => s = r /\ i = j
<1>1. SlotBlocks \in Nat /\ SlotBlocks >= 2 /\ 2 * SlotBlocks <= BlockCount
  BY DeviceAssumption DEF SlotBlocks
<1>2. SlotStart(0) = 0 /\ SlotStart(1) = SlotBlocks
  BY <1>1 DEF SlotStart
<1> QED
  BY <1>1, <1>2, DeviceAssumption DEF Slots, Available, Addresses

\* The slot save writes is never the active one (target_slot).
LEMMA TargetSlot ==
    ASSUME NEW act \in Slots \cup {NoSlot}
    PROVE  LET o == IF act = NoSlot THEN 0 ELSE 1 - act
           IN  /\ o \in Slots /\ o # act
               /\ act # NoSlot => \A s \in Slots : s = o \/ s = act
               /\ act = NoSlot => o = 0
BY DeviceAssumption DEF Slots

\* The fields of a header are the ones encode_header was given.
LEMMA HeaderFields ==
    ASSUME NEW g, NEW t
    PROVE  /\ Header(g, t).version = FormatVersion
           /\ Header(g, t).generation = g
           /\ Header(g, t).len = Len(Encode[t])
           /\ Header(g, t).sum = Checksum(Encode[t])
           /\ Header(g, t) # ForeignHeader
<1>1. Header(g, t).version = FormatVersion /\ ForeignHeader.version # FormatVersion
  BY DEF Header, ForeignHeader, FormatVersion
<1> QED
  BY <1>1 DEF Header

\* Quotient and remainder.
LEMMA Division ==
    ASSUME NEW m \in Nat, NEW b \in Nat \ {0}
    PROVE  /\ m \div b \in Nat /\ m % b \in 0 .. b - 1
           /\ m = (m \div b) * b + (m % b)
  OBVIOUS

\* A product is monotonic.
LEMMA Products ==
    ASSUME NEW x \in Int, NEW y \in Int, NEW b \in Nat, x <= y
    PROVE  x * b <= y * b
  OBVIOUS

\* Byte i of a payload is in one of its blocks, and in that block it is byte i (div_ceil).
LEMMA Places ==
    ASSUME NEW n \in Nat \ {0}
    PROVE  /\ PayloadBlocks(n) \in Nat \ {0} /\ n <= PayloadBlocks(n) * BlockSize
           /\ \A i \in 1 .. n : /\ BlockOf(i) \in 1 .. PayloadBlocks(n) /\ PlaceOf(i) \in 1 .. BlockSize
                                /\ (BlockOf(i) - 1) * BlockSize + PlaceOf(i) = i
<1>0. PICK b \in Nat \ {0} : b = BlockSize
  BY DeviceAssumption
<1>1. PICK q \in Nat, r \in 0 .. b - 1 : q = PayloadBlocks(n) /\ n + b - 1 = q * b + r
  <2>1. n + b - 1 \in Nat
    OBVIOUS
  <2>. QED  BY <1>0, <2>1, Division DEF PayloadBlocks
<1>2. q * b \in Nat /\ n <= q * b
  BY <1>1
<1>3. q # 0
  BY <1>2
<1>4. ASSUME NEW i \in 1 .. n
      PROVE  /\ BlockOf(i) \in 1 .. q /\ PlaceOf(i) \in 1 .. b
             /\ (BlockOf(i) - 1) * b + PlaceOf(i) = i
  <2>1. PICK c \in Nat, o \in 0 .. b - 1 :
            /\ BlockOf(i) = 1 + c /\ PlaceOf(i) = 1 + o /\ i - 1 = c * b + o
    <3>1. i - 1 \in Nat
      OBVIOUS
    <3>2. PICK c, o : c = (i - 1) \div b /\ o = (i - 1) % b
      OBVIOUS
    <3>3. c \in Nat /\ o \in 0 .. b - 1 /\ i - 1 = c * b + o
      BY <3>1, <3>2, Division, Zenon
    <3>4. BlockOf(i) = 1 + c /\ PlaceOf(i) = 1 + o
      BY <1>0, <3>2, Zenon DEF BlockOf, PlaceOf
    <3>. QED  BY <3>3, <3>4, Zenon
  <2>2. c < q
    <3>. SUFFICES ASSUME q <= c PROVE FALSE
      OBVIOUS
    <3>1. q * b <= c * b
      BY Products
    <3>2. c * b \in Nat
      OBVIOUS
    <3>. QED  BY <1>2, <2>1, <3>1, <3>2
  <2>3. BlockOf(i) \in 1 .. q /\ PlaceOf(i) \in 1 .. b /\ BlockOf(i) - 1 = c
    BY <2>1, <2>2
  <2>4. c * b \in Nat /\ c * b + PlaceOf(i) = i
    BY <2>1
  <2>. QED  BY <2>3, <2>4
<1>. QED  BY <1>0, <1>1, <1>2, <1>3, <1>4

\* A byte of a padded payload.
LEMMA PaddedFacts ==
    ASSUME NEW payload, NEW n \in Nat, Len(payload) = n, NEW k \in Nat, NEW j \in 1 .. BlockSize,
           NEW i \in 1 .. n, (k - 1) * BlockSize + j = i
    PROVE  Padded(payload, k).bytes[j] = payload[i]
<1>1. Padded(payload, k).bytes[j] =
          IF (k - 1) * BlockSize + j <= Len(payload) THEN payload[(k - 1) * BlockSize + j] ELSE 0
  BY DEF Padded
<1>2. i <= Len(payload)
  OBVIOUS
<1>. QED  BY <1>1, <1>2

\* The payload of a tree that fits: its length, its blocks and its bytes (encode_tree).
LEMMA FittingPayload ==
    ASSUME NEW t \in Trees, Fits(t)
    PROVE  /\ Len(Encode[t]) \in 1 .. Available * BlockSize
           /\ PayloadBlocks(Len(Encode[t])) \in 1 .. Available
           /\ \A i \in 1 .. Len(Encode[t]) : BlockOf(i) \in 1 .. Available
           /\ Encode[t] \in Payloads(Len(Encode[t]))
<1>1. PICK n \in Nat \ {0} : /\ n = Len(Encode[t]) /\ Encode[t] \in [1 .. n -> Nat]
                             /\ \A k \in 1 .. PayloadBlocks(n) : Padded(Encode[t], k) \in Blocks
  BY TreeAssumption
<1>2. PICK q \in Nat \ {0} : /\ q = PayloadBlocks(n) /\ n <= q * BlockSize
                             /\ \A i \in 1 .. n : /\ BlockOf(i) \in 1 .. q /\ PlaceOf(i) \in 1 .. BlockSize
                                                  /\ (BlockOf(i) - 1) * BlockSize + PlaceOf(i) = i
  BY Places, Zenon
<1>3. q <= Available /\ Available \in Nat
  BY <1>1, <1>2, Geometry DEF Fits
<1>4. n \in 1 .. Available * BlockSize
  <2>1. q * BlockSize <= Available * BlockSize
    BY <1>3, Products, DeviceAssumption
  <2>2. q * BlockSize \in Nat /\ Available * BlockSize \in Nat
    BY <1>3, DeviceAssumption
  <2>. QED  BY <1>2, <2>1, <2>2
<1>5. \A i \in 1 .. n : BlockOf(i) \in 1 .. Available
  BY <1>2, <1>3
<1>6. Encode[t] \in Payloads(n)
  <2>1. PICK blocks : blocks = [k \in 1 .. q |-> Padded(Encode[t], k)]
    BY Zenon
  <2>2. blocks \in [1 .. PayloadBlocks(n) -> Blocks]
    BY <1>1, <1>2, <2>1
  <2>3. ASSUME NEW i \in 1 .. n PROVE blocks[BlockOf(i)].bytes[PlaceOf(i)] = Encode[t][i]
    <3>1. blocks[BlockOf(i)] = Padded(Encode[t], BlockOf(i))
      BY <1>2, <2>1
    <3>. QED  BY <1>1, <1>2, <3>1, PaddedFacts
  <2>4. Encode[t] = [i \in 1 .. n |-> blocks[BlockOf(i)].bytes[PlaceOf(i)]]
    BY <1>1, <2>3
  <2>. QED  BY <2>2, <2>4, Zenon DEF Payloads
<1>. QED  BY <1>1, <1>2, <1>3, <1>4, <1>5, <1>6

-----------------------------------------------------------------------------
(***************************************************************************)
(* What read_slot and open make of a device.                               *)
(***************************************************************************)

\* What is read from payload blocks are their first bytes.
LEMMA ReadBytes ==
    ASSUME NEW d, NEW s \in Slots, NEW n \in Nat \ {0}, d[SlotStart(s)].len = n,
           PayloadBlocks(n) <= Available, \A i \in 1 .. Available : d[SlotStart(s) + i] \in Blocks
    PROVE  /\ ReadPayload(d, s) = [i \in 1 .. n |-> d[SlotStart(s) + BlockOf(i)].bytes[PlaceOf(i)]]
           /\ ReadPayload(d, s) \in Payloads(n)
<1>1. ReadPayload(d, s) = [i \in 1 .. n |-> d[SlotStart(s) + BlockOf(i)].bytes[PlaceOf(i)]]
  BY DEF ReadPayload
<1>2. PICK q \in Nat \ {0} : /\ q = PayloadBlocks(n) /\ q <= Available
                             /\ \A i \in 1 .. n : BlockOf(i) \in 1 .. q
  BY Places
<1>3. PICK blocks : blocks = [k \in 1 .. q |-> d[SlotStart(s) + k]]
  BY Zenon
<1>4. blocks \in [1 .. PayloadBlocks(n) -> Blocks]
  BY <1>2, <1>3, Geometry
<1>5. \A i \in 1 .. n : blocks[BlockOf(i)] = d[SlotStart(s) + BlockOf(i)]
  BY <1>2, <1>3
<1>6. ReadPayload(d, s) = [i \in 1 .. n |-> blocks[BlockOf(i)].bytes[PlaceOf(i)]]
  BY <1>1, <1>5
<1>7. ReadPayload(d, s) \in Payloads(n)
  BY <1>4, <1>6, Zenon DEF Payloads
<1>. QED  BY <1>1, <1>7, Zenon

\* A slot whose header is t's and that passes the checksum carries t's payload.
LEMMA IntactReads ==
    ASSUME NEW d, NEW s \in Slots, NEW g \in 1 .. MaxGeneration, NEW t \in Trees,
           Fits(t), d[SlotStart(s)] = Header(g, t), Intact(d, s),
           \A i \in 1 .. Available : d[SlotStart(s) + i] \in Blocks
    PROVE  /\ ReadPayload(d, s) = Encode[t]
           /\ SlotTree(d, s) = t /\ SlotGeneration(d, s) = g /\ ~Undecodable(d, s)
<1>1. PICK n \in 1 .. Available * BlockSize :
          n = Len(Encode[t]) /\ Encode[t] \in Payloads(n) /\ PayloadBlocks(n) <= Available
  BY FittingPayload DEF Fits
<1>2. ReadPayload(d, s) \in Payloads(n)
  BY <1>1, HeaderFields, ReadBytes
<1>3. Checksum(ReadPayload(d, s)) = Checksum(Encode[t])
  BY HeaderFields DEF Intact
<1>4. ReadPayload(d, s) = Encode[t]
  BY <1>1, <1>2, <1>3, ChecksumAssumption, Zenon
<1>5. SlotTree(d, s) = t
  BY <1>4, TreeAssumption DEF SlotTree
<1>6. SlotGeneration(d, s) = g
  BY HeaderFields DEF SlotGeneration
<1> QED
  BY <1>4, <1>5, <1>6 DEF Undecodable

\* A slot that carries t's header and payload is read as t.
LEMMA HoldsReads ==
    ASSUME NEW d, NEW s \in Slots, NEW g \in 1 .. MaxGeneration, NEW t \in Trees,
           Fits(t), d[SlotStart(s)] = Header(g, t), HoldsPayload(d, s, t),
           \A i \in 1 .. Available : d[SlotStart(s) + i] \in Blocks
    PROVE  /\ Intact(d, s) /\ ReadPayload(d, s) = Encode[t]
           /\ SlotTree(d, s) = t /\ SlotGeneration(d, s) = g
<1>1. PICK n \in Nat \ {0} : n = Len(Encode[t]) /\ Encode[t] \in [1 .. n -> Nat]
  BY TreeAssumption
<1>2. ReadPayload(d, s) = [i \in 1 .. n |-> d[SlotStart(s) + BlockOf(i)].bytes[PlaceOf(i)]]
  BY <1>1, HeaderFields DEF ReadPayload
<1>3. ReadPayload(d, s) = Encode[t]
  BY <1>1, <1>2 DEF HoldsPayload
<1>4. Intact(d, s)
  BY <1>3, HeaderFields, HeaderAssumption DEF Intact, HasMagic, Unsupported, Fits
<1> QED
  BY <1>3, <1>4, IntactReads

\* A payload that two devices hold is held by what has, block by block, the contents of one
\* of the two.
LEMMA MergeHolds ==
    ASSUME NEW d, NEW e, NEW f, NEW s \in Slots, NEW t \in Trees, Fits(t),
           HoldsPayload(d, s, t), HoldsPayload(e, s, t),
           \A k \in 1 .. Available :
               f[SlotStart(s) + k] = d[SlotStart(s) + k] \/ f[SlotStart(s) + k] = e[SlotStart(s) + k]
    PROVE  HoldsPayload(f, s, t)
<1>1. \A i \in 1 .. Len(Encode[t]) : BlockOf(i) \in 1 .. Available
  BY FittingPayload
<1>. QED  BY <1>1, Zenon DEF HoldsPayload

\* An intact slot has a header of this release.
LEMMA IntactHeader ==
    ASSUME NEW d, NEW s \in Slots, Intact(d, s)
    PROVE  d[SlotStart(s)] \notin Blocks \cup {ForeignHeader}
<1>1. ForeignHeader.version # FormatVersion
  BY DEF ForeignHeader, FormatVersion
<1> QED
  BY <1>1 DEF Intact, HasMagic, Unsupported

\* The slot and the generation that a save in progress writes.
LEMMA TargetFacts ==
    ASSUME TypeOK
    PROVE  /\ Target \in Slots /\ Target # active /\ (active = NoSlot => Target = 0)
           /\ generation < MaxGeneration =>
                  NextGeneration = generation + 1 /\ NextGeneration \in 1 .. MaxGeneration
<1>1. Target \in Slots /\ Target # active /\ (active = NoSlot => Target = 0)
  BY TargetSlot DEF TypeOK, Target
<1> QED
  BY <1>1, GenerationAssumption DEF TypeOK, NextGeneration

\* Blocks of t's payload in the target slot: the rest of the device is as before.
LEMMA PayloadWrittenFacts ==
    ASSUME TypeOK, NEW t \in Trees, Fits(t), NEW done \in SUBSET (1 .. PayloadBlocks(Len(Encode[t])))
    PROVE  /\ PayloadWritten(t, done) \in [Addresses -> Contents]
           /\ \A x \in Addresses :
                 \/ PayloadWritten(t, done)[x] = view[x]
                 \/ /\ PayloadWritten(t, done)[x] \in Blocks
                    /\ \E i \in 1 .. Available : x = SlotStart(Target) + i
           /\ \A s \in Slots : PayloadWritten(t, done)[SlotStart(s)] = view[SlotStart(s)]
<1>1. /\ PayloadBlocks(Len(Encode[t])) \in 1 .. Available
      /\ \A k \in done : Padded(Encode[t], k) \in Blocks
  BY TreeAssumption, FittingPayload
<1>2. Target \in Slots /\ SlotStart(Target) \in Int
  BY TargetFacts, Geometry DEF Addresses
<1>3. ASSUME NEW x \in Addresses
      PROVE  \/ PayloadWritten(t, done)[x] = view[x]
             \/ /\ PayloadWritten(t, done)[x] \in Blocks
                /\ \E i \in 1 .. Available : x = SlotStart(Target) + i
  <2>1. CASE x - SlotStart(Target) \in done
    <3>1. PayloadWritten(t, done)[x] = Padded(Encode[t], x - SlotStart(Target))
      BY <2>1 DEF PayloadWritten
    <3>2. x - SlotStart(Target) \in 1 .. Available
          /\ x = SlotStart(Target) + (x - SlotStart(Target))
      <4>1. x \in Int /\ Available \in Int /\ PayloadBlocks(Len(Encode[t])) <= Available
        BY <1>1, Geometry, DeviceAssumption DEF Addresses
      <4> QED
        BY <1>1, <1>2, <2>1, <4>1
    <3> QED
      BY <1>1, <2>1, <3>1, <3>2
  <2>2. CASE x - SlotStart(Target) \notin done
    BY <2>2 DEF PayloadWritten
  <2> QED
    BY <2>1, <2>2
<1>4. DOMAIN PayloadWritten(t, done) = Addresses
      /\ PayloadWritten(t, done) = [x \in Addresses |-> PayloadWritten(t, done)[x]]
  BY DEF PayloadWritten
<1>5. PayloadWritten(t, done) \in [Addresses -> Contents]
  BY <1>3, <1>4 DEF TypeOK, Contents
<1>6. ASSUME NEW s \in Slots
      PROVE  PayloadWritten(t, done)[SlotStart(s)] = view[SlotStart(s)]
  <2>1. SlotStart(s) \in Addresses
    BY Geometry
  <2>2. ~\E i \in 1 .. Available : SlotStart(s) = SlotStart(Target) + i
    <3>1. \A i \in 1 .. Available : SlotStart(Target) + i # SlotStart(s)
      BY <1>2, Geometry
    <3> QED
      BY <3>1
  <2> QED
    BY <1>3, <2>1, <2>2
<1> QED
  BY <1>3, <1>5, <1>6

\* All blocks of t's payload in the target slot: it holds the payload.
LEMMA WholePayload ==
    ASSUME TypeOK, NEW t \in Trees, Fits(t)
    PROVE  HoldsPayload(PayloadWritten(t, 1 .. PayloadBlocks(Len(Encode[t]))), Target, t)
<1>1. PICK n \in Nat \ {0} : n = Len(Encode[t])
  BY TreeAssumption
<1>2. PICK q \in Nat \ {0} : /\ q = PayloadBlocks(n)
                             /\ \A i \in 1 .. n : /\ BlockOf(i) \in 1 .. q /\ PlaceOf(i) \in 1 .. BlockSize
                                                  /\ (BlockOf(i) - 1) * BlockSize + PlaceOf(i) = i
  BY Places, Zenon
<1>3. Target \in Slots /\ q <= Available /\ Available \in Nat
  BY <1>1, <1>2, TargetFacts, Geometry DEF Fits
<1>4. SlotStart(Target) \in Int
  BY <1>3, Geometry, DeviceAssumption DEF Addresses
<1>5. PICK new : new = PayloadWritten(t, 1 .. q)
  OBVIOUS
<1>6. ASSUME NEW i \in 1 .. n
      PROVE  new[SlotStart(Target) + BlockOf(i)].bytes[PlaceOf(i)] = Encode[t][i]
  <2>1. PICK k \in 1 .. q : k = BlockOf(i) /\ (k - 1) * BlockSize + PlaceOf(i) = i
    BY <1>2
  <2>2. SlotStart(Target) + k \in Addresses /\ (SlotStart(Target) + k) - SlotStart(Target) = k
    BY <1>3, <1>4, Geometry
  <2>3. new[SlotStart(Target) + k] = Padded(Encode[t], k)
    BY <1>5, <2>2 DEF PayloadWritten
  <2>4. Padded(Encode[t], k).bytes[PlaceOf(i)] = Encode[t][i]
    BY <1>1, <1>2, <2>1, PaddedFacts
  <2> QED
    BY <2>1, <2>3, <2>4
<1> QED
  BY <1>1, <1>2, <1>5, <1>6 DEF HoldsPayload

-----------------------------------------------------------------------------
(***************************************************************************)
(* What holds whatever the generations, at saturation too.                 *)
(***************************************************************************)

\* What read_slot makes of the slots of a device that holds com in slot act.
LEMMA StoredReads ==
    ASSUME NEW d, NEW act \in Slots \cup {NoSlot}, NEW gen, NEW com, Stored(d, act, gen, com)
    PROVE  /\ act # NoSlot => Intact(d, act) /\ SlotTree(d, act) = com /\ SlotGeneration(d, act) = gen
           /\ act = NoSlot => ~Intact(d, 1)
           /\ \A s \in Slots : ~Undecodable(d, s)
           /\ \A s \in Slots : Intact(d, s) =>
                 \E g \in 1 .. MaxGeneration, t \in Trees :
                     /\ Fits(t) /\ d[SlotStart(s)] = Header(g, t) /\ HoldsPayload(d, s, t)
                     /\ SlotTree(d, s) = t /\ SlotGeneration(d, s) = g
<1>1. \A s \in Slots : \A i \in 1 .. Available : d[SlotStart(s) + i] \in Blocks
  BY Geometry DEF Stored
<1>2. ASSUME NEW s \in Slots, Intact(d, s)
      PROVE  \E g \in 1 .. MaxGeneration, t \in Trees :
                /\ Fits(t) /\ d[SlotStart(s)] = Header(g, t) /\ HoldsPayload(d, s, t)
                /\ SlotTree(d, s) = t /\ SlotGeneration(d, s) = g /\ ~Undecodable(d, s)
  <2>1. PICK g \in 1 .. MaxGeneration, t \in Trees : d[SlotStart(s)] = Header(g, t) /\ Fits(t)
    BY <1>2, IntactHeader DEF Stored, HeaderOf
  <2>2. /\ ReadPayload(d, s) = Encode[t]
        /\ SlotTree(d, s) = t /\ SlotGeneration(d, s) = g /\ ~Undecodable(d, s)
    BY <1>1, <1>2, <2>1, IntactReads, SMTT(30)
  <2>3. HoldsPayload(d, s, t)
    <3>1. d[SlotStart(s)].len = Len(Encode[t])
      BY <2>1, HeaderFields
    <3>2. \A i \in 1 .. Len(Encode[t]) :
              ReadPayload(d, s)[i] = d[SlotStart(s) + BlockOf(i)].bytes[PlaceOf(i)]
      BY <3>1, Zenon DEF ReadPayload
    <3>. QED  BY <2>2, <3>2, Zenon DEF HoldsPayload
  <2>. QED  BY <2>1, <2>2, <2>3
<1>3. ASSUME act # NoSlot
      PROVE  Intact(d, act) /\ SlotTree(d, act) = com /\ SlotGeneration(d, act) = gen
  BY <1>1, <1>3, HoldsReads DEF Stored
<1>4. act = NoSlot => ~Intact(d, 1)
  BY IntactHeader DEF Stored, Slots
<1>5. \A s \in Slots : ~Undecodable(d, s)
  BY <1>2 DEF Undecodable
<1>. QED  BY <1>2, <1>3, <1>4, <1>5, Zenon

\* The slot that open selects is intact, and is slot 0 when none was active.
LEMMA SelectedFacts ==
    ASSUME NEW d, NEW act \in Slots \cup {NoSlot}, NEW gen, NEW com, Stored(d, act, gen, com)
    PROVE  /\ Selected(d) \in Slots \cup {NoSlot}
           /\ Selected(d) = NoSlot => act = NoSlot
           /\ Selected(d) # NoSlot => Intact(d, Selected(d)) /\ (act = NoSlot => Selected(d) = 0)
<1>1. (act # NoSlot => Intact(d, act)) /\ (act = NoSlot => ~Intact(d, 1))
  BY StoredReads, Zenon
<1>. QED  BY <1>1, DeviceAssumption DEF Selected, Slots

\* Another slot that carries a header and its payload may become the active one.
LEMMA StoredMoves ==
    ASSUME NEW d, NEW act \in Slots \cup {NoSlot}, NEW gen, NEW com, Stored(d, act, gen, com),
           NEW o \in Slots, act = NoSlot => o = 0, NEW g \in 1 .. MaxGeneration, NEW t \in Trees,
           Fits(t), d[SlotStart(o)] = Header(g, t), HoldsPayload(d, o, t)
    PROVE  Stored(d, o, g, t)
  BY DeviceAssumption DEF Stored

\* The contents f are a mixture of what was in the cache and on the medium, but for blocks
\* of the slot that save writes: payload blocks, or the header of an attempted tree.
Derived(f) ==
    \A x \in Addresses :
        \/ f[x] = view[x]
        \/ f[x] = disk[x]
        \/ f[x] \in Blocks /\ \E i \in 1 .. Available : x = SlotStart(Target) + i
        \/ /\ x = SlotStart(Target)
           /\ tree # NoTree
           /\ \E t \in Trees \cap attempted : Fits(t) /\ f[x] = Header(NextGeneration, t)

\* The target slot and the next generation, also at saturation (saturating_add).
LEMMA SaturatingFacts ==
    ASSUME TypeOK
    PROVE  /\ Target \in Slots /\ Target # active /\ (active = NoSlot => Target = 0)
           /\ NextGeneration \in 1 .. MaxGeneration
<1>1. NextGeneration \in 1 .. MaxGeneration
  BY GenerationAssumption DEF TypeOK, NextGeneration
<1>. QED  BY <1>1, TargetFacts

\* The headers of such contents.
LEMMA DerivedHeaders ==
    ASSUME StoreInv, NEW f, Derived(f), NEW s \in Slots
    PROVE  \/ f[SlotStart(s)] = view[SlotStart(s)]
           \/ f[SlotStart(s)] = disk[SlotStart(s)]
           \/ /\ s = Target /\ tree # NoTree
              /\ \E t \in Trees \cap attempted :
                     Fits(t) /\ f[SlotStart(s)] = Header(NextGeneration, t)
<1>1. Target \in Slots
  BY SaturatingFacts DEF StoreInv
<1>2. SlotStart(s) \in Addresses /\ \A i \in 1 .. Available : SlotStart(s) # SlotStart(Target) + i
  BY <1>1, Geometry
<1>3. SlotStart(s) = SlotStart(Target) => s = Target
  BY <1>1, Geometry, SMTT(30)
<1>. QED  BY <1>2, <1>3 DEF Derived

\* Such contents still hold the committed tree in the active slot.
LEMMA DerivedStored ==
    ASSUME StoreInv, NEW f, Derived(f)
    PROVE  Stored(f, active, generation, committed)
<1>1. /\ TypeOK /\ Target \in Slots /\ Target # active /\ (active = NoSlot => Target = 0)
      /\ NextGeneration \in 1 .. MaxGeneration
      /\ Stored(view, active, generation, committed) /\ Stored(disk, active, generation, committed)
  BY SaturatingFacts, SMTT(30) DEF StoreInv
<1>2. ASSUME NEW x \in Addresses, \A s \in Slots : x # SlotStart(s) PROVE f[x] \in Blocks
  <2>1. f[x] = view[x] \/ f[x] = disk[x] \/ f[x] \in Blocks
    BY <1>1, <1>2, Zenon DEF Derived
  <2>2. view[x] \in Blocks /\ disk[x] \in Blocks
    BY <1>1, <1>2, Zenon DEF Stored
  <2>. QED  BY <2>1, <2>2, Zenon
<1>3. ASSUME NEW s \in Slots PROVE HeaderOf(f[SlotStart(s)], Trees)
  <2>1. HeaderOf(view[SlotStart(s)], Trees) /\ HeaderOf(disk[SlotStart(s)], Trees)
    BY <1>1 DEF Stored
  <2>2. \A t \in Trees : Fits(t) => HeaderOf(Header(NextGeneration, t), Trees)
    BY <1>1, SMTT(30) DEF HeaderOf
  <2>. QED  BY <2>1, <2>2, DerivedHeaders, Zenon
<1>4. active = NoSlot => /\ generation = 0 /\ committed = NoTree
                         /\ f[SlotStart(1)] \in Blocks \cup {ForeignHeader}
  <2>. SUFFICES ASSUME active = NoSlot
       PROVE  /\ generation = 0 /\ committed = NoTree
              /\ f[SlotStart(1)] \in Blocks \cup {ForeignHeader}
    OBVIOUS
  <2>1. 1 \in Slots /\ 1 # Target
    BY <1>1 DEF Slots
  <2>2. f[SlotStart(1)] = view[SlotStart(1)] \/ f[SlotStart(1)] = disk[SlotStart(1)]
    BY <2>1, DerivedHeaders
  <2>. QED  BY <1>1, <2>2 DEF Stored
<1>5. ASSUME active # NoSlot
      PROVE  f[SlotStart(active)] = Header(generation, committed) /\ HoldsPayload(f, active, committed)
  <2>1. Fits(committed) /\ committed \in Trees /\ active \in Slots
    BY <1>1, <1>5, SMTT(30) DEF Stored, TypeOK
  <2>2. f[SlotStart(active)] = view[SlotStart(active)] \/ f[SlotStart(active)] = disk[SlotStart(active)]
    BY <1>1, <2>1, DerivedHeaders, Zenon
  <2>3. f[SlotStart(active)] = Header(generation, committed)
    BY <1>1, <1>5, <2>2, Zenon DEF Stored
  <2>4. HoldsPayload(view, active, committed) /\ HoldsPayload(disk, active, committed)
    BY <1>1, <1>5, Zenon DEF Stored
  <2>5. ASSUME NEW i \in 1 .. Available
        PROVE  \/ f[SlotStart(active) + i] = view[SlotStart(active) + i]
               \/ f[SlotStart(active) + i] = disk[SlotStart(active) + i]
    <3>1. /\ SlotStart(active) + i \in Addresses /\ SlotStart(active) + i # SlotStart(Target)
          /\ \A j \in 1 .. Available : SlotStart(active) + i # SlotStart(Target) + j
      BY <1>1, <2>1, Geometry
    <3>. QED  BY <3>1, Zenon DEF Derived
  <2>6. HoldsPayload(f, active, committed)
    BY <2>1, <2>4, <2>5, MergeHolds
  <2>. QED  BY <2>3, <2>6
<1>. QED  BY <1>1, <1>2, <1>3, <1>4, <1>5, Zenon DEF Stored

\* And no slot of another release, if there was none.
LEMMA DerivedSupported ==
    ASSUME StoreInv, NEW f, Derived(f), Running \/ active # NoSlot
    PROVE  \A s \in Slots : f[SlotStart(s)] # ForeignHeader
<1>1. \A s \in Slots : view[SlotStart(s)] # ForeignHeader /\ disk[SlotStart(s)] # ForeignHeader
  BY DEF StoreInv
<1>. QED  BY <1>1, DerivedHeaders, HeaderFields

\* A step that does not move the active slot.
StaysPut ==
    /\ active' = active /\ generation' = generation /\ committed' = committed
    /\ attempted \subseteq attempted' /\ Derived(view') /\ Derived(disk')
    /\ ~touched /\ ~touched' => disk' = disk

\* A step that does: what was in the cache is then on the medium.
Moves ==
    /\ active' # active /\ active' \in Slots /\ (active = NoSlot => active' = 0)
    /\ view' = view /\ disk' = view /\ touched' = FALSE

\* What is left to show of a step that does not move the active slot.
LEMMA PutKeeps ==
    ASSUME StoreInv, TypeOK', StaysPut, Running' => Running,
           (~Running' \/ ~touched') => view' = disk',
           tree' # NoTree => /\ touched' /\ tree' \in attempted' /\ Fits(tree')
                             /\ HoldsPayload(view', Target, tree'),
           pc' = "header" => view'[SlotStart(Target)] = Header(NextGeneration, tree')
    PROVE  StoreInv'
<1>1. /\ Stored(view', active', generation', committed')
      /\ Stored(disk', active', generation', committed')
  BY DerivedStored DEF StaysPut
<1>2. ASSUME Running' \/ active' # NoSlot
      PROVE  \A s \in Slots : view'[SlotStart(s)] # ForeignHeader /\ disk'[SlotStart(s)] # ForeignHeader
  BY <1>2, DerivedSupported DEF StaysPut
<1>3. Target' = Target /\ NextGeneration' = NextGeneration
  BY DEF StaysPut, Target, NextGeneration
<1>. QED  BY <1>1, <1>2, <1>3 DEF StoreInv

\* The contents of the cache and of the medium are mixtures of the two.
LEMMA MixtureDerived ==
    ASSUME NEW f, \A x \in Addresses : f[x] = view[x] \/ f[x] = disk[x]
    PROVE  Derived(f)
  BY DEF Derived

\* open moves to the slot it selects, or stays with the active one.
LEMMA OpenStores ==
    ASSUME StoreInv, Open
    PROVE  StoreInv' /\ (StaysPut \/ Moves)
<1>1. /\ TypeOK /\ view = disk /\ tree = NoTree /\ pc = "off"
      /\ Stored(view, active, generation, committed) /\ active \in Slots \cup {NoSlot}
  BY DEF StoreInv, Running, Open, TypeOK
<1>2. /\ view' = view /\ disk' = disk /\ tree' = tree /\ reply' = reply /\ attempted' = attempted
      /\ pc' = "idle" /\ touched' = FALSE /\ active' = Selected(view) /\ committed' = Recovered(view)
      /\ generation' = IF Selected(view) = NoSlot THEN 0 ELSE SlotGeneration(view, Selected(view))
  BY DEF Open
<1>3. \A s \in Slots : view[SlotStart(s)] # ForeignHeader
  <2>1. ~Rejected(view) /\ ForeignHeader.version # FormatVersion
    BY DEF Open, ForeignHeader, FormatVersion
  <2>. QED  BY <2>1, HeaderAssumption DEF Rejected, Unsupported, HasMagic
<1>4. /\ Selected(view) \in Slots \cup {NoSlot}
      /\ Selected(view) = NoSlot => active = NoSlot
      /\ Selected(view) # NoSlot => Intact(view, Selected(view)) /\ (active = NoSlot => Selected(view) = 0)
  BY <1>1, SelectedFacts, Zenon
<1>5. Derived(view') /\ Derived(disk')
  BY <1>2, MixtureDerived
<1>6. CASE Selected(view) = active
  <2>1. generation' = generation /\ committed' = committed
    <3>1. CASE active = NoSlot
      BY <1>1, <1>2, <1>6, <3>1, Zenon DEF Stored, Recovered
    <3>2. CASE active # NoSlot
      <4>1. SlotTree(view, active) = committed /\ SlotGeneration(view, active) = generation
        BY <1>1, <3>2, StoredReads
      <4>. QED  BY <1>2, <1>6, <3>2, <4>1 DEF Recovered
    <3>. QED  BY <3>1, <3>2
  <2>2. StaysPut
    BY <1>2, <1>5, <1>6, <2>1 DEF StaysPut
  <2>3. TypeOK'
    <3>1. touched' \in BOOLEAN
      BY <1>2, Zenon
    <3>. QED  BY <1>1, <1>2, <1>6, <2>1, <3>1 DEF TypeOK
  <2>. QED  BY <1>1, <1>2, <1>3, <1>6, <2>1, <2>2, <2>3 DEF StoreInv, Running
<1>7. CASE Selected(view) # active
  <2>1. Selected(view) \in Slots /\ Intact(view, Selected(view)) /\ (active = NoSlot => Selected(view) = 0)
    BY <1>1, <1>4, <1>7
  <2>2. PICK g \in 1 .. MaxGeneration, t \in Trees :
            /\ Fits(t) /\ view[SlotStart(Selected(view))] = Header(g, t)
            /\ HoldsPayload(view, Selected(view), t)
            /\ SlotTree(view, Selected(view)) = t /\ SlotGeneration(view, Selected(view)) = g
    BY <1>1, <2>1, StoredReads, SMTT(30)
  <2>3. Selected(view) # NoSlot
    BY <2>1, DeviceAssumption
  <2>4. generation' = g /\ committed' = t
    BY <1>2, <2>2, <2>3 DEF Recovered
  <2>5. Stored(view, active', generation', committed')
    BY <1>1, <1>2, <2>1, <2>2, <2>4, StoredMoves
  <2>6. TypeOK'
    <3>1. touched' \in BOOLEAN
      BY <1>2, Zenon
    <3>2. generation' \in 0 .. MaxGeneration
      BY <2>4, GenerationAssumption
    <3>. QED  BY <1>1, <1>2, <2>1, <2>4, <3>1, <3>2 DEF TypeOK
  <2>7. Moves
    BY <1>1, <1>2, <1>7, <2>1 DEF Moves
  <2>. QED  BY <1>1, <1>2, <1>3, <2>5, <2>6, <2>7 DEF StoreInv, Running
<1>. QED  BY <1>6, <1>7

\* A request that changes nothing but the call's own state.
LEMMA NothingWritten ==
    ASSUME StoreInv, TypeOK', view' = view, disk' = disk,
           UNCHANGED <<active, generation, history>>,
           Running' => Running, tree' = NoTree, pc' # "header", ~Running' /\ Running => view = disk
    PROVE  StoreInv' /\ StaysPut
<1>1. Derived(view') /\ Derived(disk')
  BY MixtureDerived
<1>2. StaysPut
  BY <1>1 DEF StaysPut, history
<1>3. (~Running' \/ ~touched') => view' = disk'
  BY DEF StoreInv, history
<1>. QED  BY <1>2, <1>3, PutKeeps

\* save writes the payload, all of it or some.
LEMMA SaveWritePayloadStores ==
    ASSUME StoreInv, NEW t \in Trees, SaveWritePayload(t)
    PROVE  StoreInv' /\ StaysPut
<1>1. TypeOK /\ pc = "idle" /\ Fits(t)
  BY SMTT(30) DEF StoreInv, SaveWritePayload
<1>2. PICK done \in SUBSET (1 .. PayloadBlocks(Len(Encode[t]))) :
         /\ view' = PayloadWritten(t, done)
         /\ pc' = "written" => done = 1 .. PayloadBlocks(Len(Encode[t]))
  <2>1. PICK all : all = 1 .. PayloadBlocks(Len(Encode[t])) /\ all \in SUBSET all
    OBVIOUS
  <2>. QED  BY <2>1, Zenon DEF SaveWritePayload, Return
<1>3. /\ disk' = disk /\ active' = active /\ generation' = generation /\ committed' = committed
      /\ attempted' = attempted \cup {t} /\ touched' = TRUE
      /\ \/ pc' = "written" /\ tree' = t /\ reply' = "none"
         \/ pc' = "idle" /\ tree' = NoTree /\ reply' = "error"
  BY DEF SaveWritePayload, Return
<1>4. Derived(view') /\ Derived(disk')
  BY <1>1, <1>2, <1>3, PayloadWrittenFacts, Zenon DEF Derived
<1>5. StaysPut
  BY <1>3, <1>4, SMTT(30) DEF StaysPut
<1>6. TypeOK'
  <2>1. view' \in [Addresses -> Contents]
    BY <1>1, <1>2, PayloadWrittenFacts, Zenon
  <2>2. touched' \in BOOLEAN
    BY <1>3
  <2>. QED  BY <1>1, <1>3, <2>1, <2>2, TreeAssumption, ZenonT(30) DEF TypeOK
<1>7. ASSUME tree' # NoTree
      PROVE  tree' \in attempted' /\ Fits(tree') /\ HoldsPayload(view', Target, tree')
  <2>1. tree' = t /\ view' = PayloadWritten(t, 1 .. PayloadBlocks(Len(Encode[t])))
    BY <1>2, <1>3, <1>7
  <2>2. HoldsPayload(view', Target, t)
    BY <1>1, <2>1, WholePayload
  <2>. QED  BY <1>1, <1>3, <2>1, <2>2
<1>8. touched' /\ pc' # "header" /\ Running /\ Running'
  BY <1>1, <1>3 DEF Running
<1>. QED  BY <1>5, <1>6, <1>7, <1>8, PutKeeps

\* A failed flush.
LEMMA FlushFailsStores ==
    ASSUME StoreInv, pc \in {"written", "header"}, FlushFails, Return("error"),
           UNCHANGED <<active, generation, history>>
    PROVE  StoreInv' /\ StaysPut
<1>1. TypeOK /\ touched /\ Running
  BY DEF StoreInv, TypeOK, Running
<1>2. /\ \A x \in Addresses : view'[x] = view[x] \/ view'[x] = disk[x]
      /\ view' \in [Addresses -> Contents] /\ disk' = disk
  BY <1>1 DEF FlushFails, TypeOK
<1>3. /\ pc' = "idle" /\ tree' = NoTree /\ reply' = "error"
      /\ active' = active /\ generation' = generation
      /\ committed' = committed /\ attempted' = attempted /\ touched' = touched
  BY DEF Return, history
<1>4. Derived(view') /\ Derived(disk')
  BY <1>2, MixtureDerived
<1>5. TypeOK'
  BY <1>1, <1>2, <1>3 DEF TypeOK
<1>6. StaysPut
  BY <1>1, <1>3, <1>4 DEF StaysPut
<1>7. touched' /\ Running' /\ tree' = NoTree /\ pc' # "header"
  BY <1>1, <1>3 DEF Running
<1>. QED  BY <1>1, <1>5, <1>6, <1>7, PutKeeps

\* The first flush.
LEMMA SaveFlushPayloadStores ==
    ASSUME StoreInv, SaveFlushPayload
    PROVE  StoreInv' /\ StaysPut
<1>1. CASE FlushFails /\ Return("error")
  BY <1>1, FlushFailsStores DEF SaveFlushPayload
<1>2. CASE Flushed /\ pc' = "flushed" /\ UNCHANGED <<tree, reply>>
  <2>1. TypeOK /\ touched /\ tree \in Trees /\ tree \in attempted /\ Fits(tree) /\ Running
        /\ HoldsPayload(view, Target, tree)
    BY TreeAssumption, Zenon DEF StoreInv, SaveFlushPayload, TypeOK, Running
  <2>2. /\ view' = view /\ disk' = view /\ pc' = "flushed" /\ tree' = tree /\ reply' = reply
        /\ active' = active /\ generation' = generation
        /\ committed' = committed /\ attempted' = attempted /\ touched' = touched
    BY <1>2 DEF SaveFlushPayload, Flushed, history
  <2>3. Derived(view') /\ Derived(disk')
    BY <2>2, MixtureDerived
  <2>4. StaysPut
    BY <2>1, <2>2, <2>3, SMTT(30) DEF StaysPut
  <2>5. TypeOK'
    BY <2>1, <2>2, TreeAssumption, Zenon DEF TypeOK
  <2>. QED  BY <2>1, <2>2, <2>4, <2>5, PutKeeps, SMTT(30)
<1>. QED  BY <1>1, <1>2 DEF SaveFlushPayload

\* The header write, done or not, acknowledged by the device or not.
LEMMA SaveWriteHeaderStores ==
    ASSUME StoreInv, SaveWriteHeader
    PROVE  StoreInv' /\ StaysPut
<1>1. /\ TypeOK /\ pc = "flushed" /\ Running /\ touched /\ HoldsPayload(view, Target, tree)
      /\ tree \in Trees /\ tree # NoTree /\ tree \in attempted /\ Fits(tree)
  BY TreeAssumption, Zenon DEF StoreInv, SaveWriteHeader, TypeOK, Running
<1>2. /\ disk' = disk /\ active' = active /\ generation' = generation
      /\ committed' = committed /\ attempted' = attempted /\ touched' = touched
  BY DEF SaveWriteHeader, history
<1>3. Target \in Slots /\ NextGeneration \in 1 .. MaxGeneration /\ SlotStart(Target) \in Addresses
  BY <1>1, SaturatingFacts, Geometry
<1>4. CASE /\ view' = [view EXCEPT ![SlotStart(Target)] = Header(NextGeneration, tree)]
           /\ \/ pc' = "header" /\ tree' = tree /\ reply' = reply
              \/ pc' = "idle" /\ tree' = NoTree /\ reply' = "error"
  <2>1. /\ view'[SlotStart(Target)] = Header(NextGeneration, tree)
        /\ \A x \in Addresses : x # SlotStart(Target) => view'[x] = view[x]
        /\ view' \in [Addresses -> Contents]
    <3>1. Header(NextGeneration, tree) \in Contents
      BY <1>1, <1>3 DEF Contents
    <3>2. view \in [Addresses -> Contents]
      BY <1>1, SMTT(30) DEF TypeOK
    <3>. QED  BY <1>3, <1>4, <3>1, <3>2
  <2>2. Derived(view') /\ Derived(disk')
    BY <1>1, <1>2, <2>1, Zenon DEF Derived
  <2>3. HoldsPayload(view', Target, tree)
    <3>1. \A k \in 1 .. Available : view'[SlotStart(Target) + k] = view[SlotStart(Target) + k]
      BY <1>3, <2>1, Geometry
    <3>2. \A d : d = view' => HoldsPayload(d, Target, tree)
      BY <1>1, <1>3, <3>1, MergeHolds, Zenon
    <3>. QED  BY <3>2
  <2>4. TypeOK'
    BY <1>1, <1>2, <1>4, <2>1, TreeAssumption, Zenon DEF TypeOK
  <2>5. StaysPut
    BY <1>1, <1>2, <2>2 DEF StaysPut
  <2>6. touched' /\ Running' /\ (pc' = "header" => tree' = tree) /\ (tree' # NoTree => tree' = tree)
    BY <1>1, <1>2, <1>4 DEF Running
  <2>. QED  BY <1>1, <1>2, <2>1, <2>3, <2>4, <2>5, <2>6, PutKeeps
<1>5. CASE view' = view /\ pc' = "idle" /\ tree' = NoTree /\ reply' = "error"
  <2>1. TypeOK'
    BY <1>1, <1>2, <1>5 DEF TypeOK
  <2>2. Running'
    BY <1>5 DEF Running
  <2>. QED  BY <1>1, <1>2, <1>5, <2>1, <2>2, NothingWritten DEF history
<1>. QED  BY <1>4, <1>5, SMTT(30) DEF SaveWriteHeader, Return

\* The second flush: the target slot becomes the active one.
LEMMA SaveFlushHeaderStores ==
    ASSUME StoreInv, SaveFlushHeader
    PROVE  StoreInv' /\ (StaysPut \/ Moves)
<1>1. CASE FlushFails /\ Return("error") /\ UNCHANGED <<active, generation, history>>
  BY <1>1, FlushFailsStores DEF SaveFlushHeader
<1>2. CASE /\ Flushed
           /\ active' = Target
           /\ generation' = NextGeneration
           /\ Return("ok")
           /\ committed' = tree /\ attempted' = {} /\ touched' = FALSE
  <2>1. /\ TypeOK /\ tree \in Trees /\ Fits(tree)
        /\ Stored(view, active, generation, committed)
        /\ \A s \in Slots : view[SlotStart(s)] # ForeignHeader
        /\ HoldsPayload(view, Target, tree)
        /\ view[SlotStart(Target)] = Header(NextGeneration, tree)
    BY TreeAssumption, Zenon DEF StoreInv, SaveFlushHeader, TypeOK, Running
  <2>2. /\ Target \in Slots /\ Target # active /\ (active = NoSlot => Target = 0)
        /\ NextGeneration \in 1 .. MaxGeneration
    BY <2>1, SaturatingFacts
  <2>3. Stored(view, Target, NextGeneration, tree)
    BY <2>1, <2>2, StoredMoves DEF TypeOK
  <2>4. view' = view /\ disk' = view /\ pc' = "idle" /\ tree' = NoTree /\ reply' = "ok"
    BY <1>2 DEF Flushed, Return
  <2>5. TypeOK'
    <3>1. touched' \in BOOLEAN /\ attempted' \subseteq Trees
      BY <1>2, Zenon
    <3>2. generation' \in 0 .. MaxGeneration
      BY <1>2, <2>2, GenerationAssumption
    <3>. QED  BY <1>2, <2>1, <2>2, <2>4, <3>1, <3>2 DEF TypeOK
  <2>6. /\ Stored(view', active', generation', committed')
        /\ Stored(disk', active', generation', committed')
    BY <1>2, <2>3, <2>4
  <2>7. Moves
    BY <1>2, <2>2, <2>4 DEF Moves
  <2>. QED  BY <2>1, <2>4, <2>5, <2>6, <2>7 DEF StoreInv
<1>. QED  BY <1>1, <1>2, Zenon DEF SaveFlushHeader

\* Write-backs.
LEMMA WritebackStores ==
    ASSUME StoreInv, NEW a \in Addresses, Writeback(a)
    PROVE  StoreInv' /\ StaysPut
<1>1. TypeOK /\ Running /\ touched
  BY DEF StoreInv, Writeback
<1>2. /\ view' = view /\ pc' = pc /\ active' = active /\ generation' = generation
      /\ tree' = tree /\ reply' = reply
      /\ committed' = committed /\ attempted' = attempted /\ touched' = touched
      /\ Running' = Running
  BY DEF Writeback, store, history, Running
<1>3. /\ \A x \in Addresses : disk'[x] = view[x] \/ disk'[x] = disk[x]
      /\ disk' \in [Addresses -> Contents]
  BY <1>1 DEF Writeback, TypeOK
<1>4. Derived(view') /\ Derived(disk')
  BY <1>2, <1>3, MixtureDerived
<1>5. TypeOK'
  BY <1>1, <1>2, <1>3 DEF TypeOK
<1>6. StaysPut
  BY <1>1, <1>2, <1>4 DEF StaysPut
<1>7. /\ tree # NoTree => /\ tree \in attempted /\ Fits(tree) /\ HoldsPayload(view, Target, tree)
      /\ pc = "header" => view[SlotStart(Target)] = Header(NextGeneration, tree)
  BY DEF StoreInv
<1>. QED  BY <1>1, <1>2, <1>5, <1>6, <1>7, PutKeeps

\* A power loss.
LEMMA PowerLossStores ==
    ASSUME StoreInv, PowerLoss
    PROVE  StoreInv' /\ StaysPut
<1>1. /\ view' = disk /\ disk' = disk /\ pc' = "off" /\ tree' = NoTree /\ reply' = "none"
      /\ active' = active /\ generation' = generation
      /\ committed' = committed /\ attempted' = attempted /\ touched' = touched
  BY DEF PowerLoss, history
<1>2. Derived(view') /\ Derived(disk')
  BY <1>1, MixtureDerived
<1>3. StaysPut
  BY <1>1, <1>2 DEF StaysPut
<1>4. TypeOK'
  BY <1>1 DEF TypeOK, StoreInv
<1>5. ~Running'
  BY <1>1 DEF Running
<1>. QED  BY <1>1, <1>3, <1>4, <1>5, PutKeeps

\* Every step keeps the invariant, and moves the active slot or does not.
LEMMA NextStores ==
    ASSUME StoreInv, [Next]_vars
    PROVE  StoreInv' /\ (StaysPut \/ Moves)
<1>1. CASE Open
  BY <1>1, OpenStores
<1>2. CASE OpenFails
  <2>1. /\ view' = view /\ disk' = disk /\ pc' = "halted" /\ tree' = tree /\ reply' = "error"
        /\ active' = active /\ generation' = generation
        /\ committed' = committed /\ attempted' = attempted /\ touched' = touched
    BY <1>2 DEF OpenFails, history
  <2>2. TypeOK /\ tree = NoTree /\ ~Running /\ ~Running'
    BY <1>2, <2>1 DEF OpenFails, StoreInv, TypeOK, Running
  <2>3. TypeOK'
    BY <2>1, <2>2 DEF TypeOK
  <2>. QED  BY <2>1, <2>2, <2>3, NothingWritten DEF history
<1>3. ASSUME NEW t \in Trees, SaveTooLarge(t)
      PROVE  StoreInv' /\ StaysPut
  <2>1. /\ view' = view /\ disk' = disk /\ pc' = "idle" /\ tree' = NoTree /\ reply' = "error"
        /\ active' = active /\ generation' = generation
        /\ committed' = committed /\ attempted' = attempted /\ touched' = touched
    BY <1>3 DEF SaveTooLarge, Return, history
  <2>2. TypeOK /\ Running /\ Running'
    BY <1>3, <2>1 DEF SaveTooLarge, StoreInv, Running
  <2>3. TypeOK'
    BY <2>1, <2>2 DEF TypeOK
  <2>. QED  BY <2>1, <2>2, <2>3, NothingWritten DEF history
<1>4. ASSUME NEW t \in Trees, SaveWritePayload(t)
      PROVE  StoreInv' /\ StaysPut
  BY <1>4, SaveWritePayloadStores
<1>5. CASE SaveFlushPayload
  BY <1>5, SaveFlushPayloadStores
<1>6. CASE SaveWriteHeader
  BY <1>6, SaveWriteHeaderStores
<1>7. CASE SaveFlushHeader
  BY <1>7, SaveFlushHeaderStores
<1>8. ASSUME NEW a \in Addresses, Writeback(a)
      PROVE  StoreInv' /\ StaysPut
  BY <1>8, WritebackStores
<1>9. CASE PowerLoss
  BY <1>9, PowerLossStores
<1>10. CASE UNCHANGED vars
  <2>1. StoreInv'
    BY <1>10 DEF StoreInv, TypeOK, Running, Target, NextGeneration, vars, store, history
  <2>2. Derived(view') /\ Derived(disk')
    BY <1>10, MixtureDerived DEF vars
  <2>. QED  BY <1>10, <2>1, <2>2, SMTT(30) DEF StaysPut, vars, store, history
<1>. QED
  BY <1>1, <1>2, <1>3, <1>4, <1>5, <1>6, <1>7, <1>8, <1>9, <1>10 DEF Next

\* A device that was never written, or only by another release.
LEMMA InitStores ==
    ASSUME Init
    PROVE  StoreInv /\ \A s \in Slots : disk[SlotStart(s)] \in Blocks \cup {ForeignHeader}
<1>1. PICK h \in [Slots -> {Zero, ForeignHeader}] :
         disk = [a \in Addresses |->
                    IF a = SlotStart(0) THEN h[0] ELSE IF a = SlotStart(1) THEN h[1] ELSE Zero]
  BY DEF Init
<1>2. \A x \in Addresses : (\A s \in Slots : x # SlotStart(s)) => disk[x] \in Blocks
  BY <1>1, DeviceAssumption DEF Slots
<1>3. \A s \in Slots : disk[SlotStart(s)] \in Blocks \cup {ForeignHeader}
  BY <1>1, Geometry, DeviceAssumption DEF Slots
<1>4. /\ view = disk /\ pc = "off" /\ active = NoSlot /\ tree = NoTree /\ reply = "none"
      /\ committed = NoTree /\ attempted = {} /\ generation = 0
  BY DEF Init
<1>5. Stored(disk, NoSlot, 0, NoTree)
  BY <1>2, <1>3 DEF Stored, HeaderOf, Slots
<1>6. TypeOK
  <2>1. disk \in [Addresses -> Contents]
    BY <1>1, DeviceAssumption DEF Slots, Contents
  <2>2. touched \in BOOLEAN
    BY Zenon DEF Init
  <2>3. attempted \subseteq Trees /\ generation \in 0 .. MaxGeneration
    BY <1>4, GenerationAssumption
  <2>. QED  BY <1>4, <2>1, <2>2, <2>3 DEF TypeOK
<1>. QED  BY <1>3, <1>4, <1>5, <1>6 DEF StoreInv, Running

\* Every reachable state satisfies the invariant, at saturation too (open, save).
THEOREM StoreInvariant == Spec => []StoreInv
<1>1. Init => StoreInv
  BY InitStores
<1>2. StoreInv /\ [Next]_vars => StoreInv'
  BY NextStores
<1>. QED  BY <1>1, <1>2, PTL DEF Spec

\* Device contents, fields and call state keep their types (open, save).
THEOREM TypeCorrect == Spec => []TypeOK
<1>1. StoreInv => TypeOK
  BY SMTT(30) DEF StoreInv
<1>. QED  BY <1>1, StoreInvariant, PTL

\* decode_tree never rejects what the checksum accepted, torn saves included.
THEOREM PayloadsDecode == Spec => []NeverUndecodable
<1>1. StoreInv => NeverUndecodable
  BY StoredReads, Zenon DEF StoreInv, TypeOK, NeverUndecodable
<1>. QED  BY <1>1, StoreInvariant, PTL

\* A header of Contents other than the foreign one has this release's version.
LEMMA SupportedHeader ==
    ASSUME NEW d \in [Addresses -> Contents], NEW s \in Slots, Unsupported(d, s)
    PROVE  d[SlotStart(s)] = ForeignHeader
<1>1. d[SlotStart(s)] \in Contents
  BY Geometry
<1> QED
  BY <1>1, HeaderFields DEF Contents, Unsupported, HasMagic

\* Once something was saved, a boot always finds a snapshot it accepts (open), even when
\* the generation counter has saturated.
THEOREM SnapshotAlwaysThere == Spec => []AlwaysRecoverable
<1>1. ASSUME StoreInv, committed # NoTree
      PROVE  Selected(disk) # NoSlot /\ ~Rejected(disk)
  <2>1. /\ active \in Slots \cup {NoSlot} /\ disk \in [Addresses -> Contents]
        /\ Stored(disk, active, generation, committed)
    BY <1>1 DEF StoreInv, TypeOK
  <2>2. active # NoSlot
    BY <1>1, <2>1, SMTT(30) DEF Stored
  <2>3. \A s \in Slots : ~Unsupported(disk, s)
    BY <1>1, <2>1, <2>2, SupportedHeader, Zenon DEF StoreInv
  <2>4. \A s \in Slots : ~Undecodable(disk, s)
    BY <2>1, StoredReads, Zenon
  <2>5. Selected(disk) # NoSlot
    BY <2>1, <2>2, SelectedFacts
  <2>. QED  BY <2>3, <2>4, <2>5 DEF Rejected
<1>2. StoreInv => AlwaysRecoverable
  BY <1>1 DEF AlwaysRecoverable
<1>. QED  BY <1>2, StoreInvariant, PTL

\* No step writes to a device with a slot of another format version (open).
THEOREM OtherFormatsKept == Spec => ForeignUntouched
<1>1. ASSUME StoreInv, [Next]_vars, NEW s \in Slots, Unsupported(disk, s)
      PROVE  disk' = disk
  <2>1. TypeOK /\ disk[SlotStart(s)] = ForeignHeader
    BY <1>1, SupportedHeader DEF StoreInv, TypeOK
  <2>2. ~Running /\ view = disk
    BY <1>1, <2>1 DEF StoreInv
  <2>. QED
    BY <1>1, <2>2 DEF Next, vars, Running, Open, OpenFails, SaveTooLarge, SaveWritePayload,
          SaveFlushPayload, SaveWriteHeader, SaveFlushHeader, Writeback, PowerLoss
<1>2. StoreInv /\ [Next]_vars => [(\E s \in Slots : Unsupported(disk, s)) => disk' = disk]_disk
  BY <1>1
<1>. QED  BY <1>2, StoreInvariant, PTL DEF Spec, ForeignUntouched

-----------------------------------------------------------------------------
(***************************************************************************)
(* What holds for saves below the saturation of the generation counter,    *)
(* which the code reaches only after 2^64 - 1 saves.                       *)
(***************************************************************************)

\* The header of a slot of d other than act is older than generation gen, or newer and of
\* one of the trees att.
Ordered(d, act, gen, att) == \A s \in Slots : s # act => InactiveHeader(d[SlotStart(s)], gen, att)

\* What IInv adds to StoreInv.
OrderInv ==
    /\ Ordered(view, active, generation, attempted)
    /\ Ordered(disk, active, generation, attempted)
    /\ ~touched => Selected(disk) = active
    /\ tree # NoTree => generation < SaveBound
    /\ pc \in {"flushed", "header"} => HoldsPayload(disk, Target, tree)

\* The two together are the inductive invariant.
LEMMA OrderedIInv ==
    ASSUME SaveBound <= MaxGeneration, StoreInv, OrderInv
    PROVE  IInv
<1>1. /\ Consistent(view, active, generation, committed, attempted)
      /\ Consistent(disk, active, generation, committed, attempted)
  BY Zenon DEF StoreInv, OrderInv, Stored, Ordered, Consistent
<1>2. pc = "header" => view[SlotStart(Target)] = Header(generation + 1, tree)
  <2>. SUFFICES ASSUME pc = "header" PROVE NextGeneration = generation + 1
    BY DEF StoreInv
  <2>1. TypeOK /\ generation < SaveBound
    BY DEF StoreInv, OrderInv, TypeOK
  <2>. QED  BY <2>1, TargetFacts, GenerationAssumption DEF TypeOK
<1>. QED  BY <1>1, <1>2, Zenon DEF IInv, StoreInv, OrderInv

\* On a device in that order open selects the active slot, or the other one with a newer
\* header, which is then of an attempted tree.
LEMMA OpenReads ==
    ASSUME NEW d, NEW act \in Slots \cup {NoSlot}, NEW gen \in 0 .. MaxGeneration,
           NEW com, NEW att, Stored(d, act, gen, com), Ordered(d, act, gen, att)
    PROVE  \/ Selected(d) = act /\ Recovered(d) = com
           \/ /\ Selected(d) \in Slots /\ Selected(d) # act
              /\ SlotGeneration(d, Selected(d)) > gen
              /\ Recovered(d) \in att
<1>1. /\ act # NoSlot => Intact(d, act) /\ SlotTree(d, act) = com /\ SlotGeneration(d, act) = gen
      /\ act = NoSlot => ~Intact(d, 1) /\ gen = 0 /\ com = NoTree
  BY StoredReads, Zenon DEF Stored
<1>2. ASSUME NEW s \in Slots, s # act, Intact(d, s)
      PROVE  /\ SlotGeneration(d, s) \in 1 .. MaxGeneration
             /\ \/ SlotGeneration(d, s) < gen
                \/ SlotGeneration(d, s) > gen /\ SlotTree(d, s) \in att
  <2>1. PICK g \in 1 .. MaxGeneration, t \in Trees :
           d[SlotStart(s)] = Header(g, t) /\ Fits(t) /\ (g < gen \/ (g > gen /\ t \in att))
    BY <1>2, IntactHeader DEF Ordered, InactiveHeader
  <2>2. \A i \in 1 .. Available : d[SlotStart(s) + i] \in Blocks
    BY Geometry DEF Stored
  <2>3. SlotTree(d, s) = t /\ SlotGeneration(d, s) = g
    BY <1>2, <2>1, <2>2, IntactReads, SMTT(30)
  <2>. QED  BY <2>1, <2>3
<1>3. CASE act = NoSlot
  BY <1>1, <1>2, <1>3, DeviceAssumption, SMTT(30) DEF Selected, Recovered, Slots
<1>4. CASE act = 0
  BY <1>1, <1>2, <1>4, DeviceAssumption, SMTT(30) DEF Selected, Recovered, Slots
<1>5. CASE act = 1
  BY <1>1, <1>2, <1>5, DeviceAssumption DEF Selected, Recovered, Slots
<1>. QED  BY <1>3, <1>4, <1>5 DEF Slots

\* A step that does not move the active slot keeps the order of the headers.
LEMMA PutOrdered ==
    ASSUME SaveBound <= MaxGeneration, StoreInv, OrderInv, StaysPut
    PROVE  /\ Ordered(view', active', generation', attempted')
           /\ Ordered(disk', active', generation', attempted')
<1>1. /\ TypeOK /\ (tree # NoTree => generation < SaveBound)
      /\ Ordered(view, active, generation, attempted)
      /\ Ordered(disk, active, generation, attempted)
  BY Zenon DEF StoreInv, OrderInv
<1>2. tree # NoTree => NextGeneration \in 1 .. MaxGeneration /\ NextGeneration > generation
  BY <1>1, TargetFacts, GenerationAssumption DEF TypeOK
<1>3. \A t \in Trees \cap attempted :
          tree # NoTree /\ Fits(t) => InactiveHeader(Header(NextGeneration, t), generation, attempted)
  BY <1>2 DEF InactiveHeader
<1>4. ASSUME NEW f, Derived(f), NEW s \in Slots, s # active
      PROVE  InactiveHeader(f[SlotStart(s)], generation, attempted)
  <2>1. /\ InactiveHeader(view[SlotStart(s)], generation, attempted)
        /\ InactiveHeader(disk[SlotStart(s)], generation, attempted)
    BY <1>1, <1>4, Zenon DEF Ordered
  <2>. QED  BY <1>3, <1>4, <2>1, DerivedHeaders, Zenon
<1>5. ASSUME NEW h, InactiveHeader(h, generation, attempted)
      PROVE  InactiveHeader(h, generation', attempted')
  BY <1>5 DEF StaysPut, InactiveHeader
<1>. QED  BY <1>4, <1>5, Zenon DEF StaysPut, Ordered

\* What is left to show of such a step.
LEMMA PutOrder ==
    ASSUME SaveBound <= MaxGeneration, StoreInv, OrderInv, StaysPut,
           ~touched \/ touched' \/ Selected(disk') = active,
           tree' = NoTree \/ tree # NoTree \/ generation < SaveBound,
           pc' \in {"flushed", "header"} => HoldsPayload(disk', Target, tree')
    PROVE  OrderInv'
<1>1. /\ Ordered(view', active', generation', attempted')
      /\ Ordered(disk', active', generation', attempted')
  BY PutOrdered
<1>2. /\ active' = active /\ generation' = generation /\ Target' = Target
      /\ ~touched /\ ~touched' => disk' = disk
  BY DEF StaysPut, Target
<1>3. ~touched' => Selected(disk') = active'
  BY <1>2, Zenon DEF OrderInv
<1>4. tree' # NoTree => generation' < SaveBound
  BY <1>2, Zenon DEF OrderInv
<1>. QED  BY <1>1, <1>2, <1>3, <1>4, Zenon DEF OrderInv

\* A step that moves the active slot to a newer snapshot leaves the older one behind.
LEMMA MoveOrdered ==
    ASSUME StoreInv, Moves, generation \in Int, generation' \in Int, generation < generation'
    PROVE  Ordered(view, active', generation', attempted')
<1>1. Stored(view, active, generation, committed) /\ active \in Slots \cup {NoSlot}
  BY DEF StoreInv, TypeOK
<1>2. ASSUME NEW s \in Slots, s # active'
      PROVE  InactiveHeader(view[SlotStart(s)], generation', attempted')
  <2>1. CASE active = NoSlot
    <3>1. s = 1
      BY <1>2, <2>1 DEF Moves, Slots
    <3>. QED  BY <1>1, <2>1, <3>1, Zenon DEF Stored, InactiveHeader
  <2>2. CASE active # NoSlot
    <3>1. s = active
      BY <1>1, <1>2, <2>2, SMTT(30) DEF Moves, Slots
    <3>. QED  BY <1>1, <2>2, <3>1, Zenon DEF Stored, InactiveHeader
  <2>. QED  BY <2>1, <2>2
<1>. QED  BY <1>2, Zenon DEF Ordered

\* open keeps the order: it moves to a newer snapshot or stays with the active one.
LEMMA OpenOrder ==
    ASSUME SaveBound <= MaxGeneration, StoreInv, OrderInv, Open
    PROVE  OrderInv'
<1>1. StoreInv' /\ (StaysPut \/ Moves)
  BY OpenStores, SMTT(30)
<1>2. /\ TypeOK /\ view = disk /\ tree = NoTree /\ Stored(view, active, generation, committed)
      /\ Ordered(view, active, generation, attempted)
  BY DEF StoreInv, OrderInv, Running, Open, TypeOK
<1>3. /\ view' = view /\ disk' = view /\ tree' = NoTree /\ pc' = "idle" /\ active' = Selected(view)
      /\ generation' = IF Selected(view) = NoSlot THEN 0 ELSE SlotGeneration(view, Selected(view))
  BY <1>2 DEF Open
<1>4. CASE StaysPut
  <2>1. Selected(disk') = active
    BY <1>3, <1>4 DEF StaysPut
  <2>. QED  BY <1>3, <1>4, <2>1, PutOrder
<1>5. CASE Moves
  <2>1. Selected(view) # active /\ Selected(view) # NoSlot
    BY <1>3, <1>5, DeviceAssumption DEF Moves
  <2>2. /\ active \in Slots \cup {NoSlot}
        /\ generation \in 0 .. MaxGeneration /\ generation' \in 0 .. MaxGeneration
    BY <1>1, <1>2, Zenon DEF StoreInv, TypeOK
  <2>3. SlotGeneration(view, Selected(view)) > generation
    BY <1>2, <2>1, <2>2, OpenReads, Zenon
  <2>4. generation \in Int /\ generation' \in Int /\ generation' > generation
    BY <1>3, <2>1, <2>2, <2>3
  <2>5. Ordered(view, active', generation', attempted')
    BY <1>5, <2>4, MoveOrdered
  <2>. QED  BY <1>3, <2>5, Zenon DEF OrderInv
<1>. QED  BY <1>1, <1>4, <1>5

\* The second flush keeps it: the snapshot acknowledged is the only one open may choose.
LEMMA SaveFlushHeaderOrder ==
    ASSUME SaveBound <= MaxGeneration, StoreInv, OrderInv, SaveFlushHeader
    PROVE  OrderInv'
<1>1. StoreInv' /\ (StaysPut \/ Moves) /\ pc' = "idle" /\ tree' = NoTree
  BY SaveFlushHeaderStores, Zenon DEF SaveFlushHeader, Return
<1>2. TypeOK /\ tree # NoTree /\ generation < SaveBound
  BY DEF StoreInv, OrderInv, SaveFlushHeader, TypeOK
<1>3. CASE StaysPut
  <2>1. Target # active /\ active' = active
    BY <1>2, <1>3, TargetFacts DEF StaysPut
  <2>2. touched' = touched
    BY <2>1, Zenon DEF SaveFlushHeader, history
  <2>. QED  BY <1>1, <1>3, <2>2, PutOrder
<1>4. CASE Moves
  <2>1. generation' = NextGeneration /\ attempted' = {}
    BY <1>4, Zenon DEF SaveFlushHeader, Moves
  <2>2. generation \in Int /\ generation' \in Int /\ generation' > generation
    BY <1>2, <2>1, TargetFacts, GenerationAssumption DEF TypeOK
  <2>3. Ordered(view, active', generation', attempted')
    BY <1>4, <2>2, MoveOrdered
  <2>4. /\ Stored(view, active', generation', committed') /\ active' \in Slots \cup {NoSlot}
        /\ generation' \in 0 .. MaxGeneration
    BY <1>1, <1>4, Zenon DEF StoreInv, TypeOK, Moves
  <2>5. Selected(view) = active'
    <3>1. Selected(view) = active' \/ Recovered(view) \in attempted'
      BY <2>3, <2>4, OpenReads, Zenon
    <3>. QED  BY <2>1, <3>1
  <2>. QED  BY <1>1, <1>4, <2>3, <2>5, Zenon DEF OrderInv, Moves
<1>. QED  BY <1>1, <1>3, <1>4

\* Every step keeps it.
LEMMA NextOrder ==
    ASSUME SaveBound <= MaxGeneration, StoreInv, OrderInv, [Next]_vars
    PROVE  OrderInv'
<1>1. StoreInv' /\ (StaysPut \/ Moves) /\ TypeOK
  BY NextStores, Zenon DEF StoreInv
<1>2. active' = active => StaysPut
  BY <1>1, Zenon DEF Moves
<1>3. CASE Open
  BY <1>3, OpenOrder
<1>4. CASE OpenFails
  BY <1>2, <1>4, PutOrder DEF OpenFails, history
<1>5. ASSUME NEW t \in Trees, SaveTooLarge(t) PROVE OrderInv'
  BY <1>2, <1>5, PutOrder DEF SaveTooLarge, Return, history
<1>6. ASSUME NEW t \in Trees, SaveWritePayload(t) PROVE OrderInv'
  <2>1. active' = active /\ touched' /\ generation < SaveBound /\ pc' \in {"written", "idle"}
    BY <1>6, Zenon DEF SaveWritePayload, Return
  <2>. QED  BY <1>2, <2>1, PutOrder
<1>7. CASE SaveFlushPayload
  <2>1. active' = active /\ touched' = touched
    BY <1>7, Zenon DEF SaveFlushPayload, history
  <2>2. tree # NoTree /\ HoldsPayload(view, Target, tree)
    BY <1>1, <1>7 DEF StoreInv, TypeOK, SaveFlushPayload
  <2>3. pc' = "flushed" => disk' = view /\ tree' = tree
    BY <1>7 DEF SaveFlushPayload, Flushed, Return
  <2>4. pc' # "header"
    BY <1>7 DEF SaveFlushPayload, Return
  <2>. QED  BY <1>2, <2>1, <2>2, <2>3, <2>4, PutOrder
<1>8. CASE SaveWriteHeader
  <2>1. active' = active /\ touched' = touched /\ disk' = disk
    BY <1>8, Zenon DEF SaveWriteHeader, history
  <2>2. tree # NoTree /\ HoldsPayload(disk, Target, tree)
    BY <1>1, <1>8 DEF OrderInv, TypeOK, SaveWriteHeader
  <2>3. pc' = "idle" \/ (pc' = "header" /\ tree' = tree)
    BY <1>8, Zenon DEF SaveWriteHeader, Return
  <2>. QED  BY <1>2, <2>1, <2>2, <2>3, PutOrder
<1>9. CASE SaveFlushHeader
  BY <1>9, SaveFlushHeaderOrder
<1>10. ASSUME NEW a \in Addresses, Writeback(a) PROVE OrderInv'
  <2>1. /\ active' = active /\ touched' = touched /\ tree' = tree /\ pc' = pc
        /\ \A x \in Addresses : disk'[x] = disk[x] \/ disk'[x] = view[x]
    BY <1>1, <1>10 DEF Writeback, store, history, TypeOK
  <2>2. ASSUME pc \in {"flushed", "header"} PROVE HoldsPayload(disk', Target, tree)
    <3>1. tree \in Trees /\ tree # NoTree
      BY <1>1, <2>2 DEF TypeOK
    <3>2. Fits(tree) /\ HoldsPayload(view, Target, tree) /\ HoldsPayload(disk, Target, tree)
      BY <2>2, <3>1, Zenon DEF StoreInv, OrderInv
    <3>3. Target \in Slots /\ \A k \in 1 .. Available : SlotStart(Target) + k \in Addresses
      BY <1>1, TargetFacts, Geometry
    <3>4. \A d : d = disk' => HoldsPayload(d, Target, tree)
      BY <2>1, <3>1, <3>2, <3>3, MergeHolds, Zenon
    <3>. QED  BY <3>4
  <2>. QED  BY <1>2, <2>1, <2>2, PutOrder
<1>11. CASE PowerLoss
  BY <1>2, <1>11, PutOrder DEF PowerLoss, history
<1>12. CASE UNCHANGED vars
  BY <1>12, Zenon DEF OrderInv, Target, vars, store, history
<1>. QED
  BY <1>3, <1>4, <1>5, <1>6, <1>7, <1>8, <1>9, <1>10, <1>11, <1>12 DEF Next

\* Every reachable state satisfies the inductive invariant (open, save).
THEOREM InductiveInvariant ==
    ASSUME SaveBound <= MaxGeneration
    PROVE  Spec => []IInv
<1>1. Init => StoreInv /\ OrderInv
  <2>. SUFFICES ASSUME Init PROVE StoreInv /\ OrderInv
    OBVIOUS
  <2>1. StoreInv /\ \A s \in Slots : disk[SlotStart(s)] \in Blocks \cup {ForeignHeader}
    BY InitStores
  <2>2. \A s \in Slots : ~Intact(disk, s)
    BY <2>1, IntactHeader
  <2>3. Selected(disk) = NoSlot
    BY <2>2 DEF Selected, Slots
  <2>. QED  BY <2>1, <2>3 DEF Init, OrderInv, Ordered, InactiveHeader
<1>2. StoreInv /\ OrderInv /\ [Next]_vars => StoreInv' /\ OrderInv'
  BY NextStores, NextOrder
<1>3. StoreInv /\ OrderInv => IInv
  BY OrderedIInv
<1>. QED  BY <1>1, <1>2, <1>3, PTL DEF Spec

\* The invariant implies that open recovers the acknowledged or an attempted tree.
LEMMA IInvRecoverySafe ==
    ASSUME StoreInv, IInv
    PROVE  RecoverySafe
<1>1. /\ active \in Slots \cup {NoSlot} /\ generation \in 0 .. MaxGeneration
      /\ Stored(disk, active, generation, committed)
      /\ Ordered(disk, active, generation, attempted)
      /\ ~touched => Selected(disk) = active
  BY Zenon DEF StoreInv, IInv, TypeOK, Consistent, Ordered
<1>2. \/ Recovered(disk) = committed
      \/ Selected(disk) # active /\ Recovered(disk) \in attempted
  BY <1>1, OpenReads, Zenon
<1>. QED  BY <1>1, <1>2, Zenon DEF RecoverySafe

\* At every instant a power loss leaves the acknowledged tree or one whose save
\* was begun since (open after an interrupted save).
THEOREM PowerLossSafe ==
    ASSUME SaveBound <= MaxGeneration
    PROVE  Spec => []RecoverySafe
<1>1. StoreInv /\ IInv => RecoverySafe
  BY IInvRecoverySafe, SMTT(30)
<1>. QED  BY <1>1, StoreInvariant, InductiveInvariant, PTL

\* A step of the store is a step of the register, or invisible to it.
LEMMA StepRefines ==
    ASSUME StoreInv, StoreInv', RecoverySafe, [Next]_vars
    PROVE  [Register!Next]_(Register!rvars)
<1> USE DEF Register!Next, Register!rvars
<1>1. TypeOK /\ TypeOK'
  BY DEF StoreInv
<1>2. CASE Open
  <2>1. Running = FALSE /\ Running' = TRUE
    BY <1>2 DEF Open, Running
  <2>2. view = disk
    BY <2>1 DEF StoreInv
  <2>3. committed' \in Register!Outcomes
    BY <1>2, <2>2 DEF Open, RecoverySafe, Register!Outcomes
  <2>4. Register!Open
    BY <1>2, <2>1, <2>3 DEF Open, Register!Open
  <2> QED
    BY <2>4
<1>3. CASE OpenFails
  BY <1>3 DEF OpenFails, Running, history
<1>4. ASSUME NEW t \in Trees, SaveTooLarge(t)
      PROVE  [Register!Next]_(Register!rvars)
  <2>1. tree = NoTree
    BY <1>1, <1>4 DEF TypeOK, SaveTooLarge
  <2> QED
    BY <1>4, <2>1 DEF SaveTooLarge, Running, history, Return
<1>5. ASSUME NEW t \in Trees, SaveWritePayload(t)
      PROVE  [Register!Next]_(Register!rvars)
  <2>1. tree = NoTree
    BY <1>1, <1>5 DEF TypeOK, SaveWritePayload
  <2>2. Running = TRUE /\ Running' = TRUE
    BY <1>5 DEF SaveWritePayload, Running, Return
  <2>3. Register!BeginSave(t)
    BY <1>5, <2>1, <2>2 DEF SaveWritePayload, Return, Register!BeginSave
  <2> QED
    BY <2>3
<1>6. ASSUME pc \in {"written", "flushed", "header"}, Return("error"), UNCHANGED history
      PROVE  Register!FailSave
  <2>1. Running = TRUE /\ Running' = TRUE /\ tree # NoTree
    BY <1>1, <1>6 DEF TypeOK, Running, Return
  <2> QED
    BY <1>6, <2>1 DEF Return, history, Register!FailSave
<1>7. CASE SaveFlushPayload
  <2>1. CASE pc' = "flushed" /\ UNCHANGED <<tree, reply>>
    BY <1>7, <2>1 DEF SaveFlushPayload, Running, history
  <2>2. CASE Return("error")
    BY <1>6, <1>7, <2>2 DEF SaveFlushPayload
  <2> QED
    BY <1>7, <2>1, <2>2 DEF SaveFlushPayload
<1>8. CASE SaveWriteHeader
  <2>1. CASE pc' = "header" /\ UNCHANGED <<tree, reply>>
    BY <1>8, <2>1 DEF SaveWriteHeader, Running, history
  <2>2. CASE Return("error")
    BY <1>6, <1>8, <2>2 DEF SaveWriteHeader
  <2> QED
    BY <1>8, <2>1, <2>2 DEF SaveWriteHeader
<1>9. CASE SaveFlushHeader
  <2>1. CASE Return("error") /\ UNCHANGED history
    BY <1>6, <1>9, <2>1 DEF SaveFlushHeader
  <2>2. CASE Return("ok") /\ committed' = tree /\ attempted' = {} /\ touched' = FALSE
    <3>1. Running = TRUE /\ Running' = TRUE /\ tree # NoTree
      BY <1>1, <1>9, <2>2 DEF TypeOK, Running, Return, SaveFlushHeader
    <3>2. Register!Acknowledge
      BY <2>2, <3>1 DEF Return, Register!Acknowledge
    <3> QED
      BY <3>2
  <2> QED
    BY <1>9, <2>1, <2>2, Zenon DEF SaveFlushHeader
<1>10. ASSUME NEW a \in Addresses, Writeback(a)
       PROVE  [Register!Next]_(Register!rvars)
  BY <1>10 DEF Writeback, Running, store, history
<1>11. CASE PowerLoss
  <2>1. Running' = FALSE
    BY <1>11 DEF PowerLoss, Running
  <2>2. Register!PowerLoss
    BY <1>11, <2>1 DEF PowerLoss, history, Register!PowerLoss
  <2> QED
    BY <2>2
<1>12. CASE UNCHANGED vars
  BY <1>12 DEF vars, store, history, Running
<1> QED
  BY <1>2, <1>3, <1>4, <1>5, <1>7, <1>8, <1>9, <1>10, <1>11, <1>12, SMTT(30) DEF Next

\* The store implements the register that survives power loss (open, save).
THEOREM StoreIsRegister ==
    ASSUME SaveBound <= MaxGeneration
    PROVE  Spec => ImplementsRegister
<1>1. Init => Register!Init
  <2>1. ASSUME Init PROVE Running = FALSE
    BY <2>1 DEF Init, Running
  <2> QED
    BY <2>1, Zenon DEF Init, Register!Init
<1>2. StoreInv /\ StoreInv' /\ RecoverySafe /\ [Next]_vars => [Register!Next]_(Register!rvars)
  BY StepRefines
<1> QED
  BY <1>1, <1>2, StoreInvariant, PowerLossSafe, PTL DEF Spec, ImplementsRegister, Register!Spec
-----------------------------------------------------------------------------
(***************************************************************************)
(* The snapshot before the newest one.                                     *)
(***************************************************************************)

\* A header of some trees is one of more trees.
LEMMA MoreTrees ==
    ASSUME NEW h, NEW S, NEW T, S \subseteq T, HeaderOf(h, S)
    PROVE  HeaderOf(h, T)
  BY DEF HeaderOf

\* The history starts with no snapshot.
LEMMA InitHistory == FInit => HistoryInv
<1>. SUFFICES ASSUME FInit PROVE HistoryInv
  OBVIOUS
<1>1. /\ active = NoSlot /\ attempted = {} /\ touched = FALSE /\ clobbered = FALSE
      /\ view = disk
  BY DEF FInit, Init
<1>2. PICK h \in [Slots -> {Zero, ForeignHeader}] :
         disk = [a \in Addresses |->
                    IF a = SlotStart(0) THEN h[0] ELSE IF a = SlotStart(1) THEN h[1] ELSE Zero]
  BY DEF FInit, Init
<1>3. \A s \in Slots : disk[SlotStart(s)] \in Blocks \cup {ForeignHeader}
  BY <1>2, Geometry, DeviceAssumption DEF Slots
<1>4. clobbered \in BOOLEAN
  BY <1>1, Zenon
<1>. QED  BY <1>1, <1>3, <1>4 DEF HistoryInv, HeaderOf

\* A step that does not move the active slot keeps what is known of the other one.
LEMMA PutHistory ==
    ASSUME StoreInv, StoreInv', HistoryInv, StaysPut, TrackHistory
    PROVE  HistoryInv'
<1>1. /\ active' = active /\ attempted \subseteq attempted' /\ previous' = previous
      /\ clobbered' = (clobbered \/ touched')
  BY DEF StaysPut, TrackHistory
<1>2. clobbered' \in BOOLEAN /\ (touched' => clobbered')
  BY <1>1, Zenon
<1>3. ASSUME NEW f, Derived(f), NEW s \in Slots, s # active
      PROVE  HeaderOf(f[SlotStart(s)], attempted' \cup {previous'})
  <2>1. /\ HeaderOf(view[SlotStart(s)], attempted' \cup {previous'})
        /\ HeaderOf(disk[SlotStart(s)], attempted' \cup {previous'})
    <3>1. /\ HeaderOf(view[SlotStart(s)], attempted \cup {previous})
          /\ HeaderOf(disk[SlotStart(s)], attempted \cup {previous})
      BY <1>3, Zenon DEF HistoryInv
    <3>2. attempted \cup {previous} \subseteq attempted' \cup {previous'}
      BY <1>1, Zenon
    <3>. QED  BY <3>1, <3>2, MoreTrees, Zenon
  <2>2. NextGeneration \in 1 .. MaxGeneration
    BY SaturatingFacts DEF StoreInv
  <2>3. \A t \in Trees \cap attempted :
            Fits(t) => HeaderOf(Header(NextGeneration, t), attempted' \cup {previous'})
    BY <1>1, <2>2 DEF HeaderOf
  <2>. QED  BY <1>3, <2>1, <2>3, DerivedHeaders, Zenon
<1>4. ASSUME active' # NoSlot, ~clobbered' PROVE HoldsPrevious'
  <2>1. ~clobbered /\ ~touched /\ ~touched'
    BY <1>1, <1>4, Zenon DEF HistoryInv
  <2>2. disk' = disk
    BY <2>1, Zenon DEF StaysPut
  <2>3. HoldsPrevious
    BY <1>1, <1>4, <2>1 DEF HistoryInv
  <2>. QED  BY <1>1, <2>2, <2>3 DEF HoldsPrevious
<1>. QED  BY <1>1, <1>2, <1>3, <1>4 DEF HistoryInv, StaysPut

\* When the active slot moves, the one it leaves holds the tree committed until then.
LEMMA MoveHistory ==
    ASSUME StoreInv, StoreInv', HistoryInv, Moves, TrackHistory
    PROVE  HistoryInv'
<1>1. /\ active' # active /\ active' \in Slots /\ (active = NoSlot => active' = 0)
      /\ view' = view /\ disk' = view /\ touched' = FALSE
      /\ previous' = committed /\ clobbered' = FALSE
  BY Zenon DEF Moves, TrackHistory
<1>2. Stored(view, active, generation, committed) /\ active \in Slots \cup {NoSlot}
  BY SMTT(30) DEF StoreInv, TypeOK
<1>3. \A s \in Slots : view[SlotStart(s)] # ForeignHeader
  BY <1>1, DeviceAssumption, Zenon DEF StoreInv
<1>4. HoldsPrevious'
  <2>1. ASSUME NEW s \in Slots, s # active'
        PROVE  \/ previous' = NoTree /\ disk'[SlotStart(s)] \in Blocks
               \/ /\ previous' \in Trees /\ Fits(previous') /\ HoldsPayload(disk', s, previous')
                  /\ \E g \in 1 .. MaxGeneration : disk'[SlotStart(s)] = Header(g, previous')
    <3>1. CASE active = NoSlot
      <4>1. s = 1
        BY <1>1, <2>1, <3>1, SMTT(30) DEF Slots
      <4>. QED  BY <1>1, <1>2, <1>3, <3>1, <4>1 DEF Stored
    <3>2. CASE active # NoSlot
      <4>1. s = active
        BY <1>1, <1>2, <2>1, <3>2 DEF Slots
      <4>. QED  BY <1>1, <1>2, <3>2, <4>1, Zenon DEF Stored
    <3>. QED  BY <3>1, <3>2, SMTT(30)
  <2>. QED  BY <2>1 DEF HoldsPrevious
<1>5. ASSUME NEW s \in Slots, s # active'
      PROVE  HeaderOf(disk'[SlotStart(s)], attempted' \cup {previous'})
  BY <1>4, <1>5 DEF HoldsPrevious, HeaderOf
<1>6. clobbered' \in BOOLEAN /\ ~touched' /\ view' = disk'
  BY <1>1, Zenon
<1>. QED  BY <1>4, <1>5, <1>6, Zenon DEF HistoryInv

\* The two invariants together, of every behaviour with the history variables.
THEOREM FallbackInvariant == FallbackSpec => [](StoreInv /\ HistoryInv)
<1>1. FInit => StoreInv /\ HistoryInv
  BY InitStores, InitHistory DEF FInit
<1>2. StoreInv /\ HistoryInv /\ [FNext]_fvars => StoreInv' /\ HistoryInv'
  <2>. SUFFICES ASSUME StoreInv, HistoryInv, [FNext]_fvars PROVE StoreInv' /\ HistoryInv'
    OBVIOUS
  <2>1. CASE FNext
    <3>1. StoreInv' /\ (StaysPut \/ Moves)
      BY <2>1, NextStores DEF FNext
    <3>. QED  BY <2>1, <3>1, PutHistory, MoveHistory DEF FNext
  <2>2. CASE UNCHANGED fvars
    <3>1. StoreInv'
      BY <2>2, NextStores DEF fvars
    <3>2. HistoryInv'
      BY <2>2, Zenon DEF HistoryInv, HoldsPrevious, fvars, vars, store, history
    <3>. QED  BY <3>1, <3>2
  <2>. QED  BY <2>1, <2>2
<1>. QED  BY <1>1, <1>2, PTL DEF FallbackSpec

\* Whatever the generations, open recovers the acknowledged tree, the one before it or one
\* whose save was begun (save: saturating_add; open: the tie goes to slot 0).
THEOREM OneSaveAtMost == FallbackSpec => []LosesAtMostOne
<1>1. ASSUME StoreInv, HistoryInv PROVE LosesAtMostOne
  <2>1. Stored(disk, active, generation, committed) /\ active \in Slots \cup {NoSlot}
    BY <1>1 DEF StoreInv, TypeOK
  <2>2. /\ Selected(disk) \in Slots \cup {NoSlot}
        /\ Selected(disk) = NoSlot => active = NoSlot
        /\ Selected(disk) # NoSlot => Intact(disk, Selected(disk))
    BY <2>1, SelectedFacts, SMTT(30)
  <2>3. CASE Selected(disk) = NoSlot
    BY <2>1, <2>2, <2>3, ZenonT(30) DEF LosesAtMostOne, Recovered, Stored
  <2>4. CASE Selected(disk) # NoSlot /\ Selected(disk) = active
    BY <2>1, <2>4, StoredReads, Zenon DEF LosesAtMostOne, Recovered
  <2>5. CASE Selected(disk) # NoSlot /\ Selected(disk) # active
    <3>1. PICK s \in Slots : s = Selected(disk)
      BY <2>2, <2>5, SMTT(30)
    <3>2. HeaderOf(disk[SlotStart(s)], attempted \cup {previous}) /\ Intact(disk, s)
      BY <1>1, <2>2, <2>5, <3>1 DEF HistoryInv
    <3>3. PICK g \in 1 .. MaxGeneration, t \in Trees \cap (attempted \cup {previous}) :
              disk[SlotStart(s)] = Header(g, t) /\ Fits(t)
      BY <3>2, IntactHeader, Zenon DEF HeaderOf
    <3>4. \A i \in 1 .. Available : disk[SlotStart(s) + i] \in Blocks
      BY <2>1, Geometry, Zenon DEF Stored
    <3>5. SlotTree(disk, s) = t
      BY <3>2, <3>3, <3>4, IntactReads
    <3>. QED  BY <2>5, <3>1, <3>3, <3>5 DEF LosesAtMostOne, Recovered
  <2>. QED  BY <2>3, <2>4, <2>5
<1>. QED  BY <1>1, FallbackInvariant, PTL

\* Any block of the device may have the contents of a payload block.
LEMMA PayloadContents == \A x \in Blocks : x \in Contents
  BY DEF Contents

\* A payload of the active slot that is damaged fails its checksum, and the other slot is
\* read as before; with other padding the active slot is read as before too.
LEMMA DamagedReads ==
    ASSUME StoreInv, HistoryInv, active # NoSlot, ~clobbered, NEW d \in Damaged(disk)
    PROVE  /\ ~Rejected(d)
           /\ Recovered(d) = IF ReadPayload(d, active) = ReadPayload(disk, active)
                             THEN Recovered(disk) ELSE previous
<1>0. Stored(disk, active, generation, committed) /\ HoldsPrevious
  BY SMTT(30) DEF StoreInv, HistoryInv
<1>1. /\ active \in Slots /\ disk \in [Addresses -> Contents]
      /\ generation \in 1 .. MaxGeneration /\ committed \in Trees /\ Fits(committed)
      /\ disk[SlotStart(active)] = Header(generation, committed)
      /\ HoldsPayload(disk, active, committed)
      /\ \A s \in Slots : disk[SlotStart(s)] # ForeignHeader
  <2>1. TypeOK /\ \A s \in Slots : disk[SlotStart(s)] # ForeignHeader
    BY Zenon DEF StoreInv
  <2>2. /\ generation \in 1 .. MaxGeneration /\ committed \in Trees /\ Fits(committed)
        /\ disk[SlotStart(active)] = Header(generation, committed)
        /\ HoldsPayload(disk, active, committed)
    BY <1>0, Zenon DEF Stored
  <2>3. active \in Slots /\ disk \in [Addresses -> Contents]
    BY <2>1, Zenon DEF TypeOK
  <2>. QED  BY <2>1, <2>2, <2>3, Zenon
<1>2. PICK q \in 1 .. Available : q = PayloadBlocks(Len(Encode[committed]))
  BY <1>1, FittingPayload, Zenon
<1>3. disk[SlotStart(active)].len = Len(Encode[committed])
  BY <1>1, HeaderFields
<1>4. PICK i \in 1 .. q, x \in Blocks : d = [disk EXCEPT ![SlotStart(active) + i] = x]
  BY <1>2, <1>3 DEF Damaged
<1>5. i \in 1 .. Available /\ SlotStart(active) + i \in Addresses
  <2>1. Available \in Nat
    BY Geometry
  <2>2. i \in 1 .. Available
    BY <1>2, <2>1
  <2>. QED  BY <1>1, <2>2, Geometry
<1>6. /\ d[SlotStart(active) + i] = x
      /\ \A y \in Addresses : y # SlotStart(active) + i => d[y] = disk[y]
  BY <1>1, <1>4, <1>5, SMTT(30)
<1>7. \A s \in Slots : d[SlotStart(s)] = disk[SlotStart(s)]
  BY <1>1, <1>5, <1>6, Geometry, SMTT(30)
<1>8. \A s \in Slots : \A j \in 1 .. Available :
          d[SlotStart(s) + j] \in Blocks /\ disk[SlotStart(s) + j] \in Blocks
  <2>1. \A s \in Slots : \A j \in 1 .. Available :
            disk[SlotStart(s) + j] \in Blocks /\ SlotStart(s) + j \in Addresses
    BY <1>0, Geometry, Zenon DEF Stored
  <2>. QED  BY <1>6, <2>1
<1>9. /\ Intact(disk, active) /\ ReadPayload(disk, active) = Encode[committed]
      /\ SlotTree(disk, active) = committed
  BY <1>1, <1>8, HoldsReads
<1>10. PICK o \in Slots : o # active /\ \A s \in Slots : s = o \/ s = active
  BY <1>1, SMTT(30) DEF Slots
<1>11. \A j \in 1 .. Available : d[SlotStart(o) + j] = disk[SlotStart(o) + j]
  BY <1>1, <1>5, <1>6, <1>10, Geometry
<1>12. \A s \in Slots : ~Unsupported(d, s)
  <2>1. d \in [Addresses -> Contents]
    <3>1. x \in Contents
      BY PayloadContents, Zenon
    <3>. QED  BY <1>1, <1>4, <3>1, Zenon
  <2>2. \A s \in Slots : d[SlotStart(s)] # ForeignHeader
    BY <1>1, <1>7, Zenon
  <2>. QED  BY <2>1, <2>2, SupportedHeader, Zenon
<1>13. \/ /\ previous = NoTree /\ ~Intact(d, o) /\ ~Intact(disk, o)
       \/ /\ previous \in Trees /\ Intact(d, o) /\ Intact(disk, o) /\ ~Undecodable(d, o)
          /\ SlotTree(d, o) = previous /\ SlotTree(disk, o) = previous
          /\ SlotGeneration(d, o) = SlotGeneration(disk, o)
  <2>1. CASE previous = NoTree /\ disk[SlotStart(o)] \in Blocks
    BY <1>7, <1>10, <2>1, IntactHeader
  <2>2. CASE /\ previous \in Trees /\ Fits(previous) /\ HoldsPayload(disk, o, previous)
             /\ \E g \in 1 .. MaxGeneration : disk[SlotStart(o)] = Header(g, previous)
    <3>1. PICK g \in 1 .. MaxGeneration :
              d[SlotStart(o)] = Header(g, previous) /\ disk[SlotStart(o)] = Header(g, previous)
      BY <1>7, <2>2, Zenon
    <3>2. HoldsPayload(d, o, previous)
      BY <1>11, <2>2, MergeHolds, Zenon
    <3>3. Intact(d, o) /\ SlotTree(d, o) = previous /\ SlotGeneration(d, o) = g
      BY <1>8, <2>2, <3>1, <3>2, HoldsReads, ZenonT(30)
    <3>4. Intact(disk, o) /\ SlotTree(disk, o) = previous /\ SlotGeneration(disk, o) = g
      BY <1>8, <2>2, <3>1, HoldsReads, ZenonT(30)
    <3>5. ~Undecodable(d, o)
      BY <1>8, <2>2, <3>1, <3>3, IntactReads, Zenon
    <3>. QED  BY <2>2, <3>3, <3>4, <3>5
  <2>. QED  BY <1>0, <1>10, <2>1, <2>2, Zenon DEF HoldsPrevious
<1>14. CASE ReadPayload(d, active) # ReadPayload(disk, active)
  <2>1. ~Intact(d, active)
    BY <1>1, <1>7, <1>8, <1>9, <1>14, IntactReads
  <2>2. \A s \in Slots : ~Undecodable(d, s)
    BY <1>10, <1>13, <2>1 DEF Undecodable
  <2>3. Recovered(d) = previous
    <3>1. CASE previous = NoTree /\ ~Intact(d, o)
      <4>1. Selected(d) = NoSlot
        BY <1>10, <2>1, <3>1 DEF Selected, Slots
      <4>. QED  BY <3>1, <4>1 DEF Recovered
    <3>2. CASE Intact(d, o) /\ SlotTree(d, o) = previous
      <4>1. Selected(d) = o
        BY <1>10, <2>1, <3>2 DEF Selected, Slots
      <4>. QED  BY <3>2, <4>1, DeviceAssumption DEF Recovered
    <3>. QED  BY <1>13, <3>1, <3>2
  <2>. QED  BY <1>12, <1>14, <2>2, <2>3, SMTT(30) DEF Rejected
<1>15. CASE ReadPayload(d, active) = ReadPayload(disk, active)
  <2>1. Intact(d, active)
    BY <1>1, <1>7, <1>9, <1>15, SMTT(30) DEF Intact, HasMagic, Unsupported
  <2>2. /\ SlotTree(d, active) = committed /\ ~Undecodable(d, active)
        /\ SlotGeneration(d, active) = SlotGeneration(disk, active)
    BY <1>1, <1>7, <1>8, <1>9, <2>1, IntactReads DEF SlotGeneration
  <2>3. \A s \in Slots : /\ Intact(d, s) <=> Intact(disk, s)
                         /\ SlotGeneration(d, s) = SlotGeneration(disk, s)
                         /\ Intact(d, s) => SlotTree(d, s) = SlotTree(disk, s) /\ ~Undecodable(d, s)
    <3>1. SlotGeneration(d, o) = SlotGeneration(disk, o)
      BY <1>7, <1>10, Zenon DEF SlotGeneration
    <3>2. /\ Intact(d, o) <=> Intact(disk, o)
          /\ Intact(d, o) => SlotTree(d, o) = SlotTree(disk, o) /\ ~Undecodable(d, o)
      BY <1>13, Zenon
    <3>3. /\ Intact(d, active) /\ Intact(disk, active) /\ ~Undecodable(d, active)
          /\ SlotTree(d, active) = SlotTree(disk, active)
      BY <1>9, <2>1, <2>2, Zenon
    <3>. QED  BY <1>10, <2>2, <3>1, <3>2, <3>3, ZenonT(30)
  <2>4. Selected(d) = Selected(disk) /\ (Selected(d) # NoSlot => Selected(d) \in Slots /\ Intact(d, Selected(d)))
    BY <2>3, Zenon DEF Selected, Slots
  <2>5. Recovered(d) = Recovered(disk)
    BY <2>3, <2>4 DEF Recovered
  <2>6. \A s \in Slots : ~Undecodable(d, s)
    BY <2>3 DEF Undecodable
  <2>. QED  BY <1>12, <1>15, <2>5, <2>6, SMTT(30) DEF Rejected
<1>. QED  BY <1>14, <1>15

\* Until a save is begun, open falls back to the snapshot before one with a damaged payload,
\* and does not notice damage to the padding (read_slot, open; the test
\* falls_back_to_previous_snapshot_when_latest_payload_is_damaged).
THEOREM DamageFallsBack == FallbackSpec => []FallsBack
<1>1. ASSUME StoreInv, HistoryInv PROVE FallsBack
  BY <1>1, DamagedReads DEF FallsBack
<1>. QED  BY <1>1, FallbackInvariant, PTL

=============================================================================
