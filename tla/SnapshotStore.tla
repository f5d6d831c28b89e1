--------------------------- MODULE SnapshotStore ---------------------------
(***************************************************************************)
(* crates/afos-storage: the two-slot snapshot store, over a block device   *)
(* with a volatile write cache.                                            *)
(*                                                                         *)
(* The device is cut into two slots of SlotBlocks blocks, a header block   *)
(* followed by the payload.  save writes the payload of the slot that is   *)
(* not in use, flushes, writes its header, flushes, and only then makes    *)
(* that slot the active one; open reads both slots and takes the valid one *)
(* with the greater generation.                                            *)
(*                                                                         *)
(* A payload is the sequence of bytes encode_tree yields for a tree (it is *)
(* never empty: the two entry counts are always there), padded with zeros  *)
(* to whole blocks; its length and its checksum, in the header, leave the  *)
(* padding out.  The checksum is uninterpreted; the proofs assume that it  *)
(* tells two payloads of the same length apart.  The device is external:   *)
(* it writes one block atomically, in any order with respect to the        *)
(* others, and may fail any request half-way.                              *)
(***************************************************************************)
EXTENDS Integers, Sequences

CONSTANTS
    BlockCount,     \* device.block_count()
    BlockSize,      \* BLOCK_SIZE
    Blocks,         \* contents of payload blocks, and of blocks without the magic
    Zero,           \* the all-zero block
    Trees,          \* the FileTree values that are saved
    Encode,         \* Trees -> sequences of bytes: encode_tree
    Checksum(_),    \* sequence of bytes -> FNV-1a
    MaxGeneration,  \* u64::MAX
    SaveBound,      \* bound: no save is begun at this generation or above
    NoTree,         \* Option::<FileTree>::None
    NoSlot          \* Option::<u64>::None

Slots == {0, 1}
SlotBlocks == BlockCount \div 2
Available == SlotBlocks - 1
FormatVersion == 1
Addresses == 0 .. BlockCount - 1

SlotStart(s) == s * SlotBlocks

\* The blocks of a payload of n bytes (div_ceil), and where in them byte i is.
PayloadBlocks(n) == (n + BlockSize - 1) \div BlockSize
BlockOf(i) == 1 + ((i - 1) \div BlockSize)
PlaceOf(i) == 1 + ((i - 1) % BlockSize)

\* Block k of a payload padded with zeros.
Padded(payload, k) ==
    [bytes |-> [j \in 1 .. BlockSize |->
        LET i == (k - 1) * BlockSize + j IN IF i <= Len(payload) THEN payload[i] ELSE 0]]

\* The first n bytes of some blocks.
Payloads(n) ==
    {[i \in 1 .. n |-> blocks[BlockOf(i)].bytes[PlaceOf(i)]] :
        blocks \in [1 .. PayloadBlocks(n) -> Blocks]}

ASSUME DeviceAssumption ==
    /\ BlockCount \in Nat /\ SlotBlocks >= 2    \* otherwise open: DeviceTooSmall
    /\ BlockSize \in Nat \ {0}
    /\ Zero \in Blocks
    /\ NoSlot \notin Slots
ASSUME TreeAssumption ==
    /\ NoTree \notin Trees
    /\ \A t \in Trees : /\ Len(Encode[t]) \in Nat \ {0}
                        /\ Encode[t] \in [1 .. Len(Encode[t]) -> Nat]
                        /\ \A k \in 1 .. PayloadBlocks(Len(Encode[t])) : Padded(Encode[t], k) \in Blocks
    /\ \A t, u \in Trees : Encode[t] = Encode[u] => t = u
ASSUME ChecksumAssumption ==
    \A n \in 1 .. Available * BlockSize : \A p, q \in Payloads(n) :
        Checksum(p) = Checksum(q) => p = q
ASSUME GenerationAssumption ==
    MaxGeneration \in Nat \ {0} /\ SaveBound \in Nat

VARIABLES
    view,       \* what reading each block returns now
    disk,       \* what each block would hold after a power loss
    pc,         \* "off" | "halted" | "idle" | "written" | "flushed" | "header"
    active,     \* active_slot
    generation, \* generation
    tree,       \* the argument of the save in progress, else NoTree
    reply,      \* what the last call returned: "none" | "ok" | "error"
    \* History, for the properties only:
    committed,  \* the tree last recovered by open or acknowledged by save
    attempted,  \* trees whose save was begun since the last acknowledged save
    touched     \* a save was begun since the last open or acknowledged save

store == <<pc, active, generation, tree, reply>>
history == <<committed, attempted, touched>>
vars == <<view, disk, store, history>>

\* encode_header.
Header(g, t) ==
    [version |-> FormatVersion, generation |-> g,
     len |-> Len(Encode[t]), sum |-> Checksum(Encode[t])]

\* A header left by another release of the program.
ForeignHeader == [version |-> FormatVersion + 1]

\* Blocks are the contents without the magic, which every header carries.
ASSUME HeaderAssumption ==
    /\ ForeignHeader \notin Blocks
    /\ \A g \in 1 .. MaxGeneration, t \in Trees : Header(g, t) \notin Blocks

-----------------------------------------------------------------------------
(***************************************************************************)
(* read_slot, of device contents d.                                        *)
(***************************************************************************)

\* The magic is there.
HasMagic(d, s) == d[SlotStart(s)] \notin Blocks

Unsupported(d, s) == HasMagic(d, s) /\ d[SlotStart(s)].version # FormatVersion

\* &padded[..payload_len]: what is read, without the padding.
ReadPayload(d, s) ==
    [i \in 1 .. d[SlotStart(s)].len |-> d[SlotStart(s) + BlockOf(i)].bytes[PlaceOf(i)]]

\* Mutation: the checksum is not compared.
Intact_Unchecked(d, s) ==
    /\ HasMagic(d, s) /\ ~Unsupported(d, s)
    /\ PayloadBlocks(d[SlotStart(s)].len) <= Available

\* read_slot gets past the checksum.
Intact(d, s) ==
    /\ HasMagic(d, s) /\ ~Unsupported(d, s)
    /\ PayloadBlocks(d[SlotStart(s)].len) <= Available
    /\ Checksum(ReadPayload(d, s)) = d[SlotStart(s)].sum

\* decode_tree rejects what the checksum accepted.
Undecodable(d, s) == Intact(d, s) /\ \A t \in Trees : Encode[t] # ReadPayload(d, s)

SlotTree(d, s) == CHOOSE t \in Trees : Encode[t] = ReadPayload(d, s)
SlotGeneration(d, s) == d[SlotStart(s)].generation

\* Mutation: a slot of another version is skipped instead of refused.
Rejected_IgnoresVersion(d) == \E s \in Slots : Undecodable(d, s)

\* Mutation: a checksum mismatch is an error instead of an absent snapshot.
Rejected_Corrupt(d) == \E s \in Slots : HasMagic(d, s) /\ ~Intact(d, s)

\* open: some slot makes read_slot return Err.
Rejected(d) == \E s \in Slots : Unsupported(d, s) \/ Undecodable(d, s)

\* Mutation: the first valid slot wins.
Selected_First(d) == IF Intact(d, 0) THEN 0 ELSE IF Intact(d, 1) THEN 1 ELSE NoSlot

\* open: the match on (first, second).
Selected(d) ==
    IF Intact(d, 1) /\ (Intact(d, 0) => SlotGeneration(d, 1) > SlotGeneration(d, 0))
    THEN 1
    ELSE IF Intact(d, 0) THEN 0 ELSE NoSlot

Recovered(d) == IF Selected(d) = NoSlot THEN NoTree ELSE SlotTree(d, Selected(d))

-----------------------------------------------------------------------------
(***************************************************************************)
(* The block device (external).  A successful write is seen by reads at    *)
(* once and reaches the medium at some later moment, block by block; flush *)
(* makes everything written durable.                                       *)
(***************************************************************************)

Dirty == {a \in Addresses : view[a] # disk[a]}

Writeback(a) ==
    /\ view[a] # disk[a]
    /\ disk' = [disk EXCEPT ![a] = view[a]]
    /\ UNCHANGED <<view, store, history>>

\* flush returns Ok.
Flushed == disk' = view /\ UNCHANGED view

\* flush returns Err: what was cached may be lost, kept, or already written.
FlushFails ==
    /\ \E lost \in SUBSET Dirty :
           view' = [a \in Addresses |-> IF a \in lost THEN disk[a] ELSE view[a]]
    /\ UNCHANGED disk

\* The cache is lost, and the program with it.
PowerLoss ==
    /\ view' = disk
    /\ pc' = "off"
    /\ tree' = NoTree
    /\ reply' = "none"
    /\ UNCHANGED <<disk, active, generation, history>>

-----------------------------------------------------------------------------
(***************************************************************************)
(* open.                                                                   *)
(***************************************************************************)

Open ==
    /\ pc = "off"
    /\ ~Rejected(view)
    /\ active' = Selected(view)
    /\ generation' = IF Selected(view) = NoSlot THEN 0 ELSE SlotGeneration(view, Selected(view))
    /\ pc' = "idle"
    /\ committed' = Recovered(view)
    /\ touched' = FALSE
    /\ UNCHANGED <<view, disk, tree, reply, attempted>>

\* A read fails, or a slot is rejected: open returns Err and the boot stops there.
OpenFails ==
    /\ pc = "off"
    /\ pc' = "halted"
    /\ reply' = "error"
    /\ UNCHANGED <<view, disk, active, generation, tree, history>>

-----------------------------------------------------------------------------
(***************************************************************************)
(* save, cut at its four device requests.                                  *)
(***************************************************************************)

\* Mutation: the active slot is overwritten in place.
Target_InPlace == IF active = NoSlot THEN 0 ELSE active

Target == IF active = NoSlot THEN 0 ELSE 1 - active
NextGeneration == IF generation < MaxGeneration THEN generation + 1 ELSE generation

Fits(t) == PayloadBlocks(Len(Encode[t])) <= Available

\* The blocks "done" of t's payload are in the target slot.
PayloadWritten(t, done) ==
    [a \in Addresses |->
        LET k == a - SlotStart(Target) IN IF k \in done THEN Padded(Encode[t], k) ELSE view[a]]

Return(outcome) ==
    /\ pc' = "idle"
    /\ tree' = NoTree
    /\ reply' = outcome

SaveTooLarge(t) ==
    /\ pc = "idle"
    /\ ~Fits(t)
    /\ Return("error")
    /\ UNCHANGED <<view, disk, active, generation, history>>

\* write_blocks(slot_start + 1, &padded): all of it, or some of it and Err.
SaveWritePayload(t) ==
    /\ pc = "idle" /\ generation < SaveBound
    /\ Fits(t)
    /\ \/ /\ view' = PayloadWritten(t, 1 .. PayloadBlocks(Len(Encode[t])))
          /\ pc' = "written" /\ tree' = t /\ reply' = "none"
       \/ /\ \E done \in SUBSET (1 .. PayloadBlocks(Len(Encode[t]))) :
                 view' = PayloadWritten(t, done)
          /\ Return("error")
    /\ attempted' = attempted \cup {t}
    /\ touched' = TRUE
    /\ UNCHANGED <<disk, active, generation, committed>>

\* Mutation: the header is written without waiting for the payload.
SaveFlushPayload_Skipped ==
    /\ pc = "written"
    /\ pc' = "flushed"
    /\ UNCHANGED <<view, disk, tree, reply, active, generation, history>>

SaveFlushPayload ==
    /\ pc = "written"
    /\ \/ Flushed /\ pc' = "flushed" /\ UNCHANGED <<tree, reply>>
       \/ FlushFails /\ Return("error")
    /\ UNCHANGED <<active, generation, history>>

SaveWriteHeader ==
    /\ pc = "flushed"
    /\ \/ /\ view' = [view EXCEPT ![SlotStart(Target)] = Header(NextGeneration, tree)]
          /\ \/ pc' = "header" /\ UNCHANGED <<tree, reply>>
             \/ Return("error")
       \/ UNCHANGED view /\ Return("error")
    /\ UNCHANGED <<disk, active, generation, history>>

\* Mutation: the save is acknowledged without the second flush.
SaveFlushHeader_Skipped ==
    /\ pc = "header"
    /\ active' = Target
    /\ generation' = NextGeneration
    /\ Return("ok")
    /\ committed' = tree /\ attempted' = {} /\ touched' = FALSE
    /\ UNCHANGED <<view, disk>>

SaveFlushHeader ==
    /\ pc = "header"
    /\ \/ /\ Flushed
          /\ active' = Target
          /\ generation' = NextGeneration
          /\ Return("ok")
          /\ committed' = tree /\ attempted' = {} /\ touched' = FALSE
       \/ FlushFails /\ Return("error") /\ UNCHANGED <<active, generation, history>>

-----------------------------------------------------------------------------

Init ==
    /\ \E h \in [Slots -> {Zero, ForeignHeader}] :
           disk = [a \in Addresses |->
                      IF a = SlotStart(0) THEN h[0] ELSE IF a = SlotStart(1) THEN h[1] ELSE Zero]
    /\ view = disk
    /\ pc = "off" /\ active = NoSlot /\ generation = 0 /\ tree = NoTree /\ reply = "none"
    /\ committed = NoTree /\ attempted = {} /\ touched = FALSE

Next ==
    \/ Open \/ OpenFails
    \/ \E t \in Trees : SaveTooLarge(t) \/ SaveWritePayload(t)
    \/ SaveFlushPayload \/ SaveWriteHeader \/ SaveFlushHeader
    \/ \E a \in Addresses : Writeback(a)
    \/ PowerLoss

Spec == Init /\ [][Next]_vars

-----------------------------------------------------------------------------
(***************************************************************************)
(* Properties.                                                             *)
(***************************************************************************)

Contents == Blocks \cup {ForeignHeader} \cup
            {Header(g, t) : g \in 1 .. MaxGeneration, t \in Trees}
Running == pc \notin {"off", "halted"}

\* Types of the device contents, of SnapshotStore's fields and of the save in progress.
TypeOK ==
    /\ view \in [Addresses -> Contents] /\ disk \in [Addresses -> Contents]
    /\ pc \in {"off", "halted", "idle", "written", "flushed", "header"}
    /\ active \in Slots \cup {NoSlot}
    /\ generation \in 0 .. MaxGeneration
    /\ tree \in Trees \cup {NoTree}
    /\ (tree # NoTree) <=> pc \in {"written", "flushed", "header"}
    /\ reply \in {"none", "ok", "error"}
    /\ committed \in Trees \cup {NoTree}
    /\ attempted \subseteq Trees
    /\ touched \in BOOLEAN

\* Whenever power is lost, open finds the tree last acknowledged or recovered,
\* or, only if a save was begun after that, one whose save did not return Ok
\* since the last acknowledgement (open, save).
RecoverySafe ==
    Recovered(disk) \in {committed} \cup (IF touched THEN attempted ELSE {})

\* Once a tree has been acknowledged or recovered, no failure, torn write or
\* power loss leaves the device without a snapshot that open accepts, even when
\* the generation counter has saturated (save, saturating_add).
AlwaysRecoverable ==
    committed # NoTree => Selected(disk) # NoSlot /\ ~Rejected(disk)

\* No torn or interrupted save makes decode_tree fail on a payload that passes
\* the checksum, which would make open give up both slots (read_slot).
NeverUndecodable == \A s \in Slots : ~Undecodable(disk, s)

\* A device that carries a slot of another format version is never written:
\* open refuses it before save can reuse a slot.
ForeignUntouched ==
    [][(\E s \in Slots : Unsupported(disk, s)) => disk' = disk]_disk

\* What the store promises to the platform.
Register == INSTANCE RecoverableRegister WITH online <- Running, pending <- tree

\* Every behaviour of the store is one of a register that survives power loss.
ImplementsRegister == Register!Spec

-----------------------------------------------------------------------------
(***************************************************************************)
(* The inductive invariant.                                                *)
(***************************************************************************)

\* Slot s of d carries t's payload, whatever pads it.
HoldsPayload(d, s, t) ==
    \A i \in 1 .. Len(Encode[t]) :
        d[SlotStart(s) + BlockOf(i)].bytes[PlaceOf(i)] = Encode[t][i]

\* The header of an inactive slot is blank, or of another release, or older than
\* the active one, or newer and then of a tree that was attempted.
InactiveHeader(h, gen, att) ==
    \/ h \in Blocks \cup {ForeignHeader}
    \/ \E g \in 1 .. MaxGeneration, t \in Trees :
           h = Header(g, t) /\ Fits(t) /\ (g < gen \/ (g > gen /\ t \in att))

\* d is a device on which slot act, of generation gen, holds the tree com.
Consistent(d, act, gen, com, att) ==
    /\ \A x \in Addresses : (\A s \in Slots : x # SlotStart(s)) => d[x] \in Blocks
    /\ \A s \in Slots : s # act => InactiveHeader(d[SlotStart(s)], gen, att)
    /\ act = NoSlot => gen = 0 /\ com = NoTree /\ d[SlotStart(1)] \in Blocks \cup {ForeignHeader}
    /\ act # NoSlot => /\ gen \in 1 .. MaxGeneration /\ com \in Trees /\ Fits(com)
                       /\ d[SlotStart(act)] = Header(gen, com)
                       /\ HoldsPayload(d, act, com)

\* Both what reads return and what a power loss would leave are consistent; they
\* differ only inside a session in which a save was begun.  During a save the target
\* slot holds the payload in the cache, from the first flush on the medium too, and
\* from the second write on its header in the cache.
IInv ==
    /\ TypeOK
    /\ Consistent(view, active, generation, committed, attempted)
    /\ Consistent(disk, active, generation, committed, attempted)
    /\ (~Running \/ ~touched) => view = disk
    /\ ~touched => Selected(disk) = active
    /\ Running \/ active # NoSlot =>
           \A s \in Slots : view[SlotStart(s)] # ForeignHeader /\ disk[SlotStart(s)] # ForeignHeader
    /\ tree # NoTree => /\ touched /\ tree \in attempted /\ Fits(tree) /\ generation < SaveBound
                        /\ HoldsPayload(view, Target, tree)
    /\ pc \in {"flushed", "header"} => HoldsPayload(disk, Target, tree)
    /\ pc = "header" => view[SlotStart(Target)] = Header(generation + 1, tree)

=============================================================================
