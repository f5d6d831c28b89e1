--------------------------- MODULE SnapshotFaults ---------------------------
(***************************************************************************)
(* The snapshot store under two faults that a power loss does not cover: a *)
(* damaged payload block, and a reset that the device's cache survives.    *)
(***************************************************************************)
EXTENDS SnapshotStore

VARIABLES
    previous,       \* the tree committed when the active slot last changed
    clobbered,      \* a save was begun since then: the other slot may be half-written
    acknowledged    \* some save has returned Ok

fvars == <<vars, previous, clobbered, acknowledged>>

FInit == Init /\ previous = NoTree /\ clobbered = FALSE /\ acknowledged = FALSE

\* Whenever the active slot changes, the slot it leaves still holds the tree that
\* was committed until then.
TrackHistory ==
    /\ acknowledged' = (acknowledged \/ reply' = "ok")
    /\ previous' = IF active' # active THEN committed ELSE previous
    /\ clobbered' = IF active' # active THEN FALSE ELSE clobbered \/ touched'

FNext == Next /\ TrackHistory
FallbackSpec == FInit /\ [][FNext]_fvars

\* One payload block of the active slot reads back as something else.
Damaged(d) ==
    {[d EXCEPT ![SlotStart(active) + k] = x] :
        k \in 1 .. PayloadBlocks(d[SlotStart(active)].len), x \in Blocks}

\* While no save has been begun since the newest snapshot was acknowledged, damage to one
\* of its payload blocks makes open return the snapshot before it, unless only the padding
\* is damaged: then open returns what it returned before
\* (read_slot, open; the test falls_back_to_previous_snapshot_when_latest_payload_is_damaged).
FallsBack ==
    active # NoSlot /\ ~clobbered =>
        \A d \in Damaged(disk) :
            /\ ~Rejected(d)
            /\ Recovered(d) = IF ReadPayload(d, active) = ReadPayload(disk, active)
                              THEN Recovered(disk) ELSE previous

\* When the generation counter has saturated, both slots carry the same generation
\* and open may return an older tree than the acknowledged one, but never by more
\* than one save, and never nothing (save: saturating_add; open: the tie goes to
\* slot 0).
LosesAtMostOne == Recovered(disk) \in {committed, previous} \cup attempted

-----------------------------------------------------------------------------
(***************************************************************************)
(* The inductive invariants, which hold whether or not the generation      *)
(* counter has saturated.                                                  *)
(***************************************************************************)

\* h is blank, or of another release, or encode_header's for one of the trees.
HeaderOf(h, trees) ==
    \/ h \in Blocks \cup {ForeignHeader}
    \/ \E g \in 1 .. MaxGeneration, t \in Trees \cap trees : h = Header(g, t) /\ Fits(t)

\* d is a device on which slot act, of generation gen, holds the tree com, and the other
\* slot anything that a save may have left there.
Stored(d, act, gen, com) ==
    /\ \A x \in Addresses : (\A s \in Slots : x # SlotStart(s)) => d[x] \in Blocks
    /\ \A s \in Slots : HeaderOf(d[SlotStart(s)], Trees)
    /\ act = NoSlot => gen = 0 /\ com = NoTree /\ d[SlotStart(1)] \in Blocks \cup {ForeignHeader}
    /\ act # NoSlot => /\ gen \in 1 .. MaxGeneration /\ com \in Trees /\ Fits(com)
                       /\ d[SlotStart(act)] = Header(gen, com)
                       /\ HoldsPayload(d, act, com)

\* The part of IInv that does not order the generations of the two slots.
StoreInv ==
    /\ TypeOK
    /\ Stored(view, active, generation, committed)
    /\ Stored(disk, active, generation, committed)
    /\ (~Running \/ ~touched) => view = disk
    /\ Running \/ active # NoSlot =>
           \A s \in Slots : view[SlotStart(s)] # ForeignHeader /\ disk[SlotStart(s)] # ForeignHeader
    /\ tree # NoTree => /\ touched /\ tree \in attempted /\ Fits(tree)
                        /\ HoldsPayload(view, Target, tree)
    /\ pc = "header" => view[SlotStart(Target)] = Header(NextGeneration, tree)

\* The slot that is not active holds the tree committed before, or never held one.
HoldsPrevious ==
    \A s \in Slots : s # active =>
        \/ previous = NoTree /\ disk[SlotStart(s)] \in Blocks
        \/ /\ previous \in Trees /\ Fits(previous) /\ HoldsPayload(disk, s, previous)
           /\ \E g \in 1 .. MaxGeneration : disk[SlotStart(s)] = Header(g, previous)

\* Where the header of the slot that is not active comes from, and its payload until a
\* save is begun.
HistoryInv ==
    /\ clobbered \in BOOLEAN /\ (touched => clobbered)
    /\ \A s \in Slots : s # active =>
           /\ HeaderOf(view[SlotStart(s)], attempted \cup {previous})
           /\ HeaderOf(disk[SlotStart(s)], attempted \cup {previous})
    /\ active # NoSlot /\ ~clobbered => HoldsPrevious

-----------------------------------------------------------------------------

\* A reset that the device, and hence its cache, survives: open then reads
\* blocks that are not on the medium yet.
WarmReset ==
    /\ Running
    /\ pc' = "off"
    /\ tree' = NoTree
    /\ reply' = "none"
    /\ UNCHANGED <<view, disk, active, generation, history>>

WarmNext == (Next \/ WarmReset) /\ TrackHistory
WarmSpec == FInit /\ [][WarmNext]_fvars

\* The store is "an atomic two-slot snapshot store" (docs/BARE_METAL.md): a save
\* that is interrupted leaves the previous snapshot or the new one on the medium,
\* whatever kind of reset interrupts it (open does not flush what it recovers).
AtomicAcrossResets == acknowledged => Selected(disk) # NoSlot
=============================================================================
