------------------------------- MODULE Memory -------------------------------
(***************************************************************************)
(* The kernel heap (initialize_heap in platforms/bare-metal/src/main.rs)   *)
(* and the bounce buffers through which the VirtIO drivers exchange data   *)
(* with their devices (KernelHal in memory.rs).                            *)
(*                                                                         *)
(* Physical memory is an array of pages that the boot loader maps at HHDM  *)
(* and above.  An allocation takes one page of the heap, whatever its      *)
(* size; the allocator (external) may return any that is free.  A driver   *)
(* shares a buffer, the device reads or writes what it was given the       *)
(* address of, and the driver then takes the buffer back.                  *)
(***************************************************************************)
EXTENDS Integers, Sequences

CONSTANTS
    PageSize,       \* PAGE_SIZE
    MinHeapSize, MaxHeapSize,
    U64Top,         \* u64::MAX
    HHDM,           \* HHDM_OFFSET
    ExecutableVirtual, ExecutablePhysical,  \* the kernel image; 0 if not provided
    MemoryMaps,     \* memory maps: sequences of regions (base, length, usable)
    Buffers,        \* the buffers that drivers share
    Contents,       \* what a buffer may hold
    Blank           \* zeroed memory

ASSUME MemoryAssumption ==
    /\ PageSize \in Nat \ {0} /\ U64Top \in Nat /\ HHDM \in Nat \ {0}
    /\ MinHeapSize \in Nat \ {0} /\ MaxHeapSize \in Nat /\ MinHeapSize <= MaxHeapSize
    /\ ExecutableVirtual \in Nat /\ ExecutablePhysical \in Nat
    /\ Blank \in Contents

\* The boot loader maps all memory, and the kernel image above that.
ASSUME MapAssumption ==
    \A map \in MemoryMaps : \A i \in DOMAIN map :
        /\ i \in Nat
        /\ map[i].base \in Nat /\ map[i].length \in Nat /\ map[i].usable \in BOOLEAN
        /\ map[i].base + map[i].length + HHDM <= U64Top
        /\ ExecutableVirtual # 0 => map[i].base + map[i].length + HHDM <= ExecutableVirtual

VARIABLES
    heap,       \* the region given to the allocator: its address and length, or NoHeap
    ram,        \* the contents of the pages in use, by physical address
    rings,      \* the addresses of the queues that devices were given
    shared      \* each buffer: how far it is, and what its driver and its device have

memory == <<heap, ram, rings, shared>>

NoHeap == [physical |-> 0, length |-> 0]
None == -1      \* Option::None, of an address

-----------------------------------------------------------------------------
(***************************************************************************)
(* initialize_heap.                                                         *)
(***************************************************************************)

RoundDown(n) == n - (n % PageSize)
Smallest(m, n) == IF m <= n THEN m ELSE n

Aligned(region) == RoundDown(region.base + (PageSize - 1))
Skipped(region) == Aligned(region) - region.base

Space(region) == RoundDown(region.length - Skipped(region))

\* The filters: usable, no checked operation overflows, and large enough.
Suitable(region) ==
    /\ region.usable
    /\ region.base + (PageSize - 1) <= U64Top
    /\ Skipped(region) <= region.length
    /\ Space(region) >= MinHeapSize

HeapOf(region) ==
    [physical |-> Aligned(region), length |-> Smallest(Space(region), MaxHeapSize)]

\* max_by_key: of the longest the last one.
Preferred(map, i) ==
    /\ Suitable(map[i])
    /\ \A j \in DOMAIN map : Suitable(map[j]) =>
           \/ HeapOf(map[j]).length < HeapOf(map[i]).length
           \/ HeapOf(map[j]).length = HeapOf(map[i]).length /\ j <= i

-----------------------------------------------------------------------------
(***************************************************************************)
(* Addresses.                                                              *)
(***************************************************************************)

PhysToVirt(address) == IF address + HHDM <= U64Top THEN address + HHDM ELSE None

VirtToPhys(address) ==
    IF ExecutableVirtual # 0 /\ address >= ExecutableVirtual
    THEN IF address - ExecutableVirtual + ExecutablePhysical <= U64Top
         THEN address - ExecutableVirtual + ExecutablePhysical ELSE None
    ELSE IF address >= HHDM THEN address - HHDM ELSE None

\* The page behind a virtual address of the direct map: what the hardware makes of it.
Backing(address) == address - HHDM

\* The pages of the heap that the allocator (external) may return.
FreePages ==
    {p \in heap.physical .. heap.physical + heap.length - PageSize :
        (p - heap.physical) % PageSize = 0} \ DOMAIN ram

Allocated(page, data) == [p \in DOMAIN ram \cup {page} |-> IF p = page THEN data ELSE ram[p]]
Freed(page) == [p \in DOMAIN ram \ {page} |-> ram[p]]

-----------------------------------------------------------------------------
(***************************************************************************)
(* KernelHal.                                                              *)
(***************************************************************************)

\* dma_alloc, for the queue of a driver that starts.
DmaAlloc(page) ==
    /\ ram' = Allocated(page, Blank)
    /\ rings' = rings \cup {VirtToPhys(page + HHDM)}
    /\ UNCHANGED <<heap, shared>>

\* dma_dealloc, when a driver is dropped.
DmaDealloc(ring) ==
    /\ ram' = Freed(Backing(PhysToVirt(ring)))
    /\ rings' = rings \ {ring}
    /\ UNCHANGED <<heap, shared>>

Waiting == [stage |-> "driver", direction |-> "out", data |-> Blank, address |-> 0, device |-> Blank]
InFlight(b) == shared[b].stage \in {"shared", "served"}

\* share: "out" is DriverToDevice, "in" DeviceToDriver.
Share(b, direction, data, page) ==
    /\ ~InFlight(b)
    /\ ram' = Allocated(page, IF direction = "out" THEN data ELSE Blank)
    /\ shared' = [shared EXCEPT ![b] =
          [stage |-> "shared", direction |-> direction, data |-> data,
           address |-> VirtToPhys(page + HHDM), device |-> Blank]]
    /\ UNCHANGED <<heap, rings>>

\* The device (external) reads or writes at the address it was given.
Serve(b, data) ==
    /\ shared[b].stage = "shared"
    /\ IF shared[b].direction = "out"
       THEN data = ram[shared[b].address] /\ UNCHANGED ram
       ELSE ram' = [ram EXCEPT ![shared[b].address] = data]
    /\ shared' = [shared EXCEPT ![b].stage = "served", ![b].device = data]
    /\ UNCHANGED <<heap, rings>>

\* Mutation: the buffer is released before its contents are copied back.
Unshare_FreesFirst(b) ==
    LET page == Backing(PhysToVirt(shared[b].address)) IN
    /\ shared[b].stage = "served"
    /\ shared' = [shared EXCEPT ![b].stage = "done",
                       ![b].data = IF shared[b].direction = "in" THEN Blank ELSE @]
    /\ ram' = Freed(page)
    /\ UNCHANGED <<heap, rings>>

Unshare(b) ==
    LET page == Backing(PhysToVirt(shared[b].address)) IN
    /\ shared[b].stage = "served"
    /\ shared' = [shared EXCEPT ![b].stage = "done",
                       ![b].data = IF shared[b].direction = "in" THEN ram[page] ELSE @]
    /\ ram' = Freed(page)
    /\ UNCHANGED <<heap, rings>>

-----------------------------------------------------------------------------

MemoryInit ==
    /\ heap = NoHeap /\ rings = {}
    /\ ram = [p \in {} |-> Blank]
    /\ shared = [b \in Buffers |-> Waiting]

\* initialize_heap, with a memory map that has a suitable region.
InitializeHeap(map, i) ==
    /\ heap = NoHeap
    /\ Preferred(map, i)
    /\ heap' = HeapOf(map[i])
    /\ UNCHANGED <<ram, rings, shared>>

Transfer ==
    \/ \E page \in FreePages : DmaAlloc(page)
    \/ \E ring \in rings : DmaDealloc(ring)
    \/ \E b \in Buffers, direction \in {"out", "in"}, data \in Contents, page \in FreePages :
           Share(b, direction, data, page)
    \/ \E b \in Buffers, data \in Contents : Serve(b, data)
    \/ \E b \in Buffers : Unshare(b)

MemoryNext ==
    \/ \E map \in MemoryMaps : \E i \in DOMAIN map : InitializeHeap(map, i)
    \/ Transfer

MemorySpec == MemoryInit /\ [][MemoryNext]_memory

-----------------------------------------------------------------------------
(***************************************************************************)
(* Properties.                                                             *)
(***************************************************************************)

\* The heap lies in one usable region of a memory map.
HeapUsable ==
    heap = NoHeap \/
    \E map \in MemoryMaps : \E i \in DOMAIN map :
        /\ map[i].usable
        /\ map[i].base <= heap.physical
        /\ heap.physical + heap.length <= map[i].base + map[i].length

\* Whatever transfers overlap, no two of them and no queue share memory, all of it is
\* usable memory of the heap, none is lost or released twice, and what one side put
\* into a buffer is what the other side takes out (initialize_heap, KernelHal).
TransfersIntact ==
    /\ HeapUsable
    /\ DOMAIN ram = rings \cup {shared[b].address : b \in {b \in Buffers : InFlight(b)}}
    /\ \A b \in Buffers :
        /\ InFlight(b) =>
            /\ shared[b].address \notin rings
            /\ shared[b].address \in heap.physical .. heap.physical + heap.length - PageSize
            /\ \A c \in Buffers \ {b} : InFlight(c) => shared[c].address # shared[b].address
        /\ shared[b].stage = "done" \/ (shared[b].stage = "served" /\ shared[b].direction = "out")
               => shared[b].device = shared[b].data
=============================================================================
