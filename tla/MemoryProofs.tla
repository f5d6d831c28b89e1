---------------------------- MODULE MemoryProofs ----------------------------
(***************************************************************************)
(* Proofs about Memory, for every page size, memory map, place of the      *)
(* direct map and of the kernel image, and any number of buffers; alone and *)
(* in the Machine that boots, is turned off and boots again.               *)
(*                                                                         *)
(* TransfersIntact is not inductive: that a buffer comes back with what    *)
(* the device wrote rests on what its page holds in the meantime, and that *)
(* on no other page having the same address.  MemoryInv adds both.         *)
(***************************************************************************)
EXTENDS Machine, TLAPS

\* The addresses at which a page of the heap may begin.
HeapRange == heap.physical .. heap.physical + heap.length - PageSize

Transferred == [stage : {"driver", "shared", "served", "done"}, direction : {"out", "in"},
                data : Contents, address : Int, device : Contents]

\* The page of a transfer under way is one of the heap, no queue and no other transfer's.
Apart ==
    \A b \in Buffers : InFlight(b) =>
        /\ shared[b].address \in HeapRange /\ shared[b].address \notin rings
        /\ \A c \in Buffers \ {b} : InFlight(c) => shared[c].address # shared[b].address

\* What the page of a buffer holds, and in the end the buffer.
Held ==
    \A b \in Buffers :
        /\ shared[b].stage = "shared" /\ shared[b].direction = "out"
               => ram[shared[b].address] = shared[b].data
        /\ shared[b].stage = "served" /\ shared[b].direction = "in"
               => ram[shared[b].address] = shared[b].device
        /\ shared[b].stage = "done" \/ (shared[b].stage = "served" /\ shared[b].direction = "out")
               => shared[b].device = shared[b].data

\* The inductive invariant: types, TransfersIntact, and what the page of a buffer holds
\* while its transfer is under way (share, the device, unshare).
MemoryInv ==
    /\ heap \in [physical : Nat, length : Nat]
    /\ HeapUsable
    /\ heap = NoHeap => ram = [p \in {} |-> Blank]
    /\ rings \subseteq HeapRange
    /\ ram = [p \in DOMAIN ram |-> ram[p]]
    /\ DOMAIN ram = rings \cup {shared[b].address : b \in {b \in Buffers : InFlight(b)}}
    /\ shared \in [Buffers -> Transferred]
    /\ Apart /\ Held

-----------------------------------------------------------------------------

\* A remainder is less than what it is the remainder of (the masks of initialize_heap).
LEMMA Remainder ==
    ASSUME NEW n \in Nat
    PROVE  n % PageSize \in 0 .. PageSize - 1
BY MemoryAssumption

\* Rounding down loses less than a page (& !(PAGE_SIZE - 1)).
LEMMA RoundDownBounds ==
    ASSUME NEW n \in Nat
    PROVE  /\ RoundDown(n) \in Nat
           /\ RoundDown(n) <= n /\ n < RoundDown(n) + PageSize
BY Remainder, MemoryAssumption DEF RoundDown

\* The heap of a suitable region lies in it, and has a size between the two limits
\* (initialize_heap).
THEOREM HeapFits ==
    ASSUME NEW region \in [base : Nat, length : Nat, usable : BOOLEAN], Suitable(region)
    PROVE  /\ HeapOf(region) \in [physical : Nat, length : Nat]
           /\ region.base <= HeapOf(region).physical
           /\ HeapOf(region).physical + HeapOf(region).length <= region.base + region.length
           /\ MinHeapSize <= HeapOf(region).length /\ HeapOf(region).length <= MaxHeapSize
<1>1. /\ region.base \in Nat /\ region.length \in Nat
      /\ region.base + (PageSize - 1) \in Nat
  BY MemoryAssumption
<1>2. Aligned(region) \in Nat /\ region.base <= Aligned(region)
  BY <1>1, RoundDownBounds, MemoryAssumption DEF Aligned
<1>3. Skipped(region) = Aligned(region) - region.base /\ Skipped(region) <= region.length
  BY DEF Suitable, Skipped
<1>4. region.length - Skipped(region) \in Nat
  BY <1>1, <1>2, <1>3
<1>5. Space(region) \in Nat /\ Space(region) <= region.length - Skipped(region)
  BY <1>4, RoundDownBounds DEF Space
<1>6. MinHeapSize <= Space(region)
  BY <1>5, MemoryAssumption DEF Suitable
<1>7. /\ Smallest(Space(region), MaxHeapSize) \in Nat
      /\ Smallest(Space(region), MaxHeapSize) <= Space(region)
      /\ Smallest(Space(region), MaxHeapSize) <= MaxHeapSize
      /\ MinHeapSize <= Smallest(Space(region), MaxHeapSize)
  BY <1>5, <1>6, MemoryAssumption DEF Smallest
<1> QED
  BY <1>1, <1>2, <1>3, <1>5, <1>7 DEF HeapOf

\* The direct map is undone by virt_to_phys for every address of the heap, wherever the
\* kernel image lies (phys_to_virt, virt_to_phys).
THEOREM AddressesRoundTrip ==
    ASSUME heap \in [physical : Nat, length : Nat], HeapUsable, heap # NoHeap,
           NEW p \in HeapRange
    PROVE  /\ p \in Nat
           /\ VirtToPhys(p + HHDM) = p
           /\ PhysToVirt(p) = p + HHDM
           /\ Backing(PhysToVirt(p)) = p
<1>1. PICK map \in MemoryMaps : \E i \in DOMAIN map :
          /\ map[i].usable
          /\ map[i].base <= heap.physical
          /\ heap.physical + heap.length <= map[i].base + map[i].length
  BY DEF HeapUsable
<1>2. PICK i \in DOMAIN map :
          /\ map[i].base <= heap.physical
          /\ heap.physical + heap.length <= map[i].base + map[i].length
  BY <1>1
<1>3. /\ map[i].base \in Nat /\ map[i].length \in Nat
      /\ map[i].base + map[i].length + HHDM <= U64Top
      /\ ExecutableVirtual # 0 => map[i].base + map[i].length + HHDM <= ExecutableVirtual
  BY MapAssumption
<1>4. /\ p \in Int /\ heap.physical <= p /\ p + PageSize <= heap.physical + heap.length
      /\ heap.physical \in Nat /\ heap.length \in Nat
  BY MemoryAssumption DEF HeapRange
<1>5. /\ p \in Nat /\ p + HHDM \in Nat /\ p + HHDM < map[i].base + map[i].length + HHDM
  BY <1>2, <1>3, <1>4, MemoryAssumption
<1>6. VirtToPhys(p + HHDM) = p
  BY <1>3, <1>5, MemoryAssumption DEF VirtToPhys
<1>7. p + HHDM <= U64Top
  BY <1>3, <1>5, MemoryAssumption
<1>8. PhysToVirt(p) = p + HHDM
  BY <1>7 DEF PhysToVirt
<1> QED
  BY <1>5, <1>6, <1>8, MemoryAssumption DEF Backing

-----------------------------------------------------------------------------

\* The invariant holds before the heap is there.
LEMMA MemoryInvInit == MemoryInit => MemoryInv
<1> SUFFICES ASSUME MemoryInit PROVE MemoryInv
  OBVIOUS
<1>1. heap = NoHeap /\ rings = {} /\ ram = [p \in {} |-> Blank]
  BY DEF MemoryInit
<1>2. shared = [b \in Buffers |-> Waiting] /\ Waiting \in Transferred
  BY MemoryAssumption DEF MemoryInit, Waiting, Transferred
<1>3. \A b \in Buffers : shared[b] = Waiting /\ shared[b].stage = "driver" /\ ~InFlight(b)
  BY <1>2 DEF InFlight, Waiting
<1>4. heap \in [physical : Nat, length : Nat] /\ HeapUsable
  BY <1>1 DEF NoHeap, HeapUsable
<1>5. DOMAIN ram = {} /\ {shared[b].address : b \in {b \in Buffers : InFlight(b)}} = {}
  BY <1>1, <1>3
<1> QED
  BY <1>1, <1>2, <1>3, <1>4, <1>5 DEF MemoryInv, Apart, Held, InFlight

\* A page that the allocator may return lies in the heap and is not in use, and the heap
\* is there.
LEMMA FreePage ==
    ASSUME MemoryInv, NEW page \in FreePages
    PROVE  /\ page \in HeapRange /\ page \notin DOMAIN ram
           /\ heap # NoHeap /\ page \in Nat /\ VirtToPhys(page + HHDM) = page
<1>1. page \in HeapRange /\ page \notin DOMAIN ram
  BY DEF FreePages, HeapRange
<1>2. heap # NoHeap
  BY <1>1, MemoryAssumption DEF HeapRange, NoHeap
<1> QED
  BY <1>1, <1>2, AddressesRoundTrip DEF MemoryInv

\* The address that a device was given is that of a page of the heap in use.
LEMMA SharedPage ==
    ASSUME MemoryInv, NEW a \in HeapRange
    PROVE  a \in Nat /\ Backing(PhysToVirt(a)) = a
<1>1. heap # NoHeap
  BY MemoryAssumption DEF HeapRange, NoHeap
<1> QED
  BY <1>1, AddressesRoundTrip DEF MemoryInv

\* initialize_heap.
LEMMA InitializeHeapStep ==
    ASSUME MemoryInv, NEW map \in MemoryMaps, NEW i \in DOMAIN map, InitializeHeap(map, i)
    PROVE  MemoryInv'
<1>1. heap = NoHeap /\ ram = [p \in {} |-> Blank] /\ heap' = HeapOf(map[i])
      /\ UNCHANGED <<ram, rings, shared>> /\ Suitable(map[i])
  BY DEF InitializeHeap, MemoryInv, Preferred
<1> DEFINE region == [base |-> map[i].base, length |-> map[i].length, usable |-> map[i].usable]
<1>2. region \in [base : Nat, length : Nat, usable : BOOLEAN]
  BY MapAssumption
<1>3. HeapOf(region) = HeapOf(map[i]) /\ Suitable(region)
  BY <1>1 DEF HeapOf, Suitable, Aligned, Space, Skipped
<1>4. /\ HeapOf(map[i]) \in [physical : Nat, length : Nat]
      /\ map[i].base <= HeapOf(map[i]).physical
      /\ HeapOf(map[i]).physical + HeapOf(map[i]).length <= map[i].base + map[i].length
  BY <1>2, <1>3, HeapFits
<1>5. HeapUsable'
  BY <1>1, <1>4 DEF HeapUsable, Suitable
<1>6. DOMAIN ram = {} /\ rings = {} /\ \A b \in Buffers : ~InFlight(b)
  <2>1. DOMAIN ram = {}
    BY <1>1
  <2>2. rings = {} /\ \A b \in Buffers : InFlight(b) => shared[b].address \in DOMAIN ram
    BY <2>1 DEF MemoryInv
  <2> QED
    BY <2>1, <2>2
<1>7. \A b \in Buffers : InFlight(b)' = InFlight(b)
  BY <1>1 DEF InFlight
<1> QED
  BY <1>1, <1>4, <1>5, <1>6, <1>7 DEF MemoryInv, Apart, Held, InFlight

\* dma_alloc.
LEMMA DmaAllocStep ==
    ASSUME MemoryInv, NEW page \in FreePages, DmaAlloc(page)
    PROVE  MemoryInv'
<1>1. /\ page \in HeapRange /\ page \notin DOMAIN ram /\ heap # NoHeap
      /\ VirtToPhys(page + HHDM) = page
  BY FreePage
<1>2. /\ ram' = [p \in DOMAIN ram \cup {page} |-> IF p = page THEN Blank ELSE ram[p]]
      /\ rings' = rings \cup {page}
      /\ heap' = heap /\ shared' = shared
  BY <1>1 DEF DmaAlloc, Allocated
<1>3. DOMAIN ram' = DOMAIN ram \cup {page} /\ \A p \in DOMAIN ram : ram'[p] = ram[p]
  BY <1>1, <1>2
<1>4. HeapRange' = HeapRange /\ HeapUsable' /\ \A b \in Buffers : InFlight(b)' = InFlight(b)
  BY <1>2 DEF HeapRange, HeapUsable, InFlight, MemoryInv
<1>5. \A b \in Buffers : InFlight(b) => shared[b].address \in DOMAIN ram
  BY DEF MemoryInv
<1>6. ram' = [p \in DOMAIN ram' |-> ram'[p]]
  BY <1>2
<1>7. Apart'
  BY <1>1, <1>2, <1>4, <1>5 DEF MemoryInv, Apart
<1>8. Held'
  BY <1>2, <1>3, <1>5, Zenon DEF MemoryInv, Held, InFlight
<1>9. DOMAIN ram' = rings' \cup {shared'[b].address : b \in {b \in Buffers : InFlight(b)'}}
  BY <1>2, <1>3, <1>4 DEF MemoryInv
<1> QED
  BY <1>1, <1>2, <1>4, <1>6, <1>7, <1>8, <1>9 DEF MemoryInv

\* dma_dealloc.
LEMMA DmaDeallocStep ==
    ASSUME MemoryInv, NEW ring \in rings, DmaDealloc(ring)
    PROVE  MemoryInv'
<1>1. ring \in HeapRange /\ Backing(PhysToVirt(ring)) = ring
  BY SharedPage DEF MemoryInv
<1>2. /\ ram' = [p \in DOMAIN ram \ {ring} |-> ram[p]]
      /\ rings' = rings \ {ring}
      /\ heap' = heap /\ shared' = shared
  BY <1>1 DEF DmaDealloc, Freed
<1>3. /\ DOMAIN ram' = DOMAIN ram \ {ring} /\ \A p \in DOMAIN ram' : ram'[p] = ram[p]
      /\ heap # NoHeap
  BY <1>1, <1>2, MemoryAssumption DEF HeapRange, NoHeap
<1>4. HeapRange' = HeapRange /\ HeapUsable' /\ \A b \in Buffers : InFlight(b)' = InFlight(b)
  BY <1>2 DEF HeapRange, HeapUsable, InFlight, MemoryInv
<1>5. \A b \in Buffers : InFlight(b) =>
          shared[b].address \in DOMAIN ram \ {ring} /\ shared[b].address # ring
  BY DEF MemoryInv, Apart
<1>6. ram' = [p \in DOMAIN ram' |-> ram'[p]]
  BY <1>2
<1>7. Apart'
  BY <1>2, <1>4 DEF MemoryInv, Apart
<1>8. Held'
  BY <1>2, <1>3, <1>5 DEF MemoryInv, Held, InFlight
<1>9. DOMAIN ram' = rings' \cup {shared'[b].address : b \in {b \in Buffers : InFlight(b)'}}
  BY <1>2, <1>3, <1>4, <1>5 DEF MemoryInv
<1> QED
  BY <1>2, <1>3, <1>4, <1>6, <1>7, <1>8, <1>9 DEF MemoryInv

\* share.
LEMMA ShareStep ==
    ASSUME MemoryInv, NEW b \in Buffers, NEW direction \in {"out", "in"},
           NEW data \in Contents, NEW page \in FreePages, Share(b, direction, data, page)
    PROVE  MemoryInv'
<1>1. /\ page \in HeapRange /\ page \notin DOMAIN ram /\ heap # NoHeap
      /\ VirtToPhys(page + HHDM) = page /\ page \in Nat
  BY FreePage
<1> DEFINE kept == IF direction = "out" THEN data ELSE Blank
           begun == [stage |-> "shared", direction |-> direction, data |-> data,
                     address |-> page, device |-> Blank]
<1>2. /\ ram' = [p \in DOMAIN ram \cup {page} |-> IF p = page THEN kept ELSE ram[p]]
      /\ shared' = [shared EXCEPT ![b] = begun]
      /\ heap' = heap /\ rings' = rings /\ ~InFlight(b)
  BY <1>1, Zenon DEF Share, Allocated
<1>3. /\ DOMAIN ram' = DOMAIN ram \cup {page} /\ ram'[page] = kept
      /\ \A p \in DOMAIN ram : ram'[p] = ram[p]
  BY <1>1, <1>2
<1>4. begun \in Transferred /\ shared \in [Buffers -> Transferred]
  BY <1>1, MemoryAssumption DEF Transferred, MemoryInv
<1>5. /\ shared' \in [Buffers -> Transferred] /\ shared'[b] = begun
      /\ \A c \in Buffers \ {b} : shared'[c] = shared[c]
  BY <1>2, <1>4
<1>6. /\ InFlight(b)' /\ \A c \in Buffers \ {b} : InFlight(c)' = InFlight(c)
      /\ HeapRange' = HeapRange /\ HeapUsable'
  BY <1>2, <1>5 DEF InFlight, HeapRange, HeapUsable, MemoryInv
<1>7. \A c \in Buffers : InFlight(c) => shared[c].address \in DOMAIN ram
  BY DEF MemoryInv
<1>8. ram' = [p \in DOMAIN ram' |-> ram'[p]]
  BY <1>2
<1>9. Apart'
  BY <1>1, <1>2, <1>5, <1>6, <1>7 DEF MemoryInv, Apart
<1>10. Held'
  <2> SUFFICES ASSUME NEW c \in Buffers PROVE Held!(c)'
    BY DEF Held
  <2>1. CASE c = b
    BY <2>1, <1>3, <1>5
  <2>2. CASE c # b
    BY <2>2, <1>3, <1>5, <1>7 DEF MemoryInv, Held, InFlight
  <2> QED
    BY <2>1, <2>2
<1>11. DOMAIN ram' = rings' \cup {shared'[c].address : c \in {c \in Buffers : InFlight(c)'}}
  BY <1>2, <1>3, <1>5, <1>6 DEF MemoryInv
<1> QED
  BY <1>1, <1>2, <1>5, <1>6, <1>8, <1>9, <1>10, <1>11 DEF MemoryInv

\* The device reads or writes.
LEMMA ServeStep ==
    ASSUME MemoryInv, NEW b \in Buffers, NEW data \in Contents, Serve(b, data)
    PROVE  MemoryInv'
<1> DEFINE a == shared[b].address
<1>1. /\ shared[b].stage = "shared" /\ InFlight(b) /\ heap' = heap /\ rings' = rings
      /\ shared' = [shared EXCEPT ![b].stage = "served", ![b].device = data]
  BY DEF Serve, InFlight
<1>2. shared \in [Buffers -> Transferred] /\ a \in DOMAIN ram /\ a \in HeapRange
  BY <1>1 DEF MemoryInv, Apart
<1>3. /\ shared' \in [Buffers -> Transferred]
      /\ shared'[b] = [shared[b] EXCEPT !.stage = "served", !.device = data]
      /\ \A c \in Buffers \ {b} : shared'[c] = shared[c]
  BY <1>1, <1>2, ZenonT(30) DEF Transferred
<1>4. /\ shared'[b].stage = "served" /\ shared'[b].device = data
      /\ shared'[b].direction = shared[b].direction
      /\ shared'[b].address = a /\ shared'[b].data = shared[b].data
  BY <1>2, <1>3 DEF Transferred
<1>5. /\ \A c \in Buffers : InFlight(c)' = InFlight(c) /\ shared'[c].address = shared[c].address
      /\ HeapRange' = HeapRange /\ HeapUsable'
  BY <1>1, <1>3, <1>4 DEF InFlight, HeapRange, HeapUsable, MemoryInv
<1>6. /\ DOMAIN ram' = DOMAIN ram /\ ram' = [p \in DOMAIN ram' |-> ram'[p]]
      /\ \A p \in DOMAIN ram : p # a => ram'[p] = ram[p]
      /\ shared[b].direction = "out" => data = ram[a]
      /\ shared[b].direction # "out" => ram'[a] = data
  BY <1>2 DEF Serve, MemoryInv
<1>7. \A c \in Buffers \ {b} : InFlight(c) => shared[c].address \in DOMAIN ram /\ shared[c].address # a
  BY <1>1 DEF MemoryInv, Apart
<1>8. Apart'
  BY <1>1, <1>5 DEF MemoryInv, Apart
<1>9. Held'
  <2> SUFFICES ASSUME NEW c \in Buffers PROVE Held!(c)'
    BY DEF Held
  <2>1. CASE c = b
    BY <2>1, <1>1, <1>4, <1>6 DEF MemoryInv, Held
  <2>2. CASE c # b
    BY <2>2, <1>3, <1>6, <1>7 DEF MemoryInv, Held, InFlight
  <2> QED
    BY <2>1, <2>2
<1>10. DOMAIN ram' = rings' \cup {shared'[c].address : c \in {c \in Buffers : InFlight(c)'}}
  BY <1>1, <1>5, <1>6 DEF MemoryInv
<1>11. heap' # NoHeap
  BY <1>1, <1>2, MemoryAssumption DEF HeapRange, NoHeap
<1> QED
  BY <1>1, <1>3, <1>5, <1>6, <1>8, <1>9, <1>10, <1>11 DEF MemoryInv

\* unshare.
LEMMA UnshareStep ==
    ASSUME MemoryInv, NEW b \in Buffers, Unshare(b)
    PROVE  MemoryInv'
<1> DEFINE a == shared[b].address
           back == IF shared[b].direction = "in" THEN ram[a] ELSE shared[b].data
<1>1. shared[b].stage = "served" /\ InFlight(b) /\ heap' = heap /\ rings' = rings
  BY DEF Unshare, InFlight
<1>2. /\ shared \in [Buffers -> Transferred] /\ a \in DOMAIN ram /\ a \in HeapRange
      /\ a \notin rings
  BY <1>1 DEF MemoryInv, Apart
<1>3. Backing(PhysToVirt(a)) = a
  BY <1>2, SharedPage
<1>4. /\ ram' = [p \in DOMAIN ram \ {a} |-> ram[p]]
      /\ shared' = [shared EXCEPT ![b].stage = "done", ![b].data = back]
  BY <1>2, <1>3 DEF Unshare, Freed
<1>5. back = shared[b].device /\ back \in Contents
  <2>1. shared[b] \in Transferred
    BY <1>2
  <2>2. CASE shared[b].direction = "in"
    BY <1>1, <2>1, <2>2 DEF MemoryInv, Held, Transferred
  <2>3. CASE shared[b].direction = "out"
    BY <1>1, <2>1, <2>3 DEF MemoryInv, Held, Transferred
  <2> QED
    BY <2>1, <2>2, <2>3 DEF Transferred
<1>6. /\ shared' \in [Buffers -> Transferred]
      /\ shared'[b] = [shared[b] EXCEPT !.stage = "done", !.data = back]
      /\ \A c \in Buffers \ {b} : shared'[c] = shared[c]
  BY <1>2, <1>4, <1>5, ZenonT(30) DEF Transferred
<1>7. /\ shared'[b].stage = "done" /\ shared'[b].data = back
      /\ shared'[b].device = shared[b].device
  BY <1>2, <1>6 DEF Transferred
<1>8. /\ ~InFlight(b)' /\ \A c \in Buffers \ {b} : InFlight(c)' = InFlight(c)
      /\ HeapRange' = HeapRange /\ HeapUsable'
  BY <1>1, <1>6, <1>7 DEF InFlight, HeapRange, HeapUsable, MemoryInv
<1>9. \A c \in Buffers \ {b} : InFlight(c) => shared[c].address \in DOMAIN ram \ {a}
  BY <1>1 DEF MemoryInv, Apart
<1>10. /\ DOMAIN ram' = DOMAIN ram \ {a} /\ ram' = [p \in DOMAIN ram' |-> ram'[p]]
       /\ \A p \in DOMAIN ram \ {a} : ram'[p] = ram[p]
  BY <1>4
<1>11. Apart'
  BY <1>1, <1>6, <1>8 DEF MemoryInv, Apart
<1>12. Held'
  <2> SUFFICES ASSUME NEW c \in Buffers PROVE Held!(c)'
    BY DEF Held
  <2>1. CASE c = b
    BY <2>1, <1>5, <1>7
  <2>2. CASE c # b
    BY <2>2, <1>6, <1>9, <1>10 DEF MemoryInv, Held, InFlight
  <2> QED
    BY <2>1, <2>2
<1>13. DOMAIN ram' = rings' \cup {shared'[c].address : c \in {c \in Buffers : InFlight(c)'}}
  BY <1>1, <1>2, <1>6, <1>8, <1>9, <1>10 DEF MemoryInv
<1>14. heap' # NoHeap
  BY <1>1, <1>2, MemoryAssumption DEF HeapRange, NoHeap
<1> QED
  BY <1>1, <1>6, <1>8, <1>10, <1>11, <1>12, <1>13, <1>14, Zenon DEF MemoryInv

-----------------------------------------------------------------------------

\* Every step of the heap, the drivers and the devices keeps the invariant.
LEMMA MemoryStep == MemoryInv /\ [MemoryNext]_memory => MemoryInv'
<1>. SUFFICES ASSUME MemoryInv, [MemoryNext]_memory PROVE MemoryInv'
  OBVIOUS
<1>1. CASE \E map \in MemoryMaps : \E i \in DOMAIN map : InitializeHeap(map, i)
  BY <1>1, InitializeHeapStep
<1>2. CASE \E page \in FreePages : DmaAlloc(page)
  BY <1>2, DmaAllocStep
<1>3. CASE \E ring \in rings : DmaDealloc(ring)
  BY <1>3, DmaDeallocStep
<1>4. CASE \E b \in Buffers, direction \in {"out", "in"}, data \in Contents, page \in FreePages :
               Share(b, direction, data, page)
  BY <1>4, ShareStep
<1>5. CASE \E b \in Buffers, data \in Contents : Serve(b, data)
  BY <1>5, ServeStep
<1>6. CASE \E b \in Buffers : Unshare(b)
  BY <1>6, UnshareStep
<1>7. CASE UNCHANGED memory
  BY <1>7 DEF memory, MemoryInv, HeapUsable, HeapRange, Apart, Held, InFlight
<1> QED
  BY <1>1, <1>2, <1>3, <1>4, <1>5, <1>6, <1>7 DEF MemoryNext, Transfer

\* The invariant says all of the property.
LEMMA MemoryInvIntact == MemoryInv => TransfersIntact
BY DEF MemoryInv, TransfersIntact, Apart, Held, HeapRange

\* So it holds in every state.
THEOREM MemoryInvariant == MemorySpec => []MemoryInv
<1>1. MemoryInit => MemoryInv
  BY MemoryInvInit
<1>2. MemoryInv /\ [MemoryNext]_memory => MemoryInv'
  BY MemoryStep
<1> QED
  BY <1>1, <1>2, PTL DEF MemorySpec

\* Transfers stay intact, however many overlap and wherever the memory lies
\* (initialize_heap, KernelHal).
THEOREM TransfersStayIntact == MemorySpec => []TransfersIntact
  BY MemoryInvIntact, MemoryInvariant, PTL

-----------------------------------------------------------------------------
(***************************************************************************)
(* The machine that packages, boots and runs guests (Machine).             *)
(***************************************************************************)

\* A machine that is turned off has the memory it started with (terminate).
LEMMA MachineOffStep == MachineOff => MemoryInv'
<1>1. MemoryInit => MemoryInv
  BY MemoryInvInit
<1>2. MemoryInit' => MemoryInv'
  BY <1>1, PTL
<1>. QED  BY <1>2 DEF MachineOff, MemoryInit

\* Every step of the machine starts the heap, is a transfer, loses the memory or leaves it.
LEMMA MachineMemorySteps ==
    ASSUME [MachineNext]_mvars
    PROVE  MemoryNext \/ UNCHANGED memory \/ MachineOff
<1>1. CASE \E map \in MemoryMaps : StartHeap(map)
  BY <1>1 DEF StartHeap, MemoryNext
<1>2. CASE Transfers
  BY <1>2 DEF Transfers, MemoryNext
<1>3. CASE QemuExits \/ LaunchFails \/ Returns
  BY <1>3 DEF QemuExits, LaunchFails, Returns, Ends
<1>4. CASE WaitForLog
  BY <1>4 DEF WaitForLog, Found, Sleeps, Ends
<1>5. CASE Used(Operation) \/ Used((MountsDisk \/ PowerLoss) /\ UNCHANGED operations)
  BY <1>5 DEF Used
<1>6. CASE Packages \/ Launch \/ LoadKernel \/ LoadModules
  BY <1>6 DEF Packages, Launch, LoadKernel, LoadModules
<1>7. CASE Mount \/ Stores \/ Outputs
  BY <1>7 DEF Mount, Stores, Outputs
<1>8. CASE UNCHANGED mvars
  BY <1>8 DEF mvars
<1>. QED  BY <1>1, <1>2, <1>3, <1>4, <1>5, <1>6, <1>7, <1>8, Zenon DEF MachineNext

\* So it stays intact on a machine that is turned off and on at any moment, in any stage of
\* its boot (initialize_heap, KernelHal, smoke_boot).
THEOREM MachineTransfersIntact == MachineSpec => []TransfersIntact
<1>1. MachineInit => MemoryInv
  BY MemoryInvInit DEF MachineInit
<1>2. MemoryInv /\ [MachineNext]_mvars => MemoryInv'
  BY MachineMemorySteps, MachineOffStep, MemoryStep, Zenon
<1>3. MemoryInv => TransfersIntact
  BY MemoryInvIntact
<1>. QED  BY <1>1, <1>2, <1>3, PTL DEF MachineSpec
=============================================================================
