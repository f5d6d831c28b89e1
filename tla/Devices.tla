------------------------------ MODULE Devices ------------------------------
(***************************************************************************)
(* What the kernel finds on the PCI bus (platforms/bare-metal/src/devices.rs) *)
(* and where its random bytes come from (fill_random in platform.rs,       *)
(* fill_hardware_random in arch.rs).                                       *)
(*                                                                         *)
(* A bus is the sequence of its functions.  Of a function counts its kind  *)
(* ("other" for what is not VirtIO or not used), its BAR 0 ("io", "high"   *)
(* for an I/O address above 16 bits, "none"), whether the driver starts on *)
(* it, and whether it is read-only.  The drivers and the registers behind  *)
(* them are the library's.                                                 *)
(***************************************************************************)
EXTENDS Integers, Sequences

CONSTANTS
    OutputLength    \* bytes that a caller of fill_random asks for

ASSUME OutputAssumption == OutputLength \in Nat \ {0}

Kinds == {"block", "entropy", "net"}
NoDevice == 0
EmptySet == [k \in Kinds |-> NoDevice]
Complete(devices) == \A k \in Kinds : devices[k] # NoDevice

\* A function that gets as far as add_transport.
Reachable(f) == f.kind \in Kinds /\ f.bar = "io"

\* add_transport, of the n-th function: its errors are dropped by the caller, and
\* leave the place of that kind free for a later function.
AddTransport(devices, n, f) ==
    IF devices[f.kind] = NoDevice /\ f.starts /\ ~(f.kind = "block" /\ f.readonly)
    THEN [devices EXCEPT ![f.kind] = n]
    ELSE devices

\* discover_pci: the loop over the bus, which ends when the set is complete.
DiscoverPci(bus) ==
    LET found[n \in 0 .. Len(bus)] ==
            IF n = 0 THEN EmptySet
            ELSE IF Complete(found[n - 1]) \/ ~Reachable(bus[n]) THEN found[n - 1]
            ELSE AddTransport(found[n - 1], n, bus[n])
    IN  found[Len(bus)]

\* DeviceSet::discover: on AArch64 discover_mmio is gated by a constant that is false.
Discover(arch, bus) == IF arch = "x86_64" THEN DiscoverPci(bus) ELSE EmptySet

-----------------------------------------------------------------------------
(***************************************************************************)
(* fill_random: how many bytes of the output are random in the end, and    *)
(* whether the call returns Ok.                                            *)
(***************************************************************************)

Filled(count, ok) == [random |-> count, ok |-> ok]

\* Mutation: one request is taken to have filled the output.
VirtioFill_OneRequest ==
    {Filled(0, FALSE)} \cup {Filled(count, TRUE) : count \in 1 .. OutputLength}

\* VirtioEntropy::fill: the device fails, returns nothing, or returns some bytes, and
\* the loop goes on behind them.
VirtioFill ==
    LET outcomes[offset \in 0 .. OutputLength] ==
            IF offset = OutputLength THEN {Filled(offset, TRUE)}
            ELSE {Filled(offset, FALSE)} \cup
                 UNION {outcomes[next] : next \in offset + 1 .. OutputLength}
    IN  outcomes[0]

\* fill_hardware_random: a chunk for which no attempt succeeds clears all of it.
HardwareFill(rdrand) ==
    {Filled(0, FALSE)} \cup (IF rdrand THEN {Filled(OutputLength, TRUE)} ELSE {})

\* fill_random: the entropy device if there is one, and nothing else then.
FillRandom(devices, rdrand) ==
    IF devices["entropy"] # NoDevice THEN VirtioFill ELSE HardwareFill(rdrand)
=============================================================================
