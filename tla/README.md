# AFOS in TLA+

TLA+ models of AFOS, a portable application environment in Rust that runs on desktops
and on bare metal: its crash-safe storage, its file systems, its password limiter, its
shell and sessions, its console, its network stack, its kernel heap and the tool that
builds and tests its images. TLC checks them on small instances; TLAPS proves every safety
property for every value of the constants. Liveness, and the codec of snapshots, are
model-checked only.

## The system and its models

| Part of AFOS | Source | Module |
|---|---|---|
| Snapshot store: `open`, `save` | `crates/afos-storage` | `SnapshotStore`, abstractly `RecoverableRegister`; faults in `SnapshotFaults`; proofs in `SnapshotStoreProofs` |
| Snapshot payload: `encode_tree`, `decode_tree` | `crates/afos-storage` | `TreeCodec` |
| File tree and storage calls on bare metal | `platforms/bare-metal/src/platform.rs` | `FileTree` (operators, lemmas in `FileTreeProofs`), `BareMetalStorage` (with the routing of `vfs.rs` and the boot of `system.rs`); proofs in `StorageProofs` |
| Storage calls on the desktop | `platforms/desktop/src/platform.rs` | `DesktopStorage`, lemmas in `FileTreeProofs` |
| Paths and mounts | `crates/afos-core/src/vfs.rs` | `Vfs` |
| Calls of an application, capabilities | `crates/afos-core/src/system.rs` | `Session` |
| Shell, metadata, runtime registry, API slot | `shell.rs`, `app.rs`, `afos-runtime-rhai`, `desktop/src/main.rs` | `Shell`; proofs in `ShellProofs`, which also has the lemmas about `Vfs` and `Session` |
| Master password and rate limit | `crates/afos-core/src/security.rs`, callers in `system.rs` | `Security`, proofs in `SecurityProofs` |
| Devices and random bytes | `platforms/bare-metal/src/devices.rs`, `arch.rs` | `Devices`, composed with `Security` in `PasswordSalt`; proofs in `SecurityProofs` |
| Console, serial line, keyboard | `platforms/bare-metal/src/console.rs`, `arch.rs` | `Console`, proofs in `IoProofs` |
| Network stack | `platforms/bare-metal/src/net.rs` | `NetStack`, proofs in `IoProofs` |
| Kernel heap, addresses, bounce buffers | `platforms/bare-metal/src/main.rs`, `memory.rs` | `Memory`, proofs in `MemoryProofs` |
| Packaging | `xtask/src/main.rs` | `Packaging`, proofs in `MachineProofs` |
| Boot, QEMU and the smoke test | `xtask/src/main.rs`, `platforms/bare-metal/src/main.rs` | `Machine`, which composes `Packaging`, `Memory` and `BareMetalStorage`; proofs in `MachineProofs` |

A command runs an application in a session; the session's calls go through the VFS to the
platform. On bare metal that keeps the file tree in memory and saves all of it after each
change; on the desktop it calls the host's file system. Everything in AFOS runs on one
thread. What interleaves is the thread with the world: power, the device's cache, the
clock, the network, the key that cancels, devices that serve several transfers at once,
and a build command that the user interrupts.

How state and actions correspond:

* **SnapshotStore.** `view` is what reading a block returns, `disk` what a power loss
  leaves. A save is four actions (payload, flush, header, flush), each of which may also
  fail part of the way. `Writeback` moves any cached block to the medium at any time.
  A payload is a sequence of bytes, written as whole blocks whose last one is padded with
  zeros; what is read is cut to the length in the header before it is summed and decoded.
  The checksum is a parameter.
* **RecoverableRegister.** What the store promises: after a power loss, `open` returns the
  committed tree or one whose save was begun since. `BareMetalStorage` is composed with
  this register, not with the blocks.
* **BareMetalStorage.** One action per VFS operation, with `add_parents`, the save and the
  rollback of `commit`; boot, seeding, layout and marker are steps with power losses
  between them.
* **Security.** `verify` is two actions, because it reads the clock before a slow
  derivation and uses it after. The clock is the counter, multiplied with saturation and
  divided, as in `monotonic_millis`. Between calls an application may change the file
  (`ApplicationChanges`).
* **TreeCodec.** Operators, not a state machine: integers as digits, paths as byte
  sequences, a cursor that fails and stays failed. The trees of the snapshot runs are
  encoded by it.
* **Devices, PasswordSalt.** Discovery is a fold over the functions of the bus. A fill of
  random bytes is the set of its outcomes: how many bytes came from the source, and
  whether the call returned Ok. `PasswordSalt` gives each verifier that `Security` writes
  the salt that the machine at hand could provide.
* **Shell, Session, Vfs, DesktopStorage.** One stack over the desktop's files: the process
  starts, sets up, resolves and runs commands and ends; a running application makes file
  and network calls, each with its capability, the user's answer and the verification of
  the password; a session normalizes the path of a call and the VFS normalizes it again,
  routes it, and makes calls of the host. A
  host error may come after part of a call, and leaves what was done by then.
* **Memory.** Physical pages, the heap's region as `initialize_heap` picks it out of a
  memory map, queues, and each shared buffer with what its driver and its device have. The
  allocator may return any free page.
* **Packaging.** One action per stage of `package`, over the directories that it leaves for
  the next command. A stage may be cut short: a copy with part of the old or the new files,
  an archive with other contents, a loader with a missing end, a disk without blocks.
* **Machine.** `xtask` starts a guest from the image and the data disk; the guest takes its
  heap and its modules, mounts the register as `BareMetalStorage` does, and prints into the
  log that the smoke test reads. Each side may stop at any point.
* **Console.** Bytes and scan codes wait in two queues. `read_line` polls them at the prompt
  and in calls that ask for a line, `poll_cancel` while the interpreter evaluates and in the
  network's loops. Keys stand for the classes of the scan-code table.
* **NetStack.** One action per turn of a polling loop that changes anything; what `poll`
  brings in happens in steps before it. smoltcp is external: a set of sockets with
  reusable indices and the TCP states that the code tells apart.

## Runs

| Run | Checks | States |
|---|---|---|
| `snapshot` | recovery after power loss at any step, refinement of the register, the invariant of the proofs; the codec over all small trees and payloads | 16 thousand |
| `snapshot_faults` | a saturated generation and a damaged block cost at most one save; damage to padding costs none | 36 thousand |
| `storage` | from the workspace to a guest: images of exactly the workspace, transfers that do not mix, well-formed trees, durable files, renames of subtrees, completed layouts, a data disk that repackaging keeps, smoke tests that end | 494 thousand |
| `security` | time that wrong guesses take, salts that are random, passwords that passwd asks for, end of lock-outs | 554 thousand |
| `shell` | changes that were declared and allowed in the same call, API slot, ownership of connections, precedence of bundled applications, composition of paths, agreement of the two platforms' storage | 31 thousand |
| `net` | handles, sockets and ports, one deadline per call, data before end of stream, every call returns | 630 thousand |
| `console` | editing of lines, shift that does not stick, cancellation over the serial line | 885 thousand |

`DecodingInverts` and `DecodedIsEncodable`, the statements about the codec, are
assumptions of `MCSnapshotStore` that TLC evaluates before the run: decoding inverts
encoding, rejects every payload that is cut short or goes on, and what it accepts can be
saved again. It accepts payloads that no save writes (entries twice or in another order);
`NeverUndecodable` says more than that a payload decodes, namely that it is the encoding of
a tree.

`PlatformsAgree` compares the two platforms in every state that the shell reaches. They
differ in two cases, which the property excepts: a desktop rename replaces an existing
file or empty directory, where bare metal refuses; and bare metal answers Ok when what is
not there is renamed to itself. It compares trees, outcomes and the names and kinds of
listed entries. Two differences lie outside it: whether a path below a file exists, which
is Ok(false) on bare metal and an error on the desktop, and the `len` of a listed
directory, which is zero on bare metal and the host's on the desktop.

What three properties say is weaker than a reader of the documents may expect, because the
code is:

* `ChangesApproved` lets an application change what lies below `/user/appdata/<id>` as the
  VFS normalizes it. Metadata accepts the ids `.` and `..`, with which that is all of
  `/user/appdata` or of `/user`; docs/APPS.md:56 says "private storage under
  `/user/appdata/<app-id>`". The application to install has the id `..` in the run.
* `ChangeNeedsCurrent` is about `passwd`. A session keeps applications from
  `/user/config/security` and from what is below it, not from a directory above: a rename
  of `/user/config`, which the bundled `mv` may do, takes the verifier along and asks for
  no password.
  docs/SECURITY.md:30 says "`/user/config/security` is blocked from every application,
  including trusted scripts."
* `EndAfterData` takes a 0 for the end of the stream only from a `recv` with room for
  data. With an empty output `recv` returns 0 also while data is queued; it then leaves
  the data alone. afos-api/src/lib.rs:120 says "A return of `0` means the peer has closed
  the connection."

`SerialEscapeCancels` says that an Escape is noticed, not that it ends the application: in
`net_status` it ends the wait and the call reports Ok, in `connect`, `send` and `recv` it is
an error that a script may catch, and a call that asks for a line skips it.

Five runs show a disagreement between code and documentation; each is expected to be
violated.

* `snapshot_warm_reset`: `open` does not flush what it recovers. After a reset that the
  device's cache survives, the next save may overwrite the only durable snapshot.
* `storage_failed_rename`: a rename of a missing source leaves the target's parents in
  memory, unsaved.
* `security_clock`: the clock stops when its multiplication saturates (about 71 days at
  3 GHz), and a lock-out never ends. The timeouts of the network use the same conversion;
  `NetStack` assumes a clock that runs.
* `shell_failure`: an application's error ends the interactive shell. With `--command` the
  same error does become a nonzero status.
* `console_escape`: the scan-code table has no Escape, so the PS/2 keyboard cannot cancel.

### Bounds

* Snapshots: seven blocks, so two slots of two payload blocks; payloads that
  end in padding; three trees of which two,
  torn, make the third, and one that does not fit; four saves, enough for both slots to be
  overwritten twice.
* Codec: 512 trees over three paths, one a prefix of another, with limits of two entries;
  all payloads of up to six bytes.
* Storage: seven argument paths of up to three components, which renames make four deep;
  three operations and two unacknowledged saves.
* Machine: four workspaces, of which one boots and the others lack a system file, have a
  file outside the roots, or a link; two memory maps, one without room for a heap; two
  buffers over three pages; waits of two looks at the log; two
  edits or failures in a row (`MishapBound`), so that a command can be interrupted, the
  files edited, and the command repeated. The parts share little state, and the run does
  not multiply them: transfers are followed on first boots, and a boot that has
  made one is followed until QEMU exits but not on to its mount; file operations on `run` guests, until a smoke test
  was made; and after an operation (`UseBound` is zero) the command is not followed to its
  end. Neither packaging nor memory reads the tree, so a later command would repeat what
  is checked without operations.
* Security: delays of 1 and 2, a counter of failures that saturates at 5, six wrong
  guesses; a clock that runs past the end of every delay, and in `security_clock` a counter
  that goes on past the point where a clock without saturation would end it; salts of three bytes; a machine with an entropy device behind one that does not
  start, one with RDRAND, one without any source.
* Shell: one bundled application and one to install, with the id `..`; three paths, two connections, paths of three components. States that differ only in
  the history `approved` count as one (a VIEW): no action and no invariant reads it, and
  `ChangesApproved`, which does, is evaluated on every step.
* Network: two sockets, three connections, so that indices are used again; two ports, so
  that they wrap; a timeout of one tick, so that a call is before or past its deadline.
* Console: four presses of six keys or bytes of five kinds, releases not counted; enough to
  hold both shift keys, release one and type.

Deadlock is checked except where `CHECK_DEADLOCK FALSE` says that the system really
stops: `Console` waits for input that the bound stops.

### Fairness

`Security` assumes that the counter keeps counting. `NetStack` assumes that, and that the
calling thread takes its next turn: there is no scheduler that could stop it. `Console`
assumes that the thread polls while input waits, not that an application ends. `Machine`
assumes that `xtask` starts QEMU, or fails to, and goes on looking at the log, as a process
of the host does; not that the guest starts, answers or exits. None assumes that a message
arrives or that a key is pressed.

## Proofs

A theorem holds for every value of the constants: any number of blocks, paths, files,
sockets, events, saves or failures. The bounds of the runs are guards of the models, so a
theorem with an arbitrary bound covers executions of any length. What the constants must
satisfy is stated as named assumptions beside their declarations, and TLC evaluates each on
the values of the runs.

| Theorem | Property of a run | Inductive invariant |
|---|---|---|
| `PowerLossSafe`, `StoreIsRegister` | `RecoverySafe`, `ImplementsRegister` | `IInv` (`SnapshotStore`) |
| `PayloadsDecode`, `SnapshotAlwaysThere`, `OtherFormatsKept` | `NeverUndecodable`, `AlwaysRecoverable`, `ForeignUntouched` | `StoreInv` (`SnapshotFaults`) |
| `OneSaveAtMost`, `DamageFallsBack` | `LosesAtMostOne`, `FallsBack` | `StoreInv`, `HistoryInv` |
| `GuessesTakeTime`, `ChangesNeedCurrent` | `GuessBudget`, `ChangeNeedsCurrent` | `IInv` (`Security`) |
| `SaltsStayRandom` | `SaltsAreRandom` | itself |
| `TransfersStayIntact`, `MachineTransfersIntact` | `TransfersIntact` | `MemoryInv` |
| `TreesStayWellFormed`, `FilesStayDurable`, `RenamesAreExact`, `BootsAreComplete` | `WellFormed`, `FilesDurable`, `RenameMovesSubtree`, `BootCompletesLayout` | `StorageInv` |
| `KernelsHaveSource`, `DisksArePreserved` | `ImageIsSource`, `DataDiskPreserved` | `MachineInv`, with `StorageInv` in it |
| `SlotFollowsSession`, `ConnectionsAreOwn`, `BundledComesFirst`, `NormalizingComposes`, `ChangesAreApproved`, `PlatformsAreAlike` | `SlotIsCurrent`, `OwnConnections`, `BundledWins`, `NormalizeComposes`, `ChangesApproved`, `PlatformsAgree` | `ShellInv` |
| `HandlesLive`, `NoSocketLost`, `DeadlineShared`, `EndIsLast` | `ConnectionsLive`, `SocketsAccounted`, `OneDeadline`, `EndAfterData` | `NetInv` |
| `ShiftComesBack`, `LineFollowsBytes` | `ShiftNotStuck`, `LineIsEdited` | `ShiftInv`, `LineInv` |

**Snapshot store.** Recovery alone is not inductive: a save changes the slot that is not
active, so `IInv` says of the cache and of the medium that the active slot holds the
committed tree (its bytes, whatever pads them), that any newer header is of an attempted tree, and how much of the payload
has arrived at each step. `IInv` orders the generations of the two slots, so it, recovery
and the refinement need `SaveBound <= MaxGeneration`: with a saturated generation recovery
of the newest tree is false. `StoreInv` is what remains without that order, and the other
theorems follow from it for any number of saves, saturation included. For `OneSaveAtMost`
and `DamageFallsBack`, `HistoryInv` adds which tree the other slot has: the one committed
before, or one whose save was begun since; and that its payload is whole until a save is
begun. A damaged block is then either read as the same bytes, so that only padding was hit
and the newest tree is returned, or rejected by the checksum. Assumed of the checksum is that
two payloads of one length differ in it, which
FNV-1a, like any 64-bit sum, satisfies only with high probability, and of the device that
it writes one block atomically. Where a byte of a payload lies is arithmetic over any block
size (`Places`, `PaddedFacts`).

**Password.** `IInv` ties the failures counted to the wrong guesses made and the end of the
delay to the start of the last check. It assumes that adding a delay to the clock does not
saturate, and an exponent of at most 5. `ChangesNeedCurrent` holds whatever verifier
applications have put in place: the one that a call of `passwd` replaces is the one it
compared with, as no application runs during the call. `SaltsStayRandom` rests on what the loop over short
reads leaves: whatever the device returns, a fill that reports Ok has taken every byte from
the source. `SaltedIsSecurity` shows that the composition with salts implements `Security`, so
the theorems about the limiter hold of it too.

**Memory.** For every page size, memory map, set of buffers and contents, the heap lies in
the region it was taken from (`HeapFits`), addresses survive the translation to the direct
map and back (`AddressesRoundTrip`), and transfers stay intact. `MemoryInv` adds to the
latter what the page of a buffer holds while its transfer is under way, that queues lie in
the heap, and types. Every step of `Machine` is a step of `Memory`, leaves the memory alone
or loses it, so transfers stay intact there too. `MapAssumption` says that the addresses of
the direct map do not overflow and lie below the kernel image.

**Storage and machine.** `FileTreeProofs` has what each storage call makes of a tree:
`Good` trees (well formed, below the mounts) stay good, and a rename maps the files of the
source one to one. `WellFormed` needs it of every tree that a boot may find, hence
`StorageInv` says it of all attempted trees too; `FilesDurable` needs that the tree which a
failing save restores has the durable files, and `BootCompletesLayout` that the layout is
durable up to the step that the boot has reached. `PackagingInv` says that the directory or
image that a stage has just made has exactly the files of the workspace, whatever earlier
commands left there (`CopyIsExact`). `MachineInv` joins the two: a kernel's modules are the
files of the image it was started from, and only a running kernel uses the disk. It is assumed
that layout, marker and modules lie on the mounts and that no module is below another, as
the files of one directory are.

**Shell.** `ShellInv` says that the tree of the desktop is `Good` below `apps` and `user`,
`cwd` is normalized, the slot is the running application's, and handles are below the next
one. The lemmas before it state what `normalize_path` returns (a path without special
components, or the error), that what is below a path stays below it when both are
normalized (`NormalizedBelow`, which `ChangesAreApproved` needs for data directories of
any id), and what each call of the VFS and of a session leaves of a tree.
`PlatformsAreAlike` compares, for all good trees and all paths, the outcome of each
operation on the two platforms, case by case as the code branches.

**Network.** `EndIsLast` needs only the types in `NetInv`: it says that `recv` looks for data before it
looks for the end, and takes none without room. `NetInv` assigns every socket to exactly one owner (a handle, the call in
progress, or the refused ones), says that a free index is left while a connection is being
prepared, and that time spent and time left add up to at most the timeout.

**Console.** `ShiftInv` looks ahead: after the scan codes that wait have been read, shift
is off unless a shift key is still down. `LineInv` is `LineIsEdited` for the bytes so far; a
backspace removes the last byte that survives, which needs the depth of the bytes after
each one.

The provers know nothing of the set STRING; `StringsAssumption` and its like say of the
literals that the source spells out that they are strings. The induction rules of the
library take a predicate as a parameter and cannot be used; `Induction` in `FileTreeProofs`
is the rule for sets of naturals, from the least element that a nonempty set has. The
functions that stand for the code's loops (`Follow`, `Seeded`, `LaidOut`) are shown to exist
and are unfolded with it.

Only model-checked: liveness (`LockoutEnds`, `CallsReturn`, `SerialEscapeCancels`,
`SmokeEnds`), which the prover does not do; and the codec (`DecodingInverts`,
`DecodedIsEncodable`), whose operators are recursive over the payload.

## Not modelled

* Registers: `LegacyPciTransport`, the frames of `VirtioNet`, page tables, the UART's and
  the PS/2 controller's ports. They are hardware access without decisions of their own.
  VirtIO over MMIO on AArch64 is compiled but gated off, and modelled as that.
* The framebuffer: output only, nothing reads it back.
* The splitting of command lines and the syntax of directives: parsing without state.
  `Shell` starts from the words and the metadata they give.
* The port that a socket uses: `SocketsAccounted` says that the counter stays in its range
  and wraps, not that no older connection still has the port.
* The Rhai interpreter, smoltcp and the allocator are libraries, modelled from how AFOS
  uses them. The bindings of the runtime only convert arguments.
* The kernel executable and the desktop bundle in `Packaging`; `check_all` and
  `check_docs`, which change nothing.
* The bundled scripts keep no state; the web platform has no code.

Five behaviours that the models have are left without a property, because no document says
what should happen. An interrupted `package` can leave a data disk without blocks or a
loader that is cut short, and later commands accept both, until they are removed by hand;
the smoke test then fails. A failed write on the desktop can leave a shortened file, where
bare metal keeps the old one. Connections that an application does not close stay open
until the process ends. On bare metal a socket that `connect()` refuses after it was added
(net.rs:329) is never removed; `SocketsAccounted` counts it as dropped, apart from every
handle. A restart forgets the failed attempts of the password limiter; the
guess budget is stated between restarts.
