------------------------------ MODULE Console ------------------------------
(***************************************************************************)
(* The bare-metal console on x86_64: the serial line and the PS/2 keyboard *)
(* (ArchIo in platforms/bare-metal/src/arch.rs), read_line and poll_cancel *)
(* (console.rs).  Bytes wait in the UART and scan codes in the keyboard    *)
(* controller until one of the two polls them: read_line at the prompt and *)
(* in a call that asks for a line, poll_cancel in the progress callback of *)
(* the interpreter and in the loops of the network calls.                  *)
(*                                                                         *)
(* A letter, a digit and the keys with a meaning of their own stand for    *)
(* the table of map_scan_code.                                             *)
(***************************************************************************)
EXTENDS Integers, Sequences, FiniteSets, Functions

CONSTANTS
    Typed,          \* the keys that are pressed
    Sent,           \* the bytes that arrive on the serial line
    EventBound      \* bound: bytes and scan codes that arrive

Shifts == {"lshift", "rshift"}
Printable == {"x", "X", "1", "!", " "}

VARIABLES
    serial,     \* bytes in the UART
    scans,      \* scan codes in the controller
    held,       \* keys that are down
    shift, caps_lock,
    mode,       \* who polls: see Reads and Polls
    line,
    events,
    seen,       \* history: bytes that read_line took since the prompt
    cut         \* history: an Escape ended the loop that polled it, and no call began since

keyboard == <<scans, shift, caps_lock>>
console == <<serial, keyboard, held, mode, line, events, seen, cut>>

\* read_line polls: at the prompt of the shell, and in a call of an application that asks
\* for a line, its own or the permission prompt.
Reads == {"line", "asking"}
\* poll_cancel polls: while the interpreter evaluates, in net_status, and in the calls that
\* connect, send or receive.
Polls == {"running", "status", "network"}

-----------------------------------------------------------------------------
(***************************************************************************)
(* Input arrives.                                                          *)
(***************************************************************************)

Receive(byte) ==
    /\ events < EventBound
    /\ serial' = Append(serial, byte)
    /\ events' = events + 1
    /\ UNCHANGED <<keyboard, held, mode, line, seen, cut>>

Press(key) ==
    /\ events < EventBound /\ key \notin held
    /\ scans' = Append(scans, [key |-> key, break |-> FALSE])
    /\ held' = held \cup {key}
    /\ events' = events + 1
    /\ UNCHANGED <<serial, shift, caps_lock, mode, line, seen, cut>>

\* What is down comes up, also beyond the bound.
Release(key) ==
    /\ scans' = Append(scans, [key |-> key, break |-> TRUE])
    /\ held' = held \ {key}
    /\ UNCHANGED <<serial, shift, caps_lock, mode, line, events, seen, cut>>

-----------------------------------------------------------------------------
(***************************************************************************)
(* poll_byte: the serial line first, then the keyboard.                    *)
(***************************************************************************)

\* map_scan_code: letters follow shift and caps lock, the other characters shift alone.
\* The table has no entry for Escape.
MapScanCode(key) ==
    CASE key = "letter" -> <<IF shift # caps_lock THEN "X" ELSE "x">>
      [] key = "digit" -> <<IF shift THEN "!" ELSE "1">>
      [] key \in {"enter", "backspace", "tab"} -> <<key>>
      [] OTHER -> <<>>

\* Mutation: only the left key's break code is known.
ShiftAfter_LeftOnly(scan) ==
    IF scan.key \notin Shifts THEN shift
    ELSE IF scan.break THEN shift /\ scan.key # "lshift" ELSE TRUE

ShiftAfter(scan) == IF scan.key \in Shifts THEN ~scan.break ELSE shift

\* keyboard_read: the byte of the scan code, if it has one.
KeyboardByte(scan) ==
    IF scan.break \/ scan.key \in Shifts \cup {"caps"} THEN <<>> ELSE MapScanCode(scan.key)

\* The byte that a poll of an input that is not empty yields, if any.
Polled == IF serial # <<>> THEN <<Head(serial)>> ELSE KeyboardByte(Head(scans))

\* What the poll takes.
PollByte ==
    \/ /\ serial # <<>>
       /\ serial' = Tail(serial)
       /\ UNCHANGED keyboard
    \/ /\ serial = <<>> /\ scans # <<>>
       /\ scans' = Tail(scans)
       /\ shift' = ShiftAfter(Head(scans))
       /\ caps_lock' = (caps_lock # (Head(scans) = [key |-> "caps", break |-> FALSE]))
       /\ UNCHANGED serial

-----------------------------------------------------------------------------
(***************************************************************************)
(* read_line and poll_cancel.                                              *)
(***************************************************************************)

\* Mutation: a backspace clears the line.
Edit_Clears(text, byte) ==
    IF byte = "backspace" THEN <<>>
    ELSE IF byte = "tab" THEN Append(text, " ")
    ELSE IF byte \in Printable THEN Append(text, byte) ELSE text

Edit(text, byte) ==
    CASE byte = "backspace" -> SubSeq(text, 1, Len(text) - 1)
      [] byte = "tab" -> Append(text, " ")
      [] byte \in Printable -> Append(text, byte)
      [] OTHER -> text

\* Enter starts an application, or returns the line to the one that asked for it.
Edits(polled) ==
    IF polled = <<"enter">>
    THEN mode' = "running" /\ line' = <<>> /\ seen' = <<>>
    ELSE /\ line' = IF polled = <<>> THEN line ELSE Edit(line, Head(polled))
         /\ seen' = seen \o polled
         /\ UNCHANGED mode

ReadLine ==
    /\ mode \in Reads
    /\ PollByte /\ Edits(Polled)
    /\ UNCHANGED <<held, events, cut>>

\* Where an Escape leaves a run: the interpreter terminates it; net_status stops waiting and
\* reports; the other network calls fail, and the application handles that or ends.
Escaped ==
    [running |-> {"line"}, status |-> {"running"}, network |-> {"running", "line"}]

\* What is not Escape is thrown away.
CancelsOn(polled) ==
    /\ mode' \in IF polled = <<"escape">> THEN Escaped[mode] ELSE {mode}
    /\ cut' = (mode' # mode)
    /\ UNCHANGED <<line, seen>>

\* Mutation: only an Escape is taken from the line.
PollCancel_Peeks ==
    /\ mode \in Polls /\ serial # <<>> /\ Head(serial) = "escape"
    /\ PollByte /\ CancelsOn(Polled) /\ UNCHANGED <<held, events>>

PollCancel == mode \in Polls /\ PollByte /\ CancelsOn(Polled) /\ UNCHANGED <<held, events>>

\* The application makes a call that asks for a line or waits for the network.
Begins(kind) ==
    /\ mode = "running"
    /\ mode' = kind /\ cut' = FALSE
    /\ UNCHANGED <<serial, keyboard, held, line, events, seen>>

\* The network answers, or the time of the call is up.
Returns ==
    /\ mode \in {"status", "network"}
    /\ mode' = "running"
    /\ UNCHANGED <<serial, keyboard, held, line, events, seen, cut>>

\* The application returns, and the shell prompts again.
Finishes ==
    /\ mode = "running"
    /\ mode' = "line"
    /\ UNCHANGED <<serial, keyboard, held, line, events, seen, cut>>

-----------------------------------------------------------------------------

ConsoleInit ==
    /\ serial = <<>> /\ scans = <<>> /\ held = {}
    /\ shift = FALSE /\ caps_lock = FALSE
    /\ mode = "line" /\ line = <<>> /\ events = 0 /\ seen = <<>>
    /\ cut = FALSE

ConsoleNext ==
    \/ \E byte \in Sent : Receive(byte)
    \/ \E key \in Typed : Press(key)
    \/ \E key \in held : Release(key)
    \/ ReadLine \/ PollCancel
    \/ \E kind \in {"asking", "status", "network"} : Begins(kind)
    \/ Returns \/ Finishes

ConsoleSpec == ConsoleInit /\ [][ConsoleNext]_console

\* The thread polls again and again while something waits (the loop of read_line, the
\* progress callback and the network loops); an application need not finish.
ConsoleFairSpec == ConsoleSpec /\ WF_console(ReadLine) /\ WF_console(PollCancel)

-----------------------------------------------------------------------------
(***************************************************************************)
(* Properties.                                                             *)
(***************************************************************************)

\* A character at position i of the bytes is still in the line when no backspace after it
\* was left over from the characters that came after it.
Pushes(byte) == byte \in Printable \cup {"tab"}
Depth(bytes, i, j) ==
    Cardinality({k \in i + 1 .. j : Pushes(bytes[k])})
        - Cardinality({k \in i + 1 .. j : bytes[k] = "backspace"})
Survivors(bytes) ==
    {i \in 1 .. Len(bytes) : Pushes(bytes[i]) /\
        \A j \in i .. Len(bytes) : Depth(bytes, i, j) >= 0}

Character(byte) == IF byte = "tab" THEN " " ELSE byte

\* The line is what editing leaves of the bytes that came from both inputs since the
\* prompt: the characters that no backspace reaches, in their order (read_line).
LineIsEdited ==
    \E at \in [1 .. Len(line) -> 1 .. Len(seen)] :
        /\ \A m, n \in 1 .. Len(line) : m < n => at[m] < at[n]
        /\ Range(at) = Survivors(seen)
        /\ \A n \in 1 .. Len(line) : line[n] = Character(seen[at[n]])

\* When no key is down and the controller is empty, shift is off: no order of the two
\* shift keys, at the prompt or during a run, leaves it stuck (keyboard_read).
ShiftNotStuck == held = {} /\ scans = <<>> => ~shift

\* What an Escape may do to a run: end it, or end the wait of the network call that polls
\* it.  A call that asks for a line reads it as any other byte.
Noticed == cut \/ mode \in Reads

\* An Escape that comes over the serial line during a run is not lost, whatever came before
\* it: the run ends, or the wait of the network call that it is in, unless the run ends by
\* itself or asks for a line first (poll_cancel, poll_byte, on_progress, with_net).
SerialEscapeCancels ==
    (mode \in Polls /\ "escape" \in Range(serial)) ~> Noticed

\* "Escape cancellation on bare metal" (docs/ARCHITECTURE.md), from the keyboard: an Escape
\* that is pressed during a run ends it, or the wait that it is in (keyboard_read,
\* map_scan_code, poll_cancel).
KeyEscapeCancels ==
    (mode \in Polls /\ [key |-> "escape", break |-> FALSE] \in Range(scans)) ~> Noticed

=============================================================================
