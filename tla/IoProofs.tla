------------------------------ MODULE IoProofs ------------------------------
(***************************************************************************)
(* What the bare-metal platform reads and sends: the shift state and the   *)
(* edited line of Console, for any keys, bytes and number of events, and   *)
(* the handles, sockets and deadlines of NetStack, for every number of     *)
(* sockets and connections and every timeout.                              *)
(***************************************************************************)
EXTENDS Console, NetStack, FiniteSetTheorems, TLAPS

-----------------------------------------------------------------------------
\* The console: the shift state and the edited line.
\* The bytes that poll_byte can yield.
Bytes == Sent \cup {"x", "X", "1", "!", "enter", "backspace", "tab"}
Scan == [key : Typed, break : BOOLEAN]

ConsoleTypeOK ==
    /\ serial \in Seq(Sent)
    /\ scans \in Seq(Scan)
    /\ held \subseteq Typed
    /\ shift \in BOOLEAN /\ caps_lock \in BOOLEAN
    /\ seen \in Seq(Bytes)
    /\ line \in Seq(Printable)

\* The last code of a shift key in the controller, if there is one, says what shift will
\* be when all are polled; without one shift is what it will be.
NoShiftAfter(i) == \A j \in i + 1 .. Len(scans) : scans[j].key \notin Shifts
ShiftWillBeOff ==
    \/ ~shift /\ NoShiftAfter(0)
    \/ \E i \in 1 .. Len(scans) :
           scans[i].key \in Shifts /\ scans[i].break /\ NoShiftAfter(i)

ShiftInv == held \cap Shifts = {} => ShiftWillBeOff

\* The positions of the line's characters among the bytes, and how many characters are
\* behind each: a backspace takes the one with none.
EditedAt(at) ==
    /\ at \in [1 .. Len(line) -> 1 .. Len(seen)]
    /\ \A m, n \in 1 .. Len(line) : m < n => at[m] < at[n]
    /\ Range(at) = Survivors(seen)
    /\ \A n \in 1 .. Len(line) : line[n] = Character(seen[at[n]])
    /\ \A n \in 1 .. Len(line) : Depth(seen, at[n], Len(seen)) = Len(line) - n

LineInv == \E at : EditedAt(at)

-----------------------------------------------------------------------------
(***************************************************************************)
(* Types.                                                                  *)
(***************************************************************************)

\* A poll yields at most one byte (poll_byte, keyboard_read).
LEMMA PolledType ==
    ASSUME ConsoleTypeOK, PollByte
    PROVE  \/ Polled = <<>>
           \/ \E byte \in Bytes : Polled = <<byte>>
<1>1. CASE serial # <<>>
  BY <1>1 DEF Polled, ConsoleTypeOK, Bytes
<1>2. CASE serial = <<>>
  BY <1>2 DEF Polled, KeyboardByte, MapScanCode, Bytes
<1>. QED  BY <1>1, <1>2

\* What read_line does with a byte, case by case.
LEMMA EditCases ==
    ASSUME NEW text, NEW byte
    PROVE  /\ byte = "backspace" => Edit(text, byte) = SubSeq(text, 1, Len(text) - 1)
           /\ Pushes(byte) => Edit(text, byte) = Append(text, Character(byte))
           /\ ~Pushes(byte) /\ byte # "backspace" => Edit(text, byte) = text
<1>1. ~Pushes("backspace")
  BY DEF Pushes, Printable
<1>2. "tab" \notin Printable
  BY DEF Printable
<1>3. ASSUME byte = "backspace" PROVE Edit(text, byte) = SubSeq(text, 1, Len(text) - 1)
  BY <1>3, <1>1, Zenon DEF Edit, Pushes
<1>4. ASSUME Pushes(byte) PROVE Edit(text, byte) = Append(text, Character(byte))
  BY <1>4, <1>1, <1>2, Zenon DEF Edit, Pushes, Character
<1>5. ASSUME ~Pushes(byte), byte # "backspace" PROVE Edit(text, byte) = text
  BY <1>5, Zenon DEF Edit, Pushes
<1>. QED  BY <1>3, <1>4, <1>5

\* What is left of a line whose end is removed (read_line).
LEMMA Popped ==
    ASSUME NEW S, NEW s, NEW n \in Int, \A i \in 1 .. n : s[i] \in S
    PROVE  /\ SubSeq(s, 1, n) \in Seq(S)
           /\ Len(SubSeq(s, 1, n)) = IF 1 <= n THEN n ELSE 0
           /\ \A i \in 1 .. n : SubSeq(s, 1, n)[i] = s[i]
           /\ n < 1 => SubSeq(s, 1, n) = <<>>
  OBVIOUS

\* Editing keeps the line printable (read_line).
LEMMA EditType ==
    ASSUME NEW text \in Seq(Printable), NEW byte
    PROVE  Edit(text, byte) \in Seq(Printable)
<1>1. SubSeq(text, 1, Len(text) - 1) \in Seq(Printable)
  <2>1. \A i \in 1 .. Len(text) - 1 : text[i] \in Printable
    OBVIOUS
  <2>. QED  BY <2>1, Popped
<1>2. Pushes(byte) => Character(byte) \in Printable
  BY Zenon DEF Pushes, Character, Printable
<1>3. Pushes(byte) => Append(text, Character(byte)) \in Seq(Printable)
  BY <1>2
<1>. QED  BY <1>1, <1>3, EditCases, Zenon

\* What a poll takes from the two inputs, and what it does to the shift state.
LEMMA PollFacts ==
    ASSUME ConsoleTypeOK, PollByte
    PROVE  /\ serial' \in Seq(Sent) /\ scans' \in Seq(Scan)
           /\ shift' \in BOOLEAN /\ caps_lock' \in BOOLEAN
           /\ \/ scans' = scans /\ shift' = shift
              \/ /\ scans # <<>> /\ scans' = Tail(scans)
                 /\ shift' = ShiftAfter(Head(scans))
<1>1. CASE serial # <<>> /\ serial' = Tail(serial) /\ UNCHANGED keyboard
  BY <1>1 DEF ConsoleTypeOK, keyboard
<1>2. CASE /\ serial = <<>> /\ scans # <<>>
           /\ scans' = Tail(scans)
           /\ shift' = ShiftAfter(Head(scans))
           /\ caps_lock' = (caps_lock # (Head(scans) = [key |-> "caps", break |-> FALSE]))
           /\ UNCHANGED serial
  <2>1. Head(scans) \in Scan /\ Tail(scans) \in Seq(Scan)
    BY <1>2 DEF ConsoleTypeOK
  <2>2. shift' \in BOOLEAN
    BY <1>2, <2>1, Zenon DEF ShiftAfter, ConsoleTypeOK, Scan
  <2>3. caps_lock' \in BOOLEAN
    BY <1>2
  <2>. QED  BY <1>2, <2>1, <2>2, <2>3 DEF ConsoleTypeOK
<1>. QED  BY <1>1, <1>2 DEF PollByte

\* The console starts with both inputs and the line empty.
LEMMA InitType == ConsoleInit => ConsoleTypeOK
<1>1. \A S : <<>> \in Seq(S)
  OBVIOUS
<1>. QED  BY <1>1, Zenon DEF ConsoleInit, ConsoleTypeOK

\* Every step keeps the types.
LEMMA NextType == ConsoleTypeOK /\ [ConsoleNext]_console => ConsoleTypeOK'
<1>. SUFFICES ASSUME ConsoleTypeOK, [ConsoleNext]_console PROVE ConsoleTypeOK'
  OBVIOUS
<1>1. ASSUME NEW byte \in Sent, Receive(byte) PROVE ConsoleTypeOK'
  BY <1>1 DEF Receive, ConsoleTypeOK, keyboard
<1>2. ASSUME NEW key \in Typed, Press(key) PROVE ConsoleTypeOK'
  <2>1. [key |-> key, break |-> FALSE] \in Scan
    BY DEF Scan
  <2>. QED  BY <1>2, <2>1 DEF Press, ConsoleTypeOK
<1>3. ASSUME NEW key \in held, Release(key) PROVE ConsoleTypeOK'
  <2>1. [key |-> key, break |-> TRUE] \in Scan
    BY DEF Scan, ConsoleTypeOK
  <2>. QED  BY <1>3, <2>1 DEF Release, ConsoleTypeOK
<1>4. CASE ReadLine
  <2>1. PollByte /\ Edits(Polled) /\ held' = held
    BY <1>4 DEF ReadLine
  <2>2. /\ serial' \in Seq(Sent) /\ scans' \in Seq(Scan)
        /\ shift' \in BOOLEAN /\ caps_lock' \in BOOLEAN
    BY <2>1, PollFacts
  <2>3. line' \in Seq(Printable) /\ seen' \in Seq(Bytes)
    <3>1. CASE Polled = <<"enter">>
      BY <2>1, <3>1 DEF Edits
    <3>2. CASE Polled = <<>>
      BY <2>1, <3>2 DEF Edits, ConsoleTypeOK
    <3>3. CASE Polled # <<"enter">> /\ \E byte \in Bytes : Polled = <<byte>>
      <4>1. PICK byte \in Bytes : Polled = <<byte>>
        BY <3>3
      <4>2. line' = Edit(line, byte) /\ seen' = seen \o <<byte>>
        BY <2>1, <3>3, <4>1 DEF Edits
      <4>. QED  BY <4>2, EditType DEF ConsoleTypeOK
    <3>. QED  BY <2>1, <3>1, <3>2, <3>3, PolledType
  <2>. QED  BY <2>1, <2>2, <2>3 DEF ConsoleTypeOK
<1>5. CASE PollCancel
  BY <1>5, PollFacts DEF PollCancel, CancelsOn, ConsoleTypeOK
<1>6. CASE UNCHANGED <<serial, keyboard, held, line, seen>>
  BY <1>6 DEF ConsoleTypeOK, keyboard
<1>. QED
  BY <1>1, <1>2, <1>3, <1>4, <1>5, <1>6 DEF ConsoleNext, Begins, Returns, Finishes, console

-----------------------------------------------------------------------------
(***************************************************************************)
(* Shift.                                                                  *)
(***************************************************************************)

\* A key that is no shift key leaves what shift will be alone.
LEMMA OtherKey ==
    ASSUME ConsoleTypeOK, ShiftWillBeOff, NEW scan \in Scan, scan.key \notin Shifts,
           scans' = Append(scans, scan), shift' = shift
    PROVE  ShiftWillBeOff'
<1>1. /\ Len(scans') = Len(scans) + 1 /\ Len(scans) \in Nat
      /\ scans'[Len(scans) + 1] = scan
      /\ \A i \in 1 .. Len(scans) : scans'[i] = scans[i]
  BY DEF ConsoleTypeOK
<1>2. CASE ~shift /\ NoShiftAfter(0)
  BY <1>1, <1>2 DEF ShiftWillBeOff, NoShiftAfter
<1>3. CASE \E i \in 1 .. Len(scans) :
               scans[i].key \in Shifts /\ scans[i].break /\ NoShiftAfter(i)
  <2>1. PICK i \in 1 .. Len(scans) :
               scans[i].key \in Shifts /\ scans[i].break /\ NoShiftAfter(i)
    BY <1>3
  <2>2. NoShiftAfter(i)'
    BY <1>1, <2>1 DEF NoShiftAfter
  <2>3. i \in 1 .. Len(scans') /\ scans'[i].key \in Shifts /\ scans'[i].break
    BY <1>1, <2>1
  <2>. QED  BY <2>2, <2>3 DEF ShiftWillBeOff
<1>. QED  BY <1>2, <1>3 DEF ShiftWillBeOff

\* The break code of a shift key settles it.
LEMMA ShiftReleased ==
    ASSUME ConsoleTypeOK, NEW scan \in Scan, scan.key \in Shifts, scan.break,
           scans' = Append(scans, scan)
    PROVE  ShiftWillBeOff'
<1>1. /\ Len(scans') = Len(scans) + 1 /\ Len(scans) \in Nat
      /\ scans'[Len(scans) + 1] = scan
  BY DEF ConsoleTypeOK
<1>. QED  BY <1>1 DEF ShiftWillBeOff, NoShiftAfter

\* Polling a scan code does what it announced.
LEMMA PollKeepsShift ==
    ASSUME ConsoleTypeOK, ShiftWillBeOff, PollByte
    PROVE  ShiftWillBeOff'
<1>1. CASE scans' = scans /\ shift' = shift
  BY <1>1 DEF ShiftWillBeOff, NoShiftAfter
<1>2. CASE scans # <<>> /\ scans' = Tail(scans) /\ shift' = ShiftAfter(Head(scans))
  <2>1. /\ Len(scans) \in Nat \ {0} /\ Len(scans') = Len(scans) - 1
        /\ Head(scans) = scans[1] /\ scans[1] \in Scan
        /\ \A j \in 1 .. Len(scans') : scans'[j] = scans[j + 1]
    BY <1>2 DEF ConsoleTypeOK
  <2>2. ASSUME NEW i \in Nat, NoShiftAfter(i + 1)
        PROVE  NoShiftAfter(i)'
    BY <2>1, <2>2 DEF NoShiftAfter
  <2>3. CASE ~shift /\ NoShiftAfter(0)
    <3>1. NoShiftAfter(1) /\ scans[1].key \notin Shifts
      BY <2>1, <2>3 DEF NoShiftAfter
    <3>. QED  BY <1>2, <2>1, <2>2, <2>3, <3>1 DEF ShiftAfter, ShiftWillBeOff
  <2>4. CASE scans[1].key \in Shifts /\ scans[1].break /\ NoShiftAfter(1)
    <3>1. ~shift'
      BY <1>2, <2>1, <2>4, Zenon DEF ShiftAfter
    <3>2. NoShiftAfter(0)'
      BY <2>2, <2>4
    <3>. QED  BY <3>1, <3>2 DEF ShiftWillBeOff
  <2>5. CASE \E i \in 2 .. Len(scans) :
                 scans[i].key \in Shifts /\ scans[i].break /\ NoShiftAfter(i)
    <3>1. PICK i \in 2 .. Len(scans) :
                 scans[i].key \in Shifts /\ scans[i].break /\ NoShiftAfter(i)
      BY <2>5
    <3>2. NoShiftAfter(i - 1)'
      BY <2>1, <3>1 DEF NoShiftAfter
    <3>3. i - 1 \in 1 .. Len(scans') /\ scans'[i - 1] = scans[i]
      BY <2>1
    <3>. QED  BY <3>1, <3>2, <3>3 DEF ShiftWillBeOff
  <2>. QED  BY <2>1, <2>3, <2>4, <2>5 DEF ShiftWillBeOff
<1>. QED  BY <1>1, <1>2, PollFacts

\* With no shift key down, shift will be off when the controller is empty, before and after
\* every step.
LEMMA NextShift == ConsoleTypeOK /\ ShiftInv /\ [ConsoleNext]_console => ShiftInv'
<1>. SUFFICES ASSUME ConsoleTypeOK, ShiftInv, [ConsoleNext]_console, held' \cap Shifts = {}
              PROVE  ShiftWillBeOff'
  BY DEF ShiftInv
<1>1. ASSUME NEW key \in Typed, Press(key) PROVE ShiftWillBeOff'
  <2>1. held \cap Shifts = {} /\ key \notin Shifts
    BY <1>1 DEF Press
  <2>2. [key |-> key, break |-> FALSE] \in Scan
    BY DEF Scan
  <2>. QED  BY <1>1, <2>1, <2>2, OtherKey DEF Press, ShiftInv
<1>2. ASSUME NEW key \in held, Release(key) PROVE ShiftWillBeOff'
  <2>1. [key |-> key, break |-> TRUE] \in Scan
    BY DEF Scan, ConsoleTypeOK
  <2>2. CASE key \in Shifts
    BY <1>2, <2>1, <2>2, ShiftReleased DEF Release
  <2>3. CASE key \notin Shifts
    <3>1. held \cap Shifts = {}
      BY <1>2, <2>3 DEF Release
    <3>. QED  BY <1>2, <2>1, <2>3, <3>1, OtherKey DEF Release, ShiftInv
  <2>. QED  BY <2>2, <2>3
<1>3. CASE ReadLine \/ PollCancel
  <2>1. PollByte /\ held' = held
    BY <1>3 DEF ReadLine, PollCancel
  <2>. QED  BY <2>1, PollKeepsShift DEF ShiftInv
<1>4. CASE UNCHANGED <<scans, shift, held>>
  BY <1>4 DEF ShiftInv, ShiftWillBeOff, NoShiftAfter
<1>. QED
  BY <1>1, <1>2, <1>3, <1>4 DEF ConsoleNext, Receive, Begins, Returns, Finishes,
                                  console, keyboard

\* No order of the two shift keys, at the prompt or during a run, leaves shift on when no
\* key is down and all scan codes were read (keyboard_read).
THEOREM ShiftComesBack == ConsoleSpec => []ShiftNotStuck
<1>1. ConsoleInit => ShiftInv
  BY DEF ConsoleInit, ShiftInv, ShiftWillBeOff, NoShiftAfter
<1>2. ConsoleTypeOK /\ ShiftInv => ShiftNotStuck
  BY DEF ShiftInv, ShiftWillBeOff, ShiftNotStuck
<1>. QED  BY <1>1, <1>2, InitType, NextType, NextShift, PTL DEF ConsoleSpec

-----------------------------------------------------------------------------
(***************************************************************************)
(* The line.                                                               *)
(***************************************************************************)

\* Nothing comes between a byte and itself.
LEMMA DepthSelf ==
    ASSUME NEW u, NEW i \in Int
    PROVE  Depth(u, i, i) = 0
<1>1. i + 1 .. i = {}
  OBVIOUS
<1>2. /\ {k \in i + 1 .. i : Pushes(u[k])} = {}
      /\ {k \in i + 1 .. i : u[k] = "backspace"} = {}
  BY <1>1
<1>3. Depth(u, i, i) = Cardinality({}) - Cardinality({})
  BY <1>2, Zenon DEF Depth
<1>. QED  BY <1>3, FS_EmptySet

\* Counting goes on by the byte that comes: a character is one more to be taken back, a
\* backspace one less.
LEMMA DepthNext ==
    ASSUME NEW s \in Seq(Bytes), NEW b \in Bytes, NEW i \in 1 .. Len(s) + 1
    PROVE  LET t == Append(s, b) IN
           /\ \A j \in i .. Len(s) : Depth(s, i, j) \in Int /\ Depth(t, i, j) = Depth(s, i, j)
           /\ i <= Len(s) =>
                  Depth(t, i, Len(s) + 1) =
                      Depth(s, i, Len(s)) + (IF Pushes(b) THEN 1 ELSE IF b = "backspace" THEN -1 ELSE 0)
<1>. DEFINE t == Append(s, b)
            N == Len(s) + 1
            P(u, j) == {k \in i + 1 .. j : Pushes(u[k])}
            B(u, j) == {k \in i + 1 .. j : u[k] = "backspace"}
<1>1. N \in Nat /\ Len(s) \in Nat /\ t[N] = b /\ \A k \in 1 .. Len(s) : t[k] = s[k]
  OBVIOUS
<1>2. \A j \in i .. Len(s) : P(t, j) = P(s, j) /\ B(t, j) = B(s, j)
  BY <1>1
<1>3. ASSUME NEW j \in Int
      PROVE  /\ IsFiniteSet(P(s, j)) /\ Cardinality(P(s, j)) \in Nat
             /\ IsFiniteSet(B(s, j)) /\ Cardinality(B(s, j)) \in Nat
  <2>1. IsFiniteSet(i + 1 .. j)
    BY FS_Interval
  <2>2. P(s, j) \subseteq i + 1 .. j /\ B(s, j) \subseteq i + 1 .. j
    OBVIOUS
  <2>. HIDE DEF P, B
  <2>. QED  BY <2>1, <2>2, FS_Subset, FS_CardinalityType
<1>5. \A u, j : Depth(u, i, j) = Cardinality(P(u, j)) - Cardinality(B(u, j))
  BY DEF Depth
<1>6. ~Pushes("backspace")
  BY DEF Pushes, Printable
<1>7. i <= Len(s) => P(t, N) = IF Pushes(b) THEN P(s, Len(s)) \cup {N} ELSE P(s, Len(s))
  BY <1>1
<1>8. i <= Len(s) => B(t, N) = IF b = "backspace" THEN B(s, Len(s)) \cup {N} ELSE B(s, Len(s))
  BY <1>1
<1>9. N \notin P(s, Len(s)) /\ N \notin B(s, Len(s))
  OBVIOUS
<1>. HIDE DEF P, B
<1>4. IsFiniteSet(P(s, Len(s))) /\ IsFiniteSet(B(s, Len(s)))
  BY <1>1, <1>3
<1>10. /\ Cardinality(P(s, Len(s)) \cup {N}) = Cardinality(P(s, Len(s))) + 1
       /\ Cardinality(B(s, Len(s)) \cup {N}) = Cardinality(B(s, Len(s))) + 1
  BY <1>4, <1>9, FS_AddElement, Zenon
<1>11. ASSUME NEW j \in i .. Len(s)
       PROVE  Depth(s, i, j) \in Int /\ Depth(t, i, j) = Depth(s, i, j)
  <2>1. Cardinality(P(s, j)) \in Nat /\ Cardinality(B(s, j)) \in Nat
    BY <1>3
  <2>. QED  BY <1>2, <1>5, <2>1
<1>12. i <= Len(s) =>
          Depth(t, i, N) =
              Depth(s, i, Len(s)) + (IF Pushes(b) THEN 1 ELSE IF b = "backspace" THEN -1 ELSE 0)
  <2>1. Cardinality(P(s, Len(s))) \in Nat /\ Cardinality(B(s, Len(s))) \in Nat
    BY <1>1, <1>3
  <2>. QED  BY <1>5, <1>6, <1>7, <1>8, <1>10, <2>1
<1>. QED  BY <1>11, <1>12

\* A character survives its own arrival; a backspace takes those that have none behind them.
LEMMA SurvivorsNext ==
    ASSUME NEW s \in Seq(Bytes), NEW b \in Bytes
    PROVE  LET t == Append(s, b) IN
           /\ Pushes(b) => Survivors(t) = Survivors(s) \cup {Len(s) + 1}
           /\ b = "backspace" => Survivors(t) = {i \in Survivors(s) : Depth(s, i, Len(s)) >= 1}
           /\ ~Pushes(b) /\ b # "backspace" => Survivors(t) = Survivors(s)
<1>. DEFINE t == Append(s, b)
            N == Len(s) + 1
            change == IF Pushes(b) THEN 1 ELSE IF b = "backspace" THEN -1 ELSE 0
<1>1. /\ N \in Nat /\ Len(t) = N /\ Len(s) \in Nat /\ t[N] = b /\ t \in Seq(Bytes)
      /\ \A k \in 1 .. Len(s) : t[k] = s[k]
  OBVIOUS
<1>2. ASSUME NEW i \in 1 .. Len(s)
      PROVE  i \in Survivors(t) <=> i \in Survivors(s) /\ Depth(s, i, Len(s)) + change >= 0
  <2>1. /\ \A j \in i .. Len(s) : Depth(s, i, j) \in Int /\ Depth(t, i, j) = Depth(s, i, j)
        /\ Depth(t, i, N) = Depth(s, i, Len(s)) + change
    BY DepthNext
  <2>2. i .. N = (i .. Len(s)) \cup {N}
    BY <1>1
  <2>. HIDE DEF change, t
  <2>. QED  BY <1>1, <2>1, <2>2 DEF Survivors
<1>3. Depth(t, N, N) = 0
  BY <1>1, DepthSelf
<1>4. N \in Survivors(t) <=> Pushes(b)
  BY <1>1, <1>3 DEF Survivors
<1>5. Survivors(s) \subseteq 1 .. Len(s) /\ Survivors(t) \subseteq 1 .. N
  BY <1>1 DEF Survivors
<1>6. \A i \in Survivors(s) : Depth(s, i, Len(s)) \in Int /\ Depth(s, i, Len(s)) >= 0
  BY <1>1, DepthNext DEF Survivors
<1>7. ~Pushes("backspace")
  BY DEF Pushes, Printable
<1>8. Survivors(t) = {i \in Survivors(s) : Depth(s, i, Len(s)) + change >= 0}
                         \cup (IF Pushes(b) THEN {N} ELSE {})
  <2>. HIDE DEF t, change, N
  <2>1. 1 .. N = (1 .. Len(s)) \cup {N}
    BY <1>1 DEF N
  <2>. QED  BY <1>2, <1>4, <1>5, <2>1
<1>. HIDE DEF t
<1>9. Pushes(b) => Survivors(t) = Survivors(s) \cup {N}
  BY <1>6, <1>8
<1>10. b = "backspace" => Survivors(t) = {i \in Survivors(s) : Depth(s, i, Len(s)) >= 1}
  BY <1>6, <1>7, <1>8
<1>11. ~Pushes(b) /\ b # "backspace" => Survivors(t) = Survivors(s)
  BY <1>6, <1>8
<1>. QED  BY <1>9, <1>10, <1>11 DEF t

\* One more byte: the line follows, whatever the byte is (read_line).
LEMMA EditKeepsLine ==
    ASSUME ConsoleTypeOK, LineInv, NEW b \in Bytes,
           line' = Edit(line, b), seen' = Append(seen, b)
    PROVE  LineInv'
<1>. DEFINE N == Len(seen) + 1
            L == Len(line)
<1>1. PICK at : EditedAt(at)
  BY DEF LineInv
<1>2. /\ seen \in Seq(Bytes) /\ line \in Seq(Printable) /\ L \in Nat /\ Len(seen) \in Nat
      /\ seen' \in Seq(Bytes) /\ Len(seen') = N /\ seen'[N] = b
      /\ \A k \in 1 .. Len(seen) : seen'[k] = seen[k]
  BY DEF ConsoleTypeOK
<1>3. /\ at \in [1 .. L -> 1 .. Len(seen)]
      /\ \A m, n \in 1 .. L : m < n => at[m] < at[n]
      /\ \A n \in 1 .. L : line[n] = Character(seen[at[n]])
      /\ \A n \in 1 .. L : Depth(seen, at[n], Len(seen)) = L - n
  BY <1>1 DEF EditedAt
<1>4. Survivors(seen) = {at[n] : n \in 1 .. L}
  BY <1>1, <1>3 DEF EditedAt, Range
<1>5. ~Pushes("backspace")
  BY DEF Pushes, Printable
<1>6. ASSUME NEW n \in 1 .. L
      PROVE  Depth(seen', at[n], N)
                 = L - n + (IF Pushes(b) THEN 1 ELSE IF b = "backspace" THEN -1 ELSE 0)
  <2>1. at[n] \in 1 .. Len(seen) /\ Depth(seen, at[n], Len(seen)) = L - n
    BY <1>3
  <2>. QED  BY <1>2, <2>1, DepthNext
<1>. HIDE DEF L, N
<1>7. CASE Pushes(b)
  <2>0. PICK new : new = [n \in 1 .. L + 1 |-> IF n = L + 1 THEN N ELSE at[n]]
    BY Zenon
  <2>1. line' = Append(line, Character(b))
    BY <1>7, EditCases
  <2>2. Len(line') = L + 1 /\ line'[L + 1] = Character(b)
    BY <1>2, <2>1 DEF L
  <2>3. /\ DOMAIN new = 1 .. L + 1 /\ new[L + 1] = N
        /\ \A n \in 1 .. L : new[n] = at[n] /\ at[n] \in 1 .. Len(seen)
    BY <1>2, <1>3, <2>0
  <2>4. \A n \in 1 .. L : line'[n] = line[n]
    BY <1>2, <2>1 DEF L
  <2>5. 1 .. Len(line') = (1 .. L) \cup {L + 1} /\ Len(seen') = N /\ N \in 1 .. N
    BY <1>2, <2>2 DEF N
  <2>6. new \in [1 .. Len(line') -> 1 .. Len(seen')]
    BY <1>2, <1>3, <2>0, <2>2 DEF N
  <2>7. ASSUME NEW m \in 1 .. Len(line'), NEW n \in 1 .. Len(line'), m < n
        PROVE  new[m] < new[n]
    <3>1. m \in 1 .. L
      BY <1>2, <2>2, <2>7
    <3>2. CASE n = L + 1
      <4>1. new[n] = Len(seen) + 1 /\ new[m] \in 1 .. Len(seen)
        BY <2>3, <3>1, <3>2 DEF N
      <4>. QED  BY <1>2, <4>1
    <3>3. CASE n \in 1 .. L
      <4>1. at[m] < at[n]
        BY <1>3, <2>7, <3>1, <3>3
      <4>. QED  BY <2>3, <3>1, <3>3, <4>1
    <3>. QED  BY <2>5, <3>2, <3>3
  <2>8. Range(new) = {new[n] : n \in 1 .. L} \cup {N}
    BY <2>3, <2>5, <2>2 DEF Range
  <2>9. Range(new) = Survivors(seen')
    <3>1. Survivors(seen') = Survivors(seen) \cup {N}
      BY <1>2, <1>7, SurvivorsNext DEF N
    <3>2. {new[n] : n \in 1 .. L} = {at[n] : n \in 1 .. L}
      BY <2>3
    <3>. QED  BY <1>4, <2>8, <3>1, <3>2, Zenon
  <2>10. ASSUME NEW n \in 1 .. Len(line')
         PROVE  line'[n] = Character(seen'[new[n]])
    <3>1. CASE n = L + 1
      BY <1>2, <2>2, <2>3, <3>1
    <3>2. CASE n \in 1 .. L
      BY <1>2, <1>3, <2>3, <2>4, <3>2
    <3>. QED  BY <2>5, <3>1, <3>2, Zenon
  <2>11. \A n \in 1 .. Len(line') : Depth(seen', new[n], Len(seen')) = Len(line') - n
    <3>1. Depth(seen', N, N) = 0
      BY <1>2, DepthSelf DEF N
    <3>. QED  BY <1>2, <1>6, <1>7, <2>2, <2>3, <2>5, <3>1
  <2>12. EditedAt(new)'
    BY <2>6, <2>7, <2>9, <2>10, <2>11 DEF EditedAt
  <2>. QED  BY <2>12 DEF LineInv
<1>8. CASE b = "backspace" /\ line # <<>>
  <2>0. PICK new : new = [n \in 1 .. L - 1 |-> at[n]]
    BY Zenon
  <2>1. line' = SubSeq(line, 1, L - 1) /\ L - 1 \in Nat
    BY <1>2, <1>8, EditCases DEF L
  <2>2. Len(line') = L - 1
    <3>1. \A n \in 1 .. L - 1 : line[n] \in Printable
      BY <1>2 DEF L
    <3>. QED  BY <2>1, <3>1, Popped
  <2>3. /\ DOMAIN new = 1 .. L - 1
        /\ \A n \in 1 .. L - 1 : n \in 1 .. L /\ new[n] = at[n] /\ at[n] \in 1 .. Len(seen)
    BY <1>2, <1>3, <2>0, <2>1
  <2>4. \A n \in 1 .. L - 1 : line'[n] = line[n]
    <3>1. \A n \in 1 .. L - 1 : line[n] \in Printable
      BY <1>2 DEF L
    <3>. QED  BY <2>1, <3>1, Popped
  <2>5. new \in [1 .. Len(line') -> 1 .. Len(seen')]
    BY <1>2, <1>3, <2>0, <2>2 DEF N
  <2>6. \A m, n \in 1 .. Len(line') : m < n => new[m] < new[n]
    BY <1>3, <2>2, <2>3
  <2>7. Survivors(seen') = {i \in Survivors(seen) : Depth(seen, i, Len(seen)) >= 1}
    BY <1>2, <1>8, SurvivorsNext
  <2>8. Range(new) = Survivors(seen')
    <3>1. Range(new) = {at[n] : n \in 1 .. L - 1}
      BY <2>3 DEF Range
    <3>2. \A n \in 1 .. L : Depth(seen, at[n], Len(seen)) >= 1 <=> n \in 1 .. L - 1
      BY <1>2, <1>3
    <3>3. Survivors(seen') = {i \in {at[n] : n \in 1 .. L} : Depth(seen, i, Len(seen)) >= 1}
      BY <1>4, <2>7
    <3>. QED  BY <2>3, <3>1, <3>2, <3>3
  <2>9. ASSUME NEW n \in 1 .. Len(line')
        PROVE  line'[n] = Character(seen'[new[n]])
    BY <1>2, <1>3, <2>2, <2>3, <2>4, SMTT(30)
  <2>10. ASSUME NEW n \in 1 .. Len(line')
         PROVE  Depth(seen', new[n], Len(seen')) = Len(line') - n
    <3>1. n \in 1 .. L /\ new[n] = at[n] /\ Len(seen') = N
      BY <1>2, <2>2, <2>3
    <3>2. Depth(seen', at[n], N) = L - n + -1
      BY <1>5, <1>6, <1>8, <3>1
    <3>. QED  BY <1>2, <2>2, <3>1, <3>2
  <2>11. EditedAt(new)'
    BY <2>5, <2>6, <2>8, <2>9, <2>10 DEF EditedAt
  <2>. QED  BY <2>11 DEF LineInv
<1>9. CASE b = "backspace" /\ line = <<>>
  <2>1. L = 0
    BY <1>9 DEF L
  <2>2. Survivors(seen) = {}
    BY <1>4, <2>1
  <2>3. Survivors(seen') = {}
    BY <1>2, <1>9, <2>2, SurvivorsNext
  <2>4. at \in [1 .. Len(line') -> 1 .. Len(seen')] /\ Range(at) = {} /\ Len(line') = 0
    <3>1. line' = SubSeq(line, 1, L - 1)
      BY <1>9, EditCases DEF L
    <3>2. line' = <<>>
      BY <2>1, <3>1, Popped
    <3>. QED  BY <1>3, <2>1, <3>2 DEF Range
  <2>5. EditedAt(at)'
    BY <2>3, <2>4 DEF EditedAt
  <2>. QED  BY <2>5 DEF LineInv
<1>10. CASE ~Pushes(b) /\ b # "backspace"
  <2>1. line' = line
    BY <1>10, EditCases
  <2>2. Survivors(seen') = Survivors(seen)
    BY <1>2, <1>10, SurvivorsNext
  <2>3. at \in [1 .. Len(line') -> 1 .. Len(seen')] /\ Range(at) = Survivors(seen')
    BY <1>1, <1>2, <1>3, <2>1, <2>2, SMTT(30) DEF EditedAt, L, N
  <2>4. \A n \in 1 .. Len(line') : line'[n] = Character(seen'[at[n]])
    BY <1>2, <1>3, <2>1, SMTT(30) DEF L
  <2>5. \A n \in 1 .. Len(line') : Depth(seen', at[n], Len(seen')) = Len(line') - n
    BY <1>2, <1>6, <1>10, <2>1 DEF L
  <2>6. EditedAt(at)'
    BY <1>3, <2>1, <2>3, <2>4, <2>5, SMTT(30) DEF EditedAt, L
  <2>. QED  BY <2>6 DEF LineInv
<1>. QED  BY <1>7, <1>8, <1>9, <1>10

\* An empty line is what is left of no bytes.
LEMMA EmptyLine == line = <<>> /\ seen = <<>> => LineInv
<1>. SUFFICES ASSUME line = <<>>, seen = <<>> PROVE LineInv
  OBVIOUS
<1>. DEFINE at == [n \in 1 .. 0 |-> 1]
<1>1. Len(line) = 0 /\ Len(seen) = 0 /\ 1 .. 0 = {}
  OBVIOUS
<1>2. Survivors(seen) = {} /\ Range(at) = {}
  BY <1>1 DEF Survivors, Range
<1>3. at \in [1 .. Len(line) -> 1 .. Len(seen)]
  BY <1>1
<1>. HIDE DEF at
<1>4. EditedAt(at)
  BY <1>1, <1>2, <1>3 DEF EditedAt
<1>. QED  BY <1>4 DEF LineInv

\* Every step keeps the line what its bytes make of it.
LEMMA NextLine == ConsoleTypeOK /\ LineInv /\ [ConsoleNext]_console => LineInv'
<1>. SUFFICES ASSUME ConsoleTypeOK, LineInv, [ConsoleNext]_console PROVE LineInv'
  OBVIOUS
<1>1. CASE UNCHANGED <<line, seen>>
  BY <1>1 DEF LineInv, EditedAt
<1>2. CASE ReadLine
  <2>1. PollByte /\ Edits(Polled)
    BY <1>2 DEF ReadLine
  <2>2. CASE Polled = <<"enter">>
    <3>1. line' = <<>> /\ seen' = <<>>
      BY <2>1, <2>2 DEF Edits
    <3>2. (line = <<>> /\ seen = <<>> => LineInv)'
      BY EmptyLine, PTL
    <3>. QED  BY <3>1, <3>2
  <2>3. CASE Polled = <<>>
    <3>1. line' = line /\ seen' = seen
      BY <2>1, <2>3 DEF Edits, ConsoleTypeOK
    <3>. QED  BY <1>1, <3>1
  <2>4. CASE Polled # <<"enter">> /\ \E byte \in Bytes : Polled = <<byte>>
    <3>1. PICK byte \in Bytes : Polled = <<byte>>
      BY <2>4
    <3>2. line' = Edit(line, byte) /\ seen' = Append(seen, byte)
      BY <2>1, <2>4, <3>1 DEF Edits, ConsoleTypeOK
    <3>. QED  BY <3>2, EditKeepsLine
  <2>. QED  BY <2>1, <2>2, <2>3, <2>4, PolledType
<1>. QED
  BY <1>1, <1>2, Zenon
     DEF ConsoleNext, Receive, Press, Release, PollCancel, CancelsOn, Begins, Returns,
         Finishes, console

\* At every moment the line is what editing leaves of the bytes of both inputs since the
\* prompt, for every sequence of bytes (read_line).
THEOREM LineFollowsBytes == ConsoleSpec => []LineIsEdited
<1>1. ConsoleInit => LineInv
  BY EmptyLine DEF ConsoleInit
<1>2. LineInv => LineIsEdited
  BY DEF LineInv, EditedAt, LineIsEdited
<1>. QED  BY <1>1, <1>2, InitType, NextType, NextLine, PTL DEF ConsoleSpec

-----------------------------------------------------------------------------
\* The network stack: handles, sockets and deadlines.
USE NetAssumption

Socket == [state : {"syn", "established", "closewait", "closed"}, queued : Nat, full : BOOLEAN]

Calls == {"idle", "lease", "resolve", "syn", "status", "send", "recv", "recv_empty", "close"}

\* The socket that a call holds between the set and a handle: one that connect opens, one
\* that close removes.
Held == IF call \in {"syn", "close"} THEN {subject} ELSE {}

NetTypeOK ==
    /\ DOMAIN sockets \subseteq 1 .. SocketBound
    /\ sockets \in [DOMAIN sockets -> Socket]
    /\ DOMAIN connections \subseteq Nat
    /\ connections \in [DOMAIN connections -> DOMAIN sockets]
    /\ dropped \subseteq DOMAIN sockets
    /\ next_handle \in Nat
    /\ next_port \in FirstPort .. LastPort
    /\ left \in Nat /\ spent \in Nat
    /\ call \in Calls

\* Every socket has exactly one owner: a handle, the running call, or nobody when connect()
\* refused it.
Owners ==
    /\ DOMAIN sockets = Range(connections) \cup dropped \cup Held
    /\ Range(connections) \cap dropped = {}
    /\ Held \cap (Range(connections) \cup dropped) = {}
    /\ IsInjective(connections)

\* The inductive invariant: the owners of the sockets; handles below the counter, whose
\* sockets are past their handshake; a free index as long as connect has yet to add its
\* socket; and the time, of which what is spent and what is left never exceed the timeout.
NetInv ==
    /\ NetTypeOK
    /\ Owners
    /\ \A h \in DOMAIN connections : h < next_handle /\ sockets[connections[h]].state # "syn"
    /\ call \in {"send", "recv", "recv_empty"} => subject \in DOMAIN connections
    /\ call \in {"lease", "resolve"} => 1 .. SocketBound \ DOMAIN sockets # {}
    /\ left + spent <= Timeout

-----------------------------------------------------------------------------
(***************************************************************************)
(* Indices and socket sets.                                                *)
(***************************************************************************)

\* A set of naturals that is not empty has a least element: the free index that SocketSet::add
\* takes exists.
LEMMA MinExists ==
    ASSUME NEW T, T \subseteq Nat, T # {}
    PROVE  Min(T) \in T
<1>. DEFINE R == {pair \in Nat \X Nat : pair[1] < pair[2]}
<1>1. IsWellFoundedOn(R, Nat)
  BY NatLessThanWellFounded DEF OpToRel
<1>2. \A x, y \in Nat : y < x => <<y, x>> \in R
  OBVIOUS
<1>. HIDE DEF R
<1>3. PICK x \in T : \A y \in T : ~(<<y, x>> \in R)
  BY <1>1, WFMin, Zenon
<1>4. ASSUME NEW y \in T PROVE x <= y
  <2>1. ~(y < x)
    BY <1>2, <1>3, Zenon
  <2>. QED  BY <2>1
<1>. QED  BY <1>4, Zenon DEF Min

\* A set with fewer sockets than indices has a free index (connect).
LEMMA FreeIndex ==
    ASSUME NetTypeOK, Cardinality(DOMAIN sockets) < SocketBound
    PROVE  1 .. SocketBound \ DOMAIN sockets # {}
<1>1. IsFiniteSet(1 .. SocketBound) /\ Cardinality(1 .. SocketBound) = SocketBound
  BY FS_Interval
<1>2. CASE 1 .. SocketBound = DOMAIN sockets
  BY <1>1, <1>2
<1>. QED  BY <1>2, Zenon DEF NetTypeOK

\* What the set is after add: the new socket at an index of its own, the others as they were.
LEMMA AddedFacts ==
    ASSUME NetTypeOK, NEW index \in 1 .. SocketBound \ DOMAIN sockets,
           NEW state \in {"syn", "closed"}
    PROVE  LET s == Added(index, state) IN
           /\ DOMAIN s = DOMAIN sockets \cup {index}
           /\ DOMAIN s \subseteq 1 .. SocketBound
           /\ s \in [DOMAIN s -> Socket]
           /\ \A i \in DOMAIN sockets : s[i] = sockets[i]
<1>1. NewSocket(state) \in Socket
  BY DEF NewSocket, Socket
<1>2. \A i \in DOMAIN sockets : sockets[i] \in Socket
  BY DEF NetTypeOK
<1>. QED  BY <1>1, <1>2 DEF Added, NetTypeOK

\* What the set is after remove.
LEMMA RemoveFacts ==
    ASSUME NetTypeOK, NEW index
    PROVE  LET s == Remove(index) IN
           /\ DOMAIN s = DOMAIN sockets \ {index}
           /\ s \in [DOMAIN s -> Socket]
           /\ \A i \in DOMAIN s : s[i] = sockets[i]
  BY DEF Remove, Restrict, NetTypeOK

\* A segment leaves a socket a socket, and never puts it back into its handshake (poll).
LEMMA SegmentFacts ==
    ASSUME NEW s \in Socket, NEW t \in Segments(s)
    PROVE  t \in Socket /\ (s.state # "syn" => t.state # "syn")
<1>1. ASSUME NEW v \in {"closed", "established", "closewait"}
      PROVE  /\ [s EXCEPT !.state = v] \in Socket
             /\ [s EXCEPT !.state = v].state # "syn"
  BY <1>1 DEF Socket
<1>2. /\ [s EXCEPT !.full = FALSE] \in Socket
      /\ [s EXCEPT !.full = FALSE].state = s.state
  BY Zenon DEF Socket
<1>3. /\ [s EXCEPT !.queued = @ + 1] \in Socket
      /\ [s EXCEPT !.queued = @ + 1].state = s.state
  BY DEF Socket
<1>. QED  BY <1>1, <1>2, <1>3, Zenon DEF Segments

-----------------------------------------------------------------------------
(***************************************************************************)
(* The invariant.                                                          *)
(***************************************************************************)

\* Nothing is connected and nothing runs when the stack is made.
LEMMA InitNetInv == Init => NetInv
<1>. SUFFICES ASSUME Init PROVE NetInv
  OBVIOUS
<1>1. DOMAIN sockets = {} /\ DOMAIN connections = {} /\ Range(connections) = {}
  BY DEF Init, Range
<1>2. NetTypeOK
  BY <1>1 DEF Init, NetTypeOK, Calls
<1>3. Owners
  BY <1>1 DEF Init, Owners, Held, IsInjective
<1>. QED  BY <1>1, <1>2, <1>3 DEF Init, NetInv

\* The part of connect that adds a socket: the socket belongs to the call, or to nobody.
LEMMA OpenSocketPreserves ==
    ASSUME NetInv, OpenSocket,
           call \in {"idle", "lease", "resolve"},
           1 .. SocketBound \ DOMAIN sockets # {},
           left' \in Nat, spent' \in Nat, left' + spent' <= Timeout
    PROVE  NetInv'
<1>. DEFINE index == Min(1 .. SocketBound \ DOMAIN sockets)
<1>1. index \in 1 .. SocketBound \ DOMAIN sockets
  BY MinExists
<1>. HIDE DEF index
<1>2. PICK state \in {"syn", "closed"} :
          /\ sockets' = Added(index, state)
          /\ \/ call' = "syn" /\ subject' = index /\ dropped' = dropped
             \/ call' = "idle" /\ dropped' = dropped \cup {index}
  BY DEF OpenSocket, Ends, index
<1>3. connections' = connections /\ next_handle' = next_handle
  BY DEF OpenSocket
<1>4. next_port' \in FirstPort .. LastPort
  BY DEF OpenSocket, AllocatePort, NetInv, NetTypeOK
<1>5. /\ DOMAIN sockets' = DOMAIN sockets \cup {index}
      /\ DOMAIN sockets' \subseteq 1 .. SocketBound
      /\ sockets' \in [DOMAIN sockets' -> Socket]
      /\ \A i \in DOMAIN sockets : sockets'[i] = sockets[i]
  BY <1>1, <1>2, AddedFacts, Zenon DEF NetInv
<1>6. NetTypeOK'
  BY <1>2, <1>3, <1>4, <1>5 DEF NetInv, NetTypeOK, Calls
<1>7. Held = {} /\ index \notin Range(connections) \cup dropped
  BY <1>1 DEF NetInv, Owners, Held
<1>8. Range(connections)' = Range(connections)
  BY <1>3 DEF Range
<1>9. Owners'
  BY <1>2, <1>3, <1>5, <1>7, <1>8 DEF NetInv, Owners, Held, IsInjective
<1>10. \A h \in DOMAIN connections : connections[h] \in DOMAIN sockets
  BY DEF NetInv, NetTypeOK
<1>. QED  BY <1>2, <1>3, <1>5, <1>6, <1>9, <1>10 DEF NetInv

\* resolve, up to its loop.
LEMMA ResolvePreserves ==
    ASSUME NetInv, Resolve,
           call \in {"idle", "lease"},
           1 .. SocketBound \ DOMAIN sockets # {},
           left' \in Nat, spent' \in Nat, left' + spent' <= Timeout
    PROVE  NetInv'
<1>1. CASE OpenSocket
  BY <1>1, OpenSocketPreserves
<1>2. CASE /\ call' \in {"idle", "resolve"}
           /\ UNCHANGED <<sockets, connections, ids, dropped>>
  <2>1. NetTypeOK'
    BY <1>2 DEF NetInv, NetTypeOK, ids, Calls
  <2>2. Owners'
    BY <1>2, Zenon DEF NetInv, Owners, Held, IsInjective, Range
  <2>. QED  BY <1>2, <2>1, <2>2, Zenon DEF NetInv, ids
<1>. QED  BY <1>1, <1>2 DEF Resolve, Ends

\* A call that holds no socket begins, goes on or ends, and the sets stay as they are.
LEMMA CallPreserves ==
    ASSUME NetInv,
           UNCHANGED <<sockets, connections, ids, dropped>>,
           call \notin {"syn", "close"},
           call' \in {"idle", "lease", "status", "send", "recv", "recv_empty"},
           call' = "lease" => 1 .. SocketBound \ DOMAIN sockets # {},
           call' \in {"send", "recv", "recv_empty"} => subject' \in DOMAIN connections,
           left' \in Nat, spent' \in Nat, left' + spent' <= Timeout
    PROVE  NetInv'
<1>1. NetTypeOK'
  BY DEF NetInv, NetTypeOK, ids, Calls
<1>2. Range(connections)' = Range(connections)
  BY DEF Range
<1>3. Held = {} /\ Held' = {}
  BY DEF Held
<1>4. Owners'
  BY <1>2, <1>3 DEF NetInv, Owners, IsInjective
<1>. QED  BY <1>1, <1>4, Zenon DEF NetInv, ids

\* One socket changes, by a segment or by the turn of send or recv.
LEMMA SocketPreserves ==
    ASSUME NetInv, NEW i \in DOMAIN sockets, NEW t \in Socket,
           sockets[i].state # "syn" => t.state # "syn",
           sockets' = [sockets EXCEPT ![i] = t],
           UNCHANGED <<connections, ids, dropped, clock>>,
           \/ UNCHANGED <<call, subject>>
           \/ call \in {"send", "recv", "recv_empty"} /\ call' = "idle"
    PROVE  NetInv'
<1>1. DOMAIN sockets' = DOMAIN sockets /\ sockets' \in [DOMAIN sockets' -> Socket]
  BY DEF NetInv, NetTypeOK
<1>2. Range(connections)' = Range(connections)
  BY DEF Range
<1>3. Held' = Held
  BY DEF Held
<1>4. NetTypeOK'
  BY <1>1 DEF NetInv, NetTypeOK, ids, clock, Calls
<1>5. Owners'
  BY <1>1, <1>2, <1>3 DEF NetInv, Owners, IsInjective
<1>6. \A j \in DOMAIN sockets : sockets[j].state # "syn" => sockets'[j].state # "syn"
  BY DEF NetInv, NetTypeOK
<1>7. \A h \in DOMAIN connections : connections[h] \in DOMAIN sockets
  BY DEF NetInv, NetTypeOK
<1>. QED  BY <1>1, <1>4, <1>5, <1>6, <1>7 DEF NetInv, ids, clock

\* The socket that a call holds is removed: connect that fails or gives up, close.
LEMMA RemovePreserves ==
    ASSUME NetInv, call \in {"syn", "close"}, call' = "idle",
           sockets' = Remove(subject),
           UNCHANGED <<connections, ids, dropped, clock>>
    PROVE  NetInv'
<1>1. /\ DOMAIN sockets' = DOMAIN sockets \ {subject}
      /\ sockets' \in [DOMAIN sockets' -> Socket]
      /\ \A j \in DOMAIN sockets' : sockets'[j] = sockets[j]
  BY RemoveFacts, Zenon DEF NetInv
<1>2. Range(connections)' = Range(connections)
  BY DEF Range
<1>3. DOMAIN sockets' = Range(connections) \cup dropped
  BY <1>1 DEF NetInv, Owners, Held
<1>4. \A h \in DOMAIN connections : connections[h] \in DOMAIN sockets'
  BY <1>3 DEF Range
<1>5. NetTypeOK'
  BY <1>1, <1>3, <1>4 DEF NetInv, NetTypeOK, ids, clock, Calls
<1>6. Owners'
  BY <1>2, <1>3 DEF NetInv, Owners, Held, IsInjective
<1>. QED  BY <1>1, <1>4, <1>5, <1>6 DEF NetInv, ids, clock

\* connect hands its socket over to a new handle.
LEMMA ConnectPreserves ==
    ASSUME NetInv, ConnectTurn
    PROVE  NetInv'
<1>1. CASE /\ sockets[subject].state = "established"
           /\ connections' = [h \in DOMAIN connections \cup {next_handle} |->
                                 IF h = next_handle THEN subject ELSE connections[h]]
           /\ next_handle' = next_handle + 1
           /\ Ends("connected")
           /\ UNCHANGED sockets
  <2>1. call = "syn" /\ call' = "idle" /\ UNCHANGED <<next_port, left, spent, dropped>>
    BY <1>1 DEF ConnectTurn, Ends, clock
  <2>2. next_handle \notin DOMAIN connections /\ next_handle \in Nat
    BY DEF NetInv, NetTypeOK
  <2>3. /\ DOMAIN connections' = DOMAIN connections \cup {next_handle}
        /\ connections'[next_handle] = subject
        /\ \A h \in DOMAIN connections : connections'[h] = connections[h]
    BY <1>1, <2>2
  <2>4. Held = {subject} /\ Held' = {}
    BY <2>1, SMTT(30) DEF Held
  <2>5. subject \in DOMAIN sockets /\ subject \notin Range(connections) \cup dropped
    BY <2>4 DEF NetInv, Owners
  <2>6. Range(connections)' = Range(connections) \cup {subject}
    BY <2>3, SMTT(30) DEF Range
  <2>7. IsInjective(connections')
    BY <2>3, <2>5 DEF NetInv, Owners, IsInjective, Range
  <2>8. Owners'
    BY <1>1, <2>1, <2>4, <2>5, <2>6, <2>7, Zenon DEF NetInv, Owners
  <2>9. NetTypeOK'
    BY <1>1, <2>1, <2>2, <2>5 DEF NetInv, NetTypeOK, Calls
  <2>. QED  BY <1>1, <2>1, <2>2, <2>3, <2>8, <2>9 DEF NetInv, NetTypeOK
<1>2. CASE /\ sockets' = Remove(subject)
           /\ Ends("error")
           /\ UNCHANGED <<connections, next_handle>>
  BY <1>2, RemovePreserves DEF ConnectTurn, Ends, ids
<1>. QED  BY <1>1, <1>2 DEF ConnectTurn

\* close takes the handle away first: its socket passes to the call.
LEMMA BeginClosePreserves ==
    ASSUME NetInv, NEW handle \in DOMAIN connections, BeginClose(handle)
    PROVE  NetInv'
<1>1. /\ call = "idle" /\ call' = "close" /\ subject' = connections[handle]
      /\ left' = Timeout /\ spent' = 0
      /\ UNCHANGED <<sockets, next_handle, next_port, dropped>>
  BY DEF BeginClose, Starts, Idle, ids
<1>2. /\ DOMAIN connections' = DOMAIN connections \ {handle}
      /\ connections' \in [DOMAIN connections' -> DOMAIN sockets]
      /\ \A h \in DOMAIN connections' : connections'[h] = connections[h]
  BY DEF BeginClose, Restrict, NetInv, NetTypeOK
<1>3. Held = {} /\ Held' = {connections[handle]}
  BY <1>1 DEF Held
<1>4. Range(connections)' = Range(connections) \ {connections[handle]}
  BY <1>2 DEF Range, NetInv, Owners, IsInjective
<1>5. connections[handle] \in Range(connections)
  BY DEF Range
<1>6. IsInjective(connections')
  BY <1>2, SMTT(30) DEF NetInv, Owners, IsInjective
<1>7. Owners'
  BY <1>1, <1>3, <1>4, <1>5, <1>6 DEF NetInv, Owners
<1>8. NetTypeOK'
  BY <1>1, <1>2 DEF NetInv, NetTypeOK, Calls
<1>. QED  BY <1>1, <1>2, <1>7, <1>8 DEF NetInv

\* A turn that reaches the end of its loop gives up what the call holds.
LEMMA GiveUpPreserves ==
    ASSUME NetInv, GiveUp
    PROVE  NetInv'
<1>1. call' = "idle" /\ UNCHANGED <<connections, ids, clock, dropped>>
  BY DEF GiveUp, Ends
<1>2. CASE call = "syn"
  BY <1>1, <1>2, RemovePreserves DEF GiveUp
<1>3. CASE call # "syn"
  <2>1. sockets' = sockets /\ call # "close"
    BY <1>3 DEF GiveUp, Waiting
  <2>2. left' \in Nat /\ spent' \in Nat /\ left' + spent' <= Timeout
    BY <1>1 DEF clock, NetInv, NetTypeOK
  <2>. QED  BY <1>1, <1>3, <2>1, <2>2, CallPreserves
<1>. QED  BY <1>2, <1>3

\* send and recv change the socket of their handle only.
LEMMA TransferPreserves ==
    ASSUME NetInv, SendTurn \/ RecvTurn
    PROVE  NetInv'
<1>1. /\ call \in {"send", "recv", "recv_empty"} /\ call' = "idle"
      /\ UNCHANGED <<connections, ids, clock, dropped>>
  BY DEF SendTurn, RecvTurn, Ends
<1>2. left' \in Nat /\ spent' \in Nat /\ left' + spent' <= Timeout
  BY <1>1 DEF clock, NetInv, NetTypeOK
<1>3. CASE UNCHANGED sockets
  BY <1>1, <1>2, <1>3, CallPreserves
<1>. DEFINE i == connections[subject]
<1>4. i \in DOMAIN sockets /\ sockets[i] \in Socket
  BY <1>1 DEF NetInv, NetTypeOK
<1>5. CASE \E full \in BOOLEAN : sockets' = [sockets EXCEPT ![i].full = full]
  <2>1. PICK full \in BOOLEAN : sockets' = [sockets EXCEPT ![i].full = full]
    BY <1>5, Zenon
  <2>. DEFINE t == [sockets[i] EXCEPT !.full = full]
  <2>2. t \in Socket /\ t.state = sockets[i].state
    BY <1>4 DEF Socket
  <2>3. sockets' = [sockets EXCEPT ![i] = t]
    BY <2>1
  <2>. HIDE DEF t, i
  <2>. QED  BY <1>1, <1>4, <2>2, <2>3, SocketPreserves, Zenon
<1>6. CASE \E rest \in 0 .. sockets[i].queued - 1 :
               sockets' = [sockets EXCEPT ![i].queued = rest]
  <2>1. PICK rest \in 0 .. sockets[i].queued - 1 :
               sockets' = [sockets EXCEPT ![i].queued = rest]
    BY <1>6, Zenon
  <2>. DEFINE t == [sockets[i] EXCEPT !.queued = rest]
  <2>2. t \in Socket /\ t.state = sockets[i].state
    BY <1>4 DEF Socket
  <2>3. sockets' = [sockets EXCEPT ![i] = t]
    BY <2>1
  <2>. HIDE DEF t, i
  <2>. QED  BY <1>1, <1>4, <2>2, <2>3, SocketPreserves, Zenon
<1>. QED  BY <1>3, <1>5, <1>6, Zenon DEF SendTurn, RecvTurn, Own

\* Every step preserves the invariant.
LEMMA NextNetInv == NetInv /\ [Next]_vars => NetInv'
<1>. SUFFICES ASSUME NetInv, [Next]_vars PROVE NetInv'
  OBVIOUS
<1>1. left \in Nat /\ spent \in Nat /\ left + spent <= Timeout
  BY DEF NetInv, NetTypeOK
<1>2. CASE BeginConnect
  <2>1. call = "idle" /\ left' = Timeout /\ spent' = 0
    BY <1>2, SMTT(30) DEF BeginConnect, Starts, Idle
  <2>2. 1 .. SocketBound \ DOMAIN sockets # {}
    BY <1>2, FreeIndex DEF BeginConnect, NetInv
  <2>3. CASE Resolve
    BY <2>1, <2>2, <2>3, ResolvePreserves
  <2>4. CASE /\ call' = "lease"
             /\ UNCHANGED <<sockets, connections, ids, dropped>>
    BY <2>1, <2>2, <2>4, CallPreserves
  <2>. QED  BY <1>2, <2>3, <2>4 DEF BeginConnect
<1>3. CASE LeaseTurn
  <2>1. call = "lease" /\ Resolve /\ left' = left /\ spent' = spent
    BY <1>3 DEF LeaseTurn, clock
  <2>2. 1 .. SocketBound \ DOMAIN sockets # {}
    BY <2>1 DEF NetInv
  <2>. QED  BY <1>1, <2>1, <2>2, ResolvePreserves
<1>4. CASE ResolveTurn
  <2>1. call = "resolve" /\ left' = left /\ spent' = spent
    BY <1>4 DEF ResolveTurn, clock
  <2>2. 1 .. SocketBound \ DOMAIN sockets # {}
    BY <2>1 DEF NetInv
  <2>3. CASE OpenSocket
    BY <1>1, <2>1, <2>2, <2>3, OpenSocketPreserves
  <2>4. CASE call' = "idle" /\ UNCHANGED <<sockets, connections, ids, dropped>>
    BY <1>1, <2>1, <2>4, CallPreserves
  <2>. QED  BY <1>4, <2>3, <2>4 DEF ResolveTurn, Ends
<1>5. CASE ConnectTurn
  BY <1>5, ConnectPreserves
<1>6. CASE BeginStatus
  BY <1>6, CallPreserves DEF BeginStatus, Starts, Idle, Ends
<1>7. CASE StatusTurn
  BY <1>1, <1>7, CallPreserves DEF StatusTurn, Ends, clock
<1>8. ASSUME NEW kind \in {"send", "recv", "recv_empty"}, NEW h \in DOMAIN connections,
             BeginTransfer(kind, h)
      PROVE  NetInv'
  BY <1>8, CallPreserves DEF BeginTransfer, Starts, Idle
<1>9. CASE SendTurn \/ RecvTurn
  BY <1>9, TransferPreserves
<1>10. ASSUME NEW h \in DOMAIN connections, BeginClose(h)
       PROVE  NetInv'
  BY <1>10, BeginClosePreserves
<1>11. CASE CloseTurn
  BY <1>11, RemovePreserves DEF CloseTurn, Ends
<1>12. CASE TimesOut \/ Cancels
  BY <1>12, GiveUpPreserves DEF TimesOut, Cancels
<1>13. CASE Network
  <2>1. ASSUME NEW i \in DOMAIN sockets, NEW t \in Segments(sockets[i]), Arrives(i, t)
        PROVE  NetInv'
    <3>1. sockets[i] \in Socket
      BY DEF NetInv, NetTypeOK
    <3>2. t \in Socket /\ (sockets[i].state # "syn" => t.state # "syn")
      BY <3>1, SegmentFacts, SMTT(30)
    <3>. QED  BY <2>1, <3>2, SocketPreserves, Zenon DEF Arrives, running
  <2>2. CASE UNCHANGED <<sockets, connections, ids, running, dropped>>
    BY <2>2, SMTT(30) DEF NetInv, NetTypeOK, Owners, Held, Range, IsInjective, ids, running, clock
  <2>. QED  BY <1>13, <2>1, <2>2 DEF Network, Configured, Deconfigured, Answered
<1>14. CASE Tick
  <2>1. /\ left > 0 /\ left' = left - 1 /\ spent' = spent + 1
        /\ UNCHANGED <<sockets, connections, ids, call, subject, dropped>>
    BY <1>14 DEF Tick
  <2>2. left' \in Nat /\ spent' \in Nat /\ left' + spent' <= Timeout
    BY <1>1, <2>1, SMTT(30)
  <2>. QED  BY <2>1, <2>2 DEF NetInv, NetTypeOK, Owners, Held, Range, IsInjective, ids
<1>15. CASE UNCHANGED vars
  BY <1>15 DEF vars, NetInv, NetTypeOK, Owners, Held, Range, IsInjective, ids, running, clock
<1>. QED
  BY <1>2, <1>3, <1>4, <1>5, <1>6, <1>7, <1>8, <1>9, <1>10, <1>11, <1>12, <1>13, <1>14, <1>15, SMTT(30)
  DEF Next, Turn

\* The invariant holds in every state of every behaviour of the stack.
THEOREM NetInvariant == Spec => []NetInv
  BY InitNetInv, NextNetInv, PTL DEF Spec

-----------------------------------------------------------------------------
(***************************************************************************)
(* What it gives.                                                          *)
(***************************************************************************)

\* A handle stands for a live socket of its own, below the counter of handles, however often
\* indices are used again (connect, close).
THEOREM HandlesLive == Spec => []ConnectionsLive
<1>1. NetInv => ConnectionsLive
  BY DEF NetInv, Owners, Held, ConnectionsLive
<1>. QED  BY <1>1, NetInvariant, PTL

\* Between calls every socket belongs to a handle or was refused, and there is a port for
\* the next connection (connect, close, allocate_port).
THEOREM NoSocketLost == Spec => []SocketsAccounted
<1>1. NetInv => SocketsAccounted
  BY DEF NetInv, NetTypeOK, Owners, Held, SocketsAccounted, Idle
<1>. QED  BY <1>1, NetInvariant, PTL

\* All phases of a call together spend no more than its timeout (connect, resolve).
THEOREM DeadlineShared == Spec => []OneDeadline
<1>1. NetInv => OneDeadline
  BY DEF NetInv, NetTypeOK, OneDeadline
<1>. QED  BY <1>1, NetInvariant, PTL

\* A recv with room for data reports the end of the stream only of a connection that is
\* closed and has nothing queued, and one into an empty output takes nothing (recv).
THEOREM EndIsLast == Spec => EndAfterData
<1>1. NetInv /\ [Next]_vars
         => [Idle' =>
                /\ call = "recv" /\ reply' = "zero"
                       => ~CanRecv(Own) /\ Own.state \in {"closewait", "closed"}
                /\ call = "recv_empty" => sockets' = sockets]_vars
  <2>. SUFFICES ASSUME NetInv, Next, call' = "idle", call \in {"recv", "recv_empty"}
                PROVE  /\ call = "recv" /\ reply' = "zero"
                              => ~CanRecv(Own) /\ Own.state \in {"closewait", "closed"}
                       /\ call = "recv_empty" => sockets' = sockets
    BY SMTT(30) DEF Idle
  <2>1. RecvTurn \/ (reply' = "error" /\ sockets' = sockets)
    BY DEF Next, Turn, BeginConnect, BeginStatus, BeginTransfer, BeginClose, Starts, Idle,
           LeaseTurn, ResolveTurn, ConnectTurn, StatusTurn, SendTurn, CloseTurn, TimesOut,
           Cancels, GiveUp, Ends, Network, Configured, Deconfigured, Answered, Arrives,
           running, Tick
  <2>2. ASSUME call = "recv", reply' = "zero"
        PROVE  ~CanRecv(Own) /\ Own.state \in {"closewait", "closed"}
    <3>1. subject \in DOMAIN connections
      BY <2>2 DEF NetInv
    <3>2. Own \in Socket /\ Own.state # "syn"
      BY <3>1 DEF NetInv, NetTypeOK, Own
    <3>3. ~CanRecv(Own) /\ ~MayRecv(Own)
      BY <2>1, <2>2 DEF RecvTurn, Ends
    <3>. QED  BY <3>2, <3>3 DEF MayRecv, Socket
  <2>3. ASSUME call = "recv_empty" PROVE sockets' = sockets
    BY <2>1, <2>3 DEF RecvTurn
  <2>. QED  BY <2>2, <2>3
<1>. QED  BY <1>1, NetInvariant, PTL DEF Spec, EndAfterData

=============================================================================
