----------------------------- MODULE TreeCodec -----------------------------
(***************************************************************************)
(* The payload of a snapshot: encode_tree and decode_tree in               *)
(* crates/afos-storage/src/lib.rs.                                         *)
(*                                                                         *)
(* Bytes are the numbers below Radix, and an integer takes U32Width or     *)
(* U64Width of them.  A path is the sequence of its bytes; NotText is a    *)
(* byte that no UTF-8 string has.                                          *)
(***************************************************************************)
EXTENDS Integers, Sequences, SequencesExt, FiniteSets

CONSTANTS
    Radix, NotText,
    U32Width, U64Width,
    MaxPathLen, MaxEntryCount

ASSUME CodecAssumption ==
    /\ Radix \in Nat \ {0, 1} /\ NotText \in 0 .. Radix - 1
    /\ MaxPathLen < Radix ^ U32Width /\ MaxEntryCount < Radix ^ U32Width

\* to_le_bytes and from_le_bytes.
ToLeBytes(n, width) == [i \in 1 .. width |-> (n \div Radix ^ (i - 1)) % Radix]
FromLeBytes(bytes) == FoldRight(LAMBDA byte, rest : byte + Radix * rest, bytes, 0)

-----------------------------------------------------------------------------
(***************************************************************************)
(* encode_tree.  Sets and maps are written in the order of their paths.    *)
(***************************************************************************)

\* The order of strings: by the first byte that differs, and a prefix comes first.
Before(p, q) ==
    \/ IsStrictPrefix(p, q)
    \/ \E i \in DOMAIN p \cap DOMAIN q :
           p[i] < q[i] /\ SubSeq(p, 1, i - 1) = SubSeq(q, 1, i - 1)
InOrder(paths) == SetToSortSeq(paths, Before)

\* write_count and write_string refuse nothing.
Encodable(tree) ==
    /\ Cardinality(tree.dirs) <= MaxEntryCount
    /\ Cardinality(DOMAIN tree.files) <= MaxEntryCount
    /\ \A p \in tree.dirs \cup DOMAIN tree.files : Len(p) <= MaxPathLen

WriteCount(count) == ToLeBytes(count, U32Width)
WriteString(path) == ToLeBytes(Len(path), U32Width) \o path
WriteFile(path, data) == WriteString(path) \o ToLeBytes(Len(data), U64Width) \o data

EncodeTree(tree) ==
    LET dirs == InOrder(tree.dirs)
        files == InOrder(DOMAIN tree.files)
    IN  WriteCount(Len(dirs)) \o FlattenSeq([i \in DOMAIN dirs |-> WriteString(dirs[i])]) \o
        WriteCount(Len(files)) \o
        FlattenSeq([i \in DOMAIN files |-> WriteFile(files[i], tree.files[files[i]])])

-----------------------------------------------------------------------------
(***************************************************************************)
(* decode_tree.  A reader is where the cursor is and what was read last;   *)
(* once it has failed it stays that way.                                   *)
(***************************************************************************)

Reader(cursor, value) == [ok |-> TRUE, cursor |-> cursor, value |-> value]
Corrupt == [ok |-> FALSE]

Take(input, r, length) ==
    IF r.ok /\ r.cursor + length <= Len(input)
    THEN Reader(r.cursor + length, SubSeq(input, r.cursor + 1, r.cursor + length))
    ELSE Corrupt

TakeNumber(input, r, width) ==
    LET bytes == Take(input, r, width)
    IN  IF bytes.ok THEN Reader(bytes.cursor, FromLeBytes(bytes.value)) ELSE Corrupt

ReadCount(input, r) ==
    LET count == TakeNumber(input, r, U32Width)
    IN  IF count.ok /\ count.value <= MaxEntryCount THEN count ELSE Corrupt

ReadString(input, r) ==
    LET length == TakeNumber(input, r, U32Width)
        bytes == IF length.ok /\ length.value <= MaxPathLen
                 THEN Take(input, length, length.value) ELSE Corrupt
    IN  IF bytes.ok /\ NotText \notin Range(bytes.value) THEN bytes ELSE Corrupt

\* The directories read by a loop of count rounds: a set, whatever their order.
ReadDirectories(input, start, count) ==
    LET after[n \in 0 .. count] ==
            IF n = 0 THEN [start EXCEPT !.value = {}]
            ELSE LET path == ReadString(input, after[n - 1])
                 IN  IF path.ok THEN Reader(path.cursor, after[n - 1].value \cup {path.value})
                     ELSE Corrupt
    IN  after[count]

\* The files: of two entries for one path the later one is kept.
ReadFiles(input, start, count) ==
    LET ReadFile(r) ==
            LET path == ReadString(input, r)
                length == TakeNumber(input, path, U64Width)
                data == IF length.ok THEN Take(input, length, length.value) ELSE Corrupt
            IN  IF data.ok
                THEN Reader(data.cursor, [p \in DOMAIN r.value \cup {path.value} |->
                                             IF p = path.value THEN data.value ELSE r.value[p]])
                ELSE Corrupt
        after[n \in 0 .. count] ==
            IF n = 0 THEN [start EXCEPT !.value = [p \in {} |-> <<>>]]
            ELSE IF after[n - 1].ok THEN ReadFile(after[n - 1])
            ELSE Corrupt
    IN  after[count]

DecodeTree(input) ==
    LET directory_count == ReadCount(input, Reader(0, 0))
        directories == IF directory_count.ok
                       THEN ReadDirectories(input, directory_count, directory_count.value)
                       ELSE Corrupt
        file_count == ReadCount(input, directories)
        files == IF file_count.ok THEN ReadFiles(input, file_count, file_count.value) ELSE Corrupt
    IN  IF files.ok /\ files.cursor = Len(input)
        THEN [ok |-> TRUE, tree |-> [dirs |-> directories.value, files |-> files.value]]
        ELSE Corrupt
=============================================================================
