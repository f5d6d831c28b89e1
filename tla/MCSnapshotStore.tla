-------------------------- MODULE MCSnapshotStore --------------------------
(***************************************************************************)
(* Instance of SnapshotStore over TreeCodec: seven blocks, hence two slots *)
(* with room for two payload blocks each; three trees that fit, such that  *)
(* a torn write of one over another leaves the payload of the third, and   *)
(* one that does not fit.                                                  *)
(***************************************************************************)
EXTENDS SnapshotStore, TreeCodec

MCTree(dirs, files) == [dirs |-> dirs, files |-> files]
OneFile(path, data) == MCTree({}, [p \in {path} |-> data])
Big == MCTree({<<1>>, <<1, 2>>}, [p \in {<<3>>} |-> <<2>>])
MCTrees ==
    {OneFile(<<1>>, <<2>>), OneFile(<<3>>, <<3>>), OneFile(<<3>>, <<2>>), Big}

MCEncode == [t \in MCTrees |-> EncodeTree(t)]
MCBlock(bytes) == [bytes |-> bytes]
MCZero == MCBlock([i \in 1 .. BlockSize |-> 0])
MCPayloadBlocks ==
    UNION {{Padded(MCEncode[t], k) : k \in 1 .. PayloadBlocks(Len(MCEncode[t]))} : t \in MCTrees}
\* Another end of the payloads: the same bytes, and something else after them.
MCOtherPadding == MCBlock([Padded(MCEncode[OneFile(<<1>>, <<2>>)], 2).bytes EXCEPT ![BlockSize] = 1])
MCBlocks == {MCZero, MCOtherPadding} \cup MCPayloadBlocks

\* Like FNV-1a, a multiply-and-mix fold; it tells payloads of one length apart
\* and confuses some of different lengths.
MCChecksum(payload) == FoldLeft(LAMBDA hash, byte : hash * Radix + byte, 0, payload)

-----------------------------------------------------------------------------
(***************************************************************************)
(* The codec, over all small trees and payloads.                           *)
(***************************************************************************)

CodecPaths == {<<1>>, <<1, 3>>, <<3>>}
CodecTrees ==
    {MCTree(dirs, files) : dirs \in SUBSET CodecPaths,
        files \in UNION {[paths -> {<<>>, <<2>>, <<4, 0>>}] : paths \in SUBSET CodecPaths}}

\* decode_tree inverts encode_tree, and takes no payload that is cut short or goes on.
ASSUME DecodingInverts ==
    \A t \in {u \in CodecTrees : Encodable(u)} :
        LET payload == EncodeTree(t) IN
        /\ DecodeTree(payload) = [ok |-> TRUE, tree |-> t]
        /\ \A n \in 0 .. Len(payload) - 1 : ~DecodeTree(SubSeq(payload, 1, n)).ok
        /\ \A byte \in 0 .. Radix - 1 : ~DecodeTree(Append(payload, byte)).ok

\* Whatever payload decode_tree takes, also one with entries in another order or twice,
\* the tree can be saved again and is then the same.
ASSUME DecodedIsEncodable ==
    \A payload \in BoundedSeq(0 .. Radix - 1, 6) :
        LET decoded == DecodeTree(payload) IN
        decoded.ok => Encodable(decoded.tree) /\ DecodeTree(EncodeTree(decoded.tree)) = decoded
=============================================================================
