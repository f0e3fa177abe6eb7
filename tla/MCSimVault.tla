----------------------------- MODULE MCSimVault -----------------------------
(***************************************************************************)
(* Instance of SimVault for TLC: chunks of two bytes, files of up to three *)
(* chunks, two paths; order and placement of the chunks are those of their *)
(* SHA-256 and of its FNV-1a value.  Of the padding: short messages of the *)
(* bytes it adds itself, and messages about as long as one block or two.   *)
(***************************************************************************)
EXTENDS SimVault, Sha256, Fnv1a

\* Files: empty, a chunk repeated with a tail, and one that shares the chunk.
Contents == {<<>>, <<1, 1, 1, 1, 1>>, <<3, 1, 1, 1>>}

MCTree == UNION {[paths -> Contents] : paths \in SUBSET {1, 2}}

\* The chunks of these files, in the order of their hashes.
MCChunks == <<<<1>>, <<3, 1>>, <<1, 1>>>>

MCDigest == [d \in {MCChunks[i] : i \in 1 .. 3} |->
               CHOOSE i \in 1 .. 3 : MCChunks[i] = d]

MCHash == 1 .. 3

MCFnv == <<0, 1, 2>>

ASSUME MCAssumption ==
  /\ \A i \in 1 .. 2 : before(sha256Hex(MCChunks[i]), sha256Hex(MCChunks[i + 1]))
  /\ \A i \in 1 .. 3 : MCFnv[i] = start(sha256Hex(MCChunks[i]), NODES)

MCMessage == UNION {[1 .. n -> {0, 128}] : n \in 0 .. 3}
             \cup {[j \in 1 .. n |-> 0] : n \in 50 .. 70 \cup 115 .. 125}

MCLength == 0 .. 200

ASSUME PaddingAssumption == PaddingIsSound
=============================================================================
