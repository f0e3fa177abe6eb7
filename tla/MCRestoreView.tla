--------------------------- MODULE MCRestoreView ----------------------------
(***************************************************************************)
(* RestoreView over the scaled-down v2 snapshot of SimDataset: six chunks, *)
(* two more than there are lanes, on four nodes.  Their order and their    *)
(* first nodes are those of their SHA-256 and of its FNV-1a value; between *)
(* them the placement sets begin at each of the nodes.                     *)
(***************************************************************************)
EXTENDS RestoreView, SimDataset, Sha256, Fnv1a

\* The chunks of both snapshots, in the order of their hashes.
MCChunks == <<<<9>>, <<9, 9>>, <<6>>, <<3, 3>>, <<1, 2>>, <<4>>, <<5>>>>

MCDigest == [d \in {MCChunks[i] : i \in 1 .. 7} |->
               CHOOSE i \in 1 .. 7 : MCChunks[i] = d]

MCHash == 1 .. 7

MCFnv == <<2, 0, 1, 2, 3, 1, 3>>

\* What buildModel distributes, and the bytes the engine has for it.
MCUnique == <<1, 2, 3, 4, 5, 6>>

MCStore == MCChunks

ASSUME MCAssumption ==
  /\ MCUnique = uniqueHashes
  /\ MCStore = v2.store
  /\ \A i \in 1 .. 6 : before(sha256Hex(MCChunks[i]), sha256Hex(MCChunks[i + 1]))
  /\ \A i \in 1 .. 7 : MCFnv[i] = start(sha256Hex(MCChunks[i]), NODES)

ASSUME TilesAssumption == TilesAreTrue
=============================================================================
