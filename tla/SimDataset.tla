----------------------------- MODULE SimDataset -----------------------------
(***************************************************************************)
(* The demo's data set (web/src/sim/dataset.ts) at the scale of two-byte   *)
(* chunks, and what buildModel of useVault.ts and the first steps of       *)
(* runSelfCheck make of it.  What is kept is how the files divide into     *)
(* chunks: a log of several chunks and its copy, a file of one chunk, a    *)
(* file of one byte repeated over several chunks and a tail.               *)
(***************************************************************************)
EXTENDS SimEngine

blob     == 1    \* config/blob.dat
settings == 2    \* config/settings.ini
log      == 3    \* logs/app.log
logBak   == 4    \* logs/app.log.bak

makeDataset == blob     :> <<9, 9, 9, 9, 9>>
            @@ settings :> <<5>>
            @@ log      :> <<1, 2, 3, 3, 4>>
            @@ logBak   :> <<1, 2, 3, 3, 4>>

\* One file is edited; it stays within one chunk.
editOneFile(tree) == [tree EXCEPT ![settings] = <<6>>]

-----------------------------------------------------------------------------
v1 == snapshot(<<>>, makeDataset)

v2files == editOneFile(makeDataset)

v2 == snapshot(v1.store, v2files)

\* uniqueHashes: what is distributed, and what the page restores.
uniqueHashes == uniqueChunks(manifestOf(v2files))

\* SnapshotStats, as the panels and the self-check read them.
statsOf(result) == [chunks        |-> Len(result.trace),
                    newChunks     |-> Cardinality(newChunks(result.trace)),
                    dedupedChunks |-> Len(result.trace) - Cardinality(newChunks(result.trace))]

\* Steps 1 to 3 of the self-check.
dedupOk ==
  statsOf(v1).dedupedChunks > 0 /\ statsOf(v1).newChunks < statsOf(v1).chunks

incrementalOk ==
  statsOf(v2).newChunks >= 1 /\ statsOf(v2).newChunks < statsOf(v2).chunks

ASSUME SelfCheckAssumption == dedupOk /\ incrementalOk

-----------------------------------------------------------------------------
(* The page's first panel, which shows one of the two snapshots.           *)

current(snap) == IF snap = "v1" THEN v1 ELSE v2

\* The chips of one file, by whether they are coloured as newly stored.
chips(snap, path, new) ==
  {k \in DOMAIN current(snap).trace :
     current(snap).trace[k].path = path /\ current(snap).trace[k].isNew = new}

\* The chip in the sentence about the one edited file.
editedChip == LET trace == v2.trace
              IN  trace[Min({k \in DOMAIN trace : trace[k].path = settings /\ trace[k].isNew})]

\* "Only the tail chunk of settings.ini changes, so an incremental snapshot
\* writes a single new chunk", which is the one the panel shows; and the first
\* snapshot skips "the entire duplicate file" but not the file it duplicates.
ASSUME PanelAssumption ==
  /\ statsOf(v2).newChunks = 1
  /\ editedChip.hash = Digest[<<6>>]
  /\ chips("v1", logBak, TRUE) = {}
  /\ chips("v1", log, FALSE) = {} /\ chips("v1", log, TRUE) # {}
=============================================================================
