---------------------------- MODULE EngineHistory ----------------------------
(***************************************************************************)
(* Engine with a history: what each snapshot command found when it began.  *)
(* It tells snapshots that were complete before another began from those   *)
(* taken at the same time, and failures of a command of its own from those *)
(* of the commands before it.  No action reads it.                         *)
(***************************************************************************)
EXTENDS Engine

\* began[p].listed: the snapshots listed when p's command began that nobody has
\* touched since; began[p].faults: how much had failed by then.
VARIABLE began

hvars == <<chunks, snaps, pc, op, started, faults, began>>

Nothing == [listed |-> {}, faults |-> 0]

Untouched(S) == {m \in S : snaps'[m] = snaps[m]}

HInit == Init /\ began = [p \in Proc |-> Nothing]

Remember ==
  began' = [p \in Proc |->
    IF op'[p].cmd # "snapshot" THEN Nothing
    ELSE IF pc[p] = "idle" THEN [listed |-> Listed, faults |-> faults]
    ELSE [began[p] EXCEPT !.listed = Untouched(@)]]

HNext == \E p \in Proc :
  \/ \E m \in Name, content \in Contents : BeginSnapshot(p, m, content) /\ Remember
  \/ BeginGc(p) /\ Remember
  \/ \E k \in Keeps : BeginRetain(p, k) /\ Remember
  \/ LoadManifest(p) /\ Remember
  \/ ChooseSeq(p) /\ Remember
  \/ ChooseGarbage(p) /\ Remember
  \/ ChooseVictims(p) /\ Remember
  \/ \E h \in Chunk : CheckChunk(p, h) /\ Remember
  \/ CreateChunk(p) /\ Remember
  \/ FillChunk(p) /\ Remember
  \/ OpenManifest(p) /\ Remember
  \/ WriteManifest(p) /\ Remember
  \/ WriteAdrift(p) /\ Remember
  \/ \E m \in Name : Drop(p, m) /\ Remember
  \/ TrimOldest(p) /\ Remember
  \/ TrimDone(p) /\ Remember
  \/ SweepChunk(p) /\ Remember
  \/ SweepDone(p) /\ Remember
  \/ Crash(p) /\ Remember
  \/ LoseBufferedChunk(p) /\ Remember

HSpec == HInit /\ [][HNext]_hvars

-----------------------------------------------------------------------------
\* FORMAT.md: seq "orders snapshots oldest to newest".  A snapshot that was
\* complete before another one began has the smaller number, although svcore
\* takes no lock and others come and go at the same time: only snapshots that
\* overlap in time, and those of an older svcore, are left to their names.
NumbersFollowTime ==
  [][\A p \in Proc : WriteManifest(p) =>
       \A m \in began[p].listed : snaps[m].seq < op[p].seq]_hvars

\* engine.h: restore rebuilds "every file of snapshot `name` under `out_dir`,
\* byte-for-byte".  A snapshot command during which nothing fails leaves a
\* snapshot that restores, whatever failed before it began.
CompletedSnapshotRestores ==
  [][\A p \in Proc : WriteManifest(p) /\ began[p].faults = faults =>
       \A m \in Listed' \ Listed : Restorable(m)']_hvars
=============================================================================
