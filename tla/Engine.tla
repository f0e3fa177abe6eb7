------------------------------- MODULE Engine -------------------------------
(***************************************************************************)
(* svcore on one store directory: snapshot, drop, gc and retain, run by    *)
(* processes that share nothing but the files and take no lock.  A step is *)
(* one file-system call or one loop turn around it; a process may be       *)
(* killed, and a write may fail, between any two.                          *)
(*                                                                         *)
(* A manifest is reduced to what gc, retain and restore read of it: its    *)
(* sequence number and the chunks it references.  Names and hashes are     *)
(* numbers, because directory listings are sorted.                         *)
(***************************************************************************)
EXTENDS Naturals, FiniteSets, LeastElement

CONSTANTS Proc,          \* svcore processes
          Name,          \* snapshot names
          Chunk,         \* chunk hashes
          Contents,      \* what a directory may hold: sets of chunks
          Legacy,        \* what an older svcore may have left: names -> contents
          Keeps,         \* values of --keep-last
          Commands,      \* the commands processes run
          MaxSnapshots,  \* bound on snapshot commands
          MaxFaults      \* bound on crashes and failed writes

\* 0 stands for no name and no chunk.
ASSUME NameAssumption == Name \subseteq Nat \ {0}
ASSUME ChunkAssumption == Chunk \subseteq Nat \ {0}
ASSUME ContentsAssumption == Contents \subseteq SUBSET Chunk
ASSUME LegacyAssumption ==
  \A old \in Legacy : /\ DOMAIN old \subseteq Name /\ IsFiniteSet(DOMAIN old)
                       /\ \A m \in DOMAIN old : old[m] \in Contents
\* retain refuses keep_last < 1.
ASSUME KeepsAssumption == Keeps \subseteq Nat \ {0}
ASSUME CommandsAssumption == Commands \subseteq {"snapshot", "drop", "gc", "retain"}
ASSUME BoundsAssumption == MaxSnapshots \in Nat /\ MaxFaults \in Nat

VARIABLES chunks,        \* chunks[h]: the file chunks/<h>
          snaps,         \* snaps[m]: the file snapshots/<m>.json
          pc,            \* pc[p]: where process p is
          op,            \* op[p]: its locals
          started,       \* snapshot commands begun (bounded)
          faults         \* faults so far (bounded)

vars == <<chunks, snaps, pc, op, started, faults>>

\* A file cut short, or created and not filled yet, is "torn".
ChunkFile == {"absent", "torn", "intact"}

NoFile == [file |-> "absent", seq |-> 0, refs |-> {}]
TornFile == [file |-> "torn", seq |-> 0, refs |-> {}]

ManifestFile == [file : {"absent", "torn", "whole"},
                 seq : 0 .. MaxSnapshots,
                 refs : SUBSET Chunk]

\* found: the manifests read so far; names: those still to read; todo: chunks
\* still to store or to sweep; victims: snapshots retain has yet to drop.
Locals == [cmd : {"none", "snapshot", "gc", "retain"},
           name : Name \cup {0},
           refs : SUBSET Chunk,
           seq : 0 .. MaxSnapshots,
           keep : Keeps \cup {0},
           names : SUBSET Name,
           found : SUBSET [name : Name, seq : 0 .. MaxSnapshots, refs : SUBSET Chunk],
           victims : SUBSET [name : Name, seq : 0 .. MaxSnapshots, refs : SUBSET Chunk],
           todo : SUBSET Chunk,
           cur : Chunk \cup {0}]

NoLocals == [cmd |-> "none", name |-> 0, refs |-> {}, seq |-> 0, keep |-> 0,
             names |-> {}, found |-> {}, victims |-> {}, todo |-> {}, cur |-> 0]

Places == {"idle", "scan", "check", "create", "fill", "adrift", "seal", "trim", "sweep"}

TypeOK ==
  /\ chunks \in [Chunk -> ChunkFile]
  /\ snaps \in [Name -> ManifestFile]
  /\ pc \in [Proc -> Places]
  /\ \A p \in Proc : /\ DOMAIN op[p] = DOMAIN NoLocals
                     /\ op[p].cmd \in {"none", "snapshot", "gc", "retain"}
                     /\ op[p].seq \in 0 .. MaxSnapshots
                     /\ op[p].todo \cup op[p].refs \subseteq Chunk
                     /\ op[p].names \subseteq Name
                     /\ op[p].victims \subseteq op[p].found
  /\ started \in 0 .. MaxSnapshots
  /\ faults \in 0 .. MaxFaults

\* A store is empty at first, or holds the snapshots of an svcore from before
\* manifests had a sequence number, which are "treated as oldest (0)" (FORMAT.md).
Init ==
  /\ \E old \in Legacy :
       /\ chunks = [h \in Chunk |-> IF \E m \in DOMAIN old : h \in old[m]
                                    THEN "intact" ELSE "absent"]
       /\ snaps = [m \in Name |->
                     IF m \in DOMAIN old
                     THEN [file |-> "whole", seq |-> 0, refs |-> old[m]] ELSE NoFile]
  /\ pc = [p \in Proc |-> "idle"]
  /\ op = [p \in Proc |-> NoLocals]
  /\ started = 0
  /\ faults = 0

-----------------------------------------------------------------------------
\* What snapshot_names lists, and which listed manifests parse.
snapshot_names == {m \in Name : snaps[m].file # "absent"}

Whole(m) == snaps[m].file = "whole"

has(h) == chunks[h] # "absent"

\* The order retain sorts by: sequence number, then name.
Newer(x, y) == x.seq > y.seq \/ (x.seq = y.seq /\ x.name > y.name)

\* Mutation of Oldest: the dropped list is not reversed.
Oldest_Reversed(S) == CHOOSE x \in S : \A y \in S \ {x} : Newer(x, y)

Oldest(S) == CHOOSE x \in S : \A y \in S \ {x} : Newer(y, x)

Newest(S, k) == {x \in S : Cardinality({y \in S : Newer(y, x)}) < k}

\* The command ends, having done its work or by an exception: main reports it
\* and the process exits.
Exit(p) == /\ pc' = [pc EXCEPT ![p] = "idle"]
           /\ op' = [op EXCEPT ![p] = NoLocals]

\* A process whose open file is unlinked goes on writing to no name at all.
Unlinked(place, file) ==
  [q \in Proc |-> IF /\ pc[q] = place
                     /\ file = IF place = "fill" THEN op[q].cur ELSE op[q].name
                  THEN "adrift" ELSE pc[q]]

-----------------------------------------------------------------------------
\* snapshot, gc and retain begin by reading every manifest.
BeginSnapshot(p, m, content) ==
  /\ "snapshot" \in Commands
  /\ started < MaxSnapshots
  /\ pc[p] = "idle"
  /\ pc' = [pc EXCEPT ![p] = "scan"]
  /\ op' = [op EXCEPT ![p] = [NoLocals EXCEPT !.cmd = "snapshot", !.name = m,
                                !.refs = content, !.names = snapshot_names]]
  /\ started' = started + 1
  /\ UNCHANGED <<chunks, snaps, faults>>

BeginGc(p) ==
  /\ "gc" \in Commands
  /\ pc[p] = "idle"
  /\ pc' = [pc EXCEPT ![p] = "scan"]
  /\ op' = [op EXCEPT ![p] = [NoLocals EXCEPT !.cmd = "gc", !.names = snapshot_names]]
  /\ UNCHANGED <<chunks, snaps, started, faults>>

BeginRetain(p, k) ==
  /\ "retain" \in Commands
  /\ pc[p] = "idle"
  /\ pc' = [pc EXCEPT ![p] = "scan"]
  /\ op' = [op EXCEPT ![p] = [NoLocals EXCEPT !.cmd = "retain", !.keep = k,
                                !.names = snapshot_names]]
  /\ UNCHANGED <<chunks, snaps, started, faults>>

\* Mutation of LoadManifest: a manifest that does not parse is passed over.
LoadManifest_SkipsTorn(p) ==
  /\ pc[p] = "scan"
  /\ op[p].names # {}
  /\ LET m == Least(op[p].names)
     IN  op' = [op EXCEPT ![p].names = @ \ {m},
                          ![p].found = @ \cup {[name |-> x, seq |-> snaps[x].seq,
                                                refs |-> snaps[x].refs] :
                                               x \in {y \in {m} : Whole(y)}}]
  /\ UNCHANGED <<chunks, snaps, pc, started, faults>>

\* load_manifest of the next name: a manifest that is gone or does not parse
\* ends the command.
LoadManifest(p) ==
  /\ pc[p] = "scan"
  /\ op[p].names # {}
  /\ LET m == Least(op[p].names)
     IN  IF Whole(m)
         THEN /\ op' = [op EXCEPT ![p].names = @ \ {m},
                                  ![p].found = @ \cup {[name |-> m, seq |-> snaps[m].seq,
                                                        refs |-> snaps[m].refs]}]
              /\ UNCHANGED pc
         ELSE Exit(p)
  /\ UNCHANGED <<chunks, snaps, started, faults>>

\* Mutation of NextSeq: the number of snapshots, plus one.
NextSeq_Count(found) == 1 + Cardinality(found)

\* Mutation of NextSeq: incremented twice.
NextSeq_Twice(found) ==
  IF found = {} THEN 1 ELSE 2 + (CHOOSE x \in found : \A y \in found : y.seq <= x.seq).seq

\* max_seq over what was read, plus one.
NextSeq(found) ==
  IF found = {} THEN 1 ELSE 1 + (CHOOSE x \in found : \A y \in found : y.seq <= x.seq).seq

Scanned(p, cmd) == pc[p] = "scan" /\ op[p].names = {} /\ op[p].cmd = cmd

ChooseSeq(p) ==
  /\ Scanned(p, "snapshot")
  /\ pc' = [pc EXCEPT ![p] = "check"]
  /\ op' = [op EXCEPT ![p].seq = NextSeq(op[p].found), ![p].found = {},
                      ![p].todo = op[p].refs]
  /\ UNCHANGED <<chunks, snaps, started, faults>>

\* Mutation of ChooseGarbage: only the newest manifest's chunks are live.
ChooseGarbage_NewestOnly(p) ==
  /\ Scanned(p, "gc")
  /\ LET live == UNION {x.refs : x \in Newest(op[p].found, 1)}
     IN  op' = [op EXCEPT ![p].todo = {h \in Chunk : has(h)} \ live, ![p].found = {}]
  /\ pc' = [pc EXCEPT ![p] = "sweep"]
  /\ UNCHANGED <<chunks, snaps, started, faults>>

\* gc lists chunks/ and skips what is live.
ChooseGarbage(p) ==
  /\ Scanned(p, "gc")
  /\ LET live == UNION {x.refs : x \in op[p].found}
     IN  op' = [op EXCEPT ![p].todo = {h \in Chunk : has(h)} \ live, ![p].found = {}]
  /\ pc' = [pc EXCEPT ![p] = "sweep"]
  /\ UNCHANGED <<chunks, snaps, started, faults>>

ChooseVictims(p) ==
  /\ Scanned(p, "retain")
  /\ pc' = [pc EXCEPT ![p] = "trim"]
  /\ op' = [op EXCEPT ![p].victims = op[p].found \ Newest(op[p].found, op[p].keep)]
  /\ UNCHANGED <<chunks, snaps, started, faults>>

-----------------------------------------------------------------------------
\* Mutation of CheckChunk: no deduplication, every chunk is written again.
CheckChunk_Rewrites(p, h) ==
  /\ pc[p] = "check"
  /\ h \in op[p].todo
  /\ op' = [op EXCEPT ![p].todo = @ \ {h}, ![p].cur = h]
  /\ pc' = [pc EXCEPT ![p] = "create"]
  /\ UNCHANGED <<chunks, snaps, started, faults>>

\* put: a chunk that has a file already is not written again.
CheckChunk(p, h) ==
  /\ pc[p] = "check"
  /\ h \in op[p].todo
  /\ IF has(h)
     THEN /\ op' = [op EXCEPT ![p].todo = @ \ {h}]
          /\ UNCHANGED pc
     ELSE /\ op' = [op EXCEPT ![p].todo = @ \ {h}, ![p].cur = h]
          /\ pc' = [pc EXCEPT ![p] = "create"]
  /\ UNCHANGED <<chunks, snaps, started, faults>>

\* write_file opens with truncation, then writes.
CreateChunk(p) ==
  /\ pc[p] = "create"
  /\ chunks' = [chunks EXCEPT ![op[p].cur] = "torn"]
  /\ pc' = [pc EXCEPT ![p] = "fill"]
  /\ UNCHANGED <<snaps, op, started, faults>>

FillChunk(p) ==
  /\ pc[p] = "fill"
  /\ chunks' = [chunks EXCEPT ![op[p].cur] = "intact"]
  /\ pc' = [pc EXCEPT ![p] = "check"]
  /\ op' = [op EXCEPT ![p].cur = 0]
  /\ UNCHANGED <<snaps, started, faults>>

\* Mutation of OpenManifest: the manifest is written before all chunks are.
OpenManifest_Early(p) ==
  /\ pc[p] = "check"
  /\ snaps' = [snaps EXCEPT ![op[p].name] = TornFile]
  /\ pc' = [pc EXCEPT ![p] = "seal"]
  /\ UNCHANGED <<chunks, op, started, faults>>

OpenManifest(p) ==
  /\ pc[p] = "check"
  /\ op[p].todo = {}
  /\ snaps' = [snaps EXCEPT ![op[p].name] = TornFile]
  /\ pc' = [pc EXCEPT ![p] = "seal"]
  /\ UNCHANGED <<chunks, op, started, faults>>

\* Two processes that opened the same manifest write over each other: the
\* later text lands on the earlier one, whose tail may remain.
WriteManifest(p) ==
  /\ pc[p] = "seal"
  /\ LET mine == [file |-> "whole", seq |-> op[p].seq, refs |-> op[p].refs]
     IN  \E text \in {mine} \cup (IF Whole(op[p].name) THEN {TornFile} ELSE {}) :
           snaps' = [snaps EXCEPT ![op[p].name] = text]
  /\ Exit(p)
  /\ UNCHANGED <<chunks, started, faults>>

\* The file was unlinked after it was opened: the write changes nothing.
WriteAdrift(p) ==
  /\ pc[p] = "adrift"
  /\ IF op[p].cur # 0
     THEN /\ pc' = [pc EXCEPT ![p] = "check"]
          /\ op' = [op EXCEPT ![p].cur = 0]
     ELSE Exit(p)
  /\ UNCHANGED <<chunks, snaps, started, faults>>

-----------------------------------------------------------------------------
Drop(p, m) ==
  /\ "drop" \in Commands
  /\ pc[p] = "idle"
  /\ snaps[m].file # "absent"
  /\ snaps' = [snaps EXCEPT ![m] = NoFile]
  /\ pc' = Unlinked("seal", m)
  /\ UNCHANGED <<chunks, op, started, faults>>

\* retain drops its victims oldest first; one that is gone ends the command.
TrimOldest(p) ==
  /\ pc[p] = "trim"
  /\ op[p].victims # {}
  /\ LET v == Oldest(op[p].victims)
     IN  IF snaps[v.name].file # "absent"
         THEN /\ snaps' = [snaps EXCEPT ![v.name] = NoFile]
              /\ op' = [op EXCEPT ![p].victims = @ \ {v}]
              /\ pc' = Unlinked("seal", v.name)
         ELSE Exit(p) /\ UNCHANGED snaps
  /\ UNCHANGED <<chunks, started, faults>>

\* Then it runs gc, which reads the manifests afresh.
TrimDone(p) ==
  /\ pc[p] = "trim"
  /\ op[p].victims = {}
  /\ pc' = [pc EXCEPT ![p] = "scan"]
  /\ op' = [op EXCEPT ![p] = [NoLocals EXCEPT !.cmd = "gc", !.names = snapshot_names]]
  /\ UNCHANGED <<chunks, snaps, started, faults>>

\* file_size and remove_file throw when another gc was faster.
SweepChunk(p) ==
  /\ pc[p] = "sweep"
  /\ op[p].todo # {}
  /\ LET h == Least(op[p].todo)
     IN  IF has(h)
         THEN /\ chunks' = [chunks EXCEPT ![h] = "absent"]
              /\ op' = [op EXCEPT ![p].todo = @ \ {h}]
              /\ pc' = Unlinked("fill", h)
         ELSE Exit(p) /\ UNCHANGED chunks
  /\ UNCHANGED <<snaps, started, faults>>

SweepDone(p) ==
  /\ pc[p] = "sweep"
  /\ op[p].todo = {}
  /\ Exit(p)
  /\ UNCHANGED <<chunks, snaps, started, faults>>

-----------------------------------------------------------------------------
\* The process is killed, or a call fails and main's handler ends it: the
\* files stay as they are.  (So they do when a manifest's flush fails unseen.)
Crash(p) ==
  /\ faults < MaxFaults
  /\ pc[p] # "idle"
  /\ Exit(p)
  /\ faults' = faults + 1
  /\ UNCHANGED <<chunks, snaps, started>>

\* The stream buffers a short write and the flush fails as it is closed, which
\* write_file does not look at: the file stays cut and the command goes on.
LoseBufferedChunk(p) ==
  /\ faults < MaxFaults
  /\ pc[p] = "fill"
  /\ pc' = [pc EXCEPT ![p] = "check"]
  /\ op' = [op EXCEPT ![p].cur = 0]
  /\ faults' = faults + 1
  /\ UNCHANGED <<chunks, snaps, started>>

Next == \E p \in Proc :
  \/ \E m \in Name, content \in Contents : BeginSnapshot(p, m, content)
  \/ BeginGc(p)
  \/ \E k \in Keeps : BeginRetain(p, k)
  \/ LoadManifest(p)
  \/ ChooseSeq(p)
  \/ ChooseGarbage(p)
  \/ ChooseVictims(p)
  \/ \E h \in Chunk : CheckChunk(p, h)
  \/ CreateChunk(p)
  \/ FillChunk(p)
  \/ OpenManifest(p)
  \/ WriteManifest(p)
  \/ WriteAdrift(p)
  \/ \E m \in Name : Drop(p, m)
  \/ TrimOldest(p)
  \/ TrimDone(p)
  \/ SweepChunk(p)
  \/ SweepDone(p)
  \/ Crash(p)
  \/ LoseBufferedChunk(p)

Spec == Init /\ [][Next]_vars

-----------------------------------------------------------------------------
\* restore of m rebuilds every file from whole chunks.
Restorable(m) == Whole(m) /\ \A h \in snaps[m].refs : chunks[h] = "intact"

\* The snapshots a listing shows and a load parses.
Listed == {m \in Name : Whole(m)}

\* FORMAT.md: "gc never touches referenced chunks".  The chunk files a gc pass
\* (its own command or retain's) removes are referenced by no manifest in the
\* store at that moment, not only by none it read.
GcNeverTouchesReferenced ==
  [][\A p \in Proc : SweepChunk(p) =>
       \A m \in Listed : \A h \in snaps[m].refs : chunks'[h] = chunks[h]]_vars

\* A snapshot that restores byte-for-byte keeps doing so through every other
\* command, crash and failed write, until it is dropped or taken again.
RestorableUntilReplaced ==
  [][\A m \in Name : Restorable(m) /\ snaps'[m] = snaps[m] => Restorable(m)']_vars

\* Without faults every listed snapshot restores: its chunks are all in the
\* store before its manifest is, and gc only takes what no manifest needs.
ListedIsRestorable == faults = 0 => \A m \in Listed : Restorable(m)

\* Engine::retain, however it is interrupted, has dropped nothing newer than
\* what it leaves, and leaves at least keep_last snapshots if it found them.
\* The number decides; where it cannot, as among legacy snapshots, which all have
\* number 0, the name does ("name as a tie-break").
RetainDropsOldestFirst ==
  [][\A p \in Proc : TrimOldest(p) =>
       /\ \A m \in Listed \ Listed', k \in Listed' :
            \/ snaps[k].seq > snaps[m].seq
            \/ snaps[k].seq = snaps[m].seq /\ k > m
       /\ Listed' # Listed => Cardinality(Listed') >= op[p].keep]_vars

\* gc stops before it deletes anything when a manifest does not parse: it takes
\* no chunk on the word of an incomplete set of manifests.
SweepOnlyAfterFullScan ==
  [][\A p \in Proc : SweepChunk(p) /\ chunks' # chunks => snapshot_names = Listed]_vars

\* Snapshots taken side by side by several processes may pass through one
\* another's half-written chunks, but once no snapshot is under way every
\* listed one restores.
SettledSnapshotsRestore ==
  (\A p \in Proc : pc[p] = "idle") /\ faults = 0 => \A m \in Listed : Restorable(m)
=============================================================================
