---------------------------- MODULE Engine_proofs ----------------------------
(***************************************************************************)
(* Theorems about Engine, for any names, chunks and contents and any       *)
(* number of snapshots, crashes and failed writes.  First with one svcore  *)
(* process, the only use its documents describe, and all four commands;    *)
(* then types with any number of processes, what stays true of the         *)
(* snapshots that several take and drop side by side, and their numbers.   *)
(***************************************************************************)
EXTENDS EngineHistory, Numbers_proofs

\* Everything has its type, the locals of the process included.
Types ==
  /\ chunks \in [Chunk -> ChunkFile]
  /\ snaps \in [Name -> ManifestFile]
  /\ pc \in [Proc -> Places]
  /\ op \in [Proc -> Locals]
  /\ started \in 0 .. MaxSnapshots
  /\ faults \in 0 .. MaxFaults

\* What the locals mean where the process is.  A lone process never writes to an
\* unlinked file, and the manifest it has opened is its own.
Placed(p) ==
  /\ pc[p] # "adrift"
  /\ op[p].victims \subseteq op[p].found
  /\ pc[p] = "scan" => op[p].victims = {}
  /\ pc[p] = "scan" /\ op[p].cmd = "snapshot" => op[p].name # 0
  /\ pc[p] \in {"check", "create", "fill", "seal"} =>
       op[p].name # 0 /\ op[p].victims = {}
  /\ pc[p] \in {"create", "fill"} => op[p].cur # 0
  /\ pc[p] = "create" => chunks[op[p].cur] = "absent"
  /\ pc[p] = "fill" => chunks[op[p].cur] = "torn"
  /\ pc[p] = "seal" => snaps[op[p].name] = TornFile

\* While manifests are read: those read parse, and found says what they say.
ScanOK(p) ==
  pc[p] = "scan" =>
    /\ op[p].names \subseteq snapshot_names
    /\ \A m \in snapshot_names \ op[p].names :
         Whole(m) /\ [name |-> m, seq |-> snaps[m].seq, refs |-> snaps[m].refs] \in op[p].found
    /\ \A x \in op[p].found :
         Whole(x.name) /\ x.seq = snaps[x.name].seq /\ x.refs = snaps[x.name].refs

\* While chunks are swept: all manifests parse and none references what is left.
SweepOK(p) ==
  pc[p] = "sweep" =>
    /\ snapshot_names = Listed
    /\ \A m \in Listed : snaps[m].refs \cap op[p].todo = {}

\* No number exceeds how many snapshots were begun, and one under way that has
\* yet to choose finds room for one more.
SeqOK(p) ==
  /\ \A m \in Listed : snaps[m].seq \in 0 .. started
  /\ pc[p] = "scan" /\ op[p].cmd = "snapshot" =>
       started > 0 /\ \A m \in Listed : snaps[m].seq < started
  /\ pc[p] \in {"check", "create", "fill", "seal"} => op[p].seq \in 0 .. started

\* Without faults: listed snapshots are whole, the only torn chunk is the one
\* being filled, and a snapshot has stored what it no longer has to store.
StoreOK(p) ==
  faults = 0 =>
    /\ \A m \in Listed : \A h \in snaps[m].refs : chunks[h] = "intact"
    /\ \A h \in Chunk : chunks[h] = "torn" => pc[p] = "fill" /\ h = op[p].cur
    /\ pc[p] \in {"check", "create", "fill", "seal"} =>
         \A h \in op[p].refs : \/ h \in op[p].todo
                               \/ pc[p] \in {"create", "fill"} /\ h = op[p].cur
                               \/ chunks[h] = "intact"
    /\ pc[p] = "seal" => op[p].todo = {}

IInv(p) == Types /\ Placed(p) /\ ScanOK(p) /\ SweepOK(p) /\ SeqOK(p) /\ StoreOK(p)

-----------------------------------------------------------------------------
\* The highest sequence number of what was read is there to be chosen.
LEMMA HighestSeq ==
  ASSUME NEW found, found # {}, \A x \in found : x.seq \in 0 .. MaxSnapshots
  PROVE  \E x \in found : /\ NextSeq(found) = 1 + x.seq
                          /\ \A y \in found : y.seq <= x.seq
<1> DEFINE gaps == {MaxSnapshots - x.seq : x \in found}
<1> USE BoundsAssumption
<1>1. gaps \subseteq Nat /\ gaps # {}
  OBVIOUS
<1>2. Least(gaps) \in gaps /\ \A j \in gaps : Least(gaps) <= j
  <2> HIDE DEF gaps
  <2> QED BY <1>1, LeastIn
<1>3. PICK x \in found : Least(gaps) = MaxSnapshots - x.seq
  BY <1>2
<1>4. ASSUME NEW y \in found PROVE y.seq <= x.seq
  <2>1. MaxSnapshots - y.seq \in gaps
    OBVIOUS
  <2>2. MaxSnapshots - x.seq <= MaxSnapshots - y.seq
    BY <1>2, <1>3, <2>1
  <2> QED BY <2>2
<1> QED BY <1>4 DEF NextSeq

\* The locals of the only process.
LEMMA Own ==
  ASSUME NEW p, Proc = {p}, Types
  PROVE  /\ p \in Proc /\ pc[p] \in Places /\ op[p] \in Locals
         /\ op[p].names \subseteq Name /\ op[p].todo \subseteq Chunk
         /\ op[p].refs \subseteq Chunk
BY DEF Types, Locals

LEMMA NoLocalsType == NoLocals \in Locals
BY BoundsAssumption DEF NoLocals, Locals

\* At first a store is empty, or has the snapshots of an older svcore: few, all
\* without a number, and every chunk they reference is there.
LEMMA InitFiles ==
  ASSUME Init
  PROVE  /\ chunks \in [Chunk -> {"absent", "intact"}]
         /\ snaps \in [Name -> ManifestFile]
         /\ snapshot_names = Listed /\ IsFiniteSet(Listed)
         /\ \A m \in Name : snaps[m].seq = 0
         /\ \A m \in Listed : \A h \in snaps[m].refs : chunks[h] = "intact"
<1>1. PICK old \in Legacy :
        /\ chunks = [h \in Chunk |-> IF \E m \in DOMAIN old : h \in old[m]
                                     THEN "intact" ELSE "absent"]
        /\ snaps = [m \in Name |->
                      IF m \in DOMAIN old
                      THEN [file |-> "whole", seq |-> 0, refs |-> old[m]] ELSE NoFile]
  BY DEF Init
<1>2. /\ DOMAIN old \subseteq Name /\ IsFiniteSet(DOMAIN old)
      /\ \A m \in DOMAIN old : old[m] \subseteq Chunk
  BY LegacyAssumption, ContentsAssumption
<1>3. \A m \in Name : /\ snaps[m] \in ManifestFile /\ snaps[m].seq = 0
                      /\ snaps[m].file = IF m \in DOMAIN old THEN "whole" ELSE "absent"
                      /\ m \in DOMAIN old => snaps[m].refs = old[m]
  BY <1>1, <1>2, BoundsAssumption DEF ManifestFile, NoFile
<1>4. snaps \in [Name -> ManifestFile]
  BY <1>1, <1>3
<1>5. Listed = DOMAIN old /\ snapshot_names = DOMAIN old
  BY <1>2, <1>3 DEF Listed, snapshot_names, Whole
<1>6. \A m \in Listed : \A h \in snaps[m].refs : chunks[h] = "intact"
  BY <1>1, <1>2, <1>3, <1>5
<1>7. chunks \in [Chunk -> {"absent", "intact"}]
  BY <1>1
<1> QED BY <1>2, <1>3, <1>4, <1>5, <1>6, <1>7

LEMMA InitTypes ==
  ASSUME Init
  PROVE  Types
<1>1. NoLocals \in Locals
  BY NoLocalsType
<1>2. chunks \in [Chunk -> ChunkFile] /\ snaps \in [Name -> ManifestFile]
  BY InitFiles DEF ChunkFile
<1>3. pc \in [Proc -> Places] /\ op \in [Proc -> Locals]
  BY <1>1 DEF Init, Places
<1>4. started \in 0 .. MaxSnapshots /\ faults \in 0 .. MaxFaults
  BY BoundsAssumption DEF Init
<1> QED BY <1>2, <1>3, <1>4 DEF Types

LEMMA InitIInv ==
  ASSUME NEW p, Proc = {p}, Init
  PROVE  IInv(p)
<1>1. Types
  BY InitTypes
<1>2. Placed(p) /\ ScanOK(p) /\ SweepOK(p)
  BY DEF Init, Placed, ScanOK, SweepOK, NoLocals
<1>3. SeqOK(p)
  <2>1. pc[p] = "idle" /\ started = 0
    BY DEF Init
  <2>2. \A m \in Listed : snaps[m].seq \in 0 .. started
    BY <2>1, InitFiles DEF Listed
  <2> QED BY <2>1, <2>2 DEF SeqOK
<1>4. StoreOK(p)
  <2>1. \A h \in Chunk : chunks[h] # "torn"
    BY InitFiles
  <2>2. pc[p] = "idle"
    BY DEF Init
  <2> QED BY <2>1, <2>2, InitFiles DEF StoreOK
<1> QED BY <1>1, <1>2, <1>3, <1>4 DEF IInv

\* A command that ends leaves nothing to keep but the files.
LEMMA ExitIInv ==
  ASSUME NEW p, Proc = {p}, IInv(p), Exit(p),
         chunks' = chunks, snaps' = snaps, started' = started,
         faults' \in 0 .. MaxFaults,
         faults' = 0 => faults = 0 /\ \A h \in Chunk : chunks[h] # "torn"
  PROVE  IInv(p)'
<1>1. p \in Proc /\ Types
  BY DEF IInv
<1>2. pc'[p] = "idle" /\ op'[p] = NoLocals
  BY <1>1 DEF Exit, Types
<1>3. Types'
  <2>1. NoLocals \in Locals
    BY NoLocalsType
  <2> QED BY <1>1, <2>1 DEF Exit, Types, Places
<1>4. Placed(p)' /\ ScanOK(p)' /\ SweepOK(p)'
  BY <1>2 DEF Placed, ScanOK, SweepOK, NoLocals
<1>5. SeqOK(p)' /\ StoreOK(p)'
  BY <1>2 DEF IInv, SeqOK, StoreOK, Listed, Whole
<1> QED BY <1>3, <1>4, <1>5 DEF IInv

-----------------------------------------------------------------------------
(***************************************************************************)
(* Commands begin.                                                         *)
(***************************************************************************)

\* Whatever command comes to read the manifests has all of them before it.
LEMMA BeginIInv ==
  ASSUME NEW p, Proc = {p}, IInv(p), NEW l \in Locals,
         pc[p] \in {"idle", "trim"},
         pc' = [pc EXCEPT ![p] = "scan"], op' = [op EXCEPT ![p] = l],
         l.names = snapshot_names, l.found = {}, l.victims = {},
         chunks' = chunks, snaps' = snaps, faults' = faults,
         started' \in started .. MaxSnapshots,
         l.cmd = "snapshot" => started' > started /\ l.name # 0
  PROVE  IInv(p)'
<1>1. p \in Proc /\ Types
  BY DEF IInv
<1>2. pc'[p] = "scan" /\ op'[p] = l
  BY <1>1 DEF Types
<1>3. Types'
  BY <1>1, BoundsAssumption DEF Types, Places
<1>4. Placed(p)' /\ ScanOK(p)' /\ SweepOK(p)'
  BY <1>2 DEF Placed, ScanOK, SweepOK, snapshot_names
<1>5. SeqOK(p)'
  BY <1>1, <1>2, BoundsAssumption DEF IInv, SeqOK, Listed, Whole, Types
<1>6. StoreOK(p)'
  BY <1>1, <1>2 DEF IInv, StoreOK, Listed, Whole
<1> QED BY <1>3, <1>4, <1>5, <1>6 DEF IInv

LEMMA BeginCommandIInv ==
  ASSUME NEW p, Proc = {p}, IInv(p),
         \/ \E m \in Name, content \in Contents : BeginSnapshot(p, m, content)
         \/ BeginGc(p)
         \/ \E k \in Keeps : BeginRetain(p, k)
         \/ TrimDone(p)
  PROVE  IInv(p)'
<1>1. Types /\ started \in Nat /\ started <= MaxSnapshots /\ snapshot_names \subseteq Name
  BY BoundsAssumption DEF IInv, Types, snapshot_names
<1>2. ASSUME NEW m \in Name, NEW content \in Contents, BeginSnapshot(p, m, content)
      PROVE  IInv(p)'
  <2> DEFINE l == [NoLocals EXCEPT !.cmd = "snapshot", !.name = m,
                                   !.refs = content, !.names = snapshot_names]
  <2>1. /\ l \in Locals /\ l.names = snapshot_names /\ l.found = {} /\ l.victims = {}
        /\ l.cmd = "snapshot" /\ l.name # 0
    <3>1. l \in Locals
      BY <1>1, NoLocalsType, ContentsAssumption DEF Locals
    <3>2. /\ l.names = snapshot_names /\ l.found = {} /\ l.victims = {} /\ l.cmd = "snapshot"
          /\ l.name # 0
      BY NameAssumption DEF NoLocals
    <3> QED BY <3>1, <3>2
  <2>2. /\ pc[p] = "idle" /\ pc' = [pc EXCEPT ![p] = "scan"] /\ op' = [op EXCEPT ![p] = l]
        /\ chunks' = chunks /\ snaps' = snaps /\ faults' = faults
        /\ started' = started + 1 /\ started < MaxSnapshots
    BY <1>2 DEF BeginSnapshot
  <2>3. started' \in started .. MaxSnapshots /\ started' > started
    BY <1>1, <2>2, BoundsAssumption
  <2> HIDE DEF l
  <2> QED BY <2>1, <2>2, <2>3, BeginIInv
<1>3. ASSUME BeginGc(p) \/ TrimDone(p) PROVE IInv(p)'
  <2> DEFINE l == [NoLocals EXCEPT !.cmd = "gc", !.names = snapshot_names]
  <2>1. /\ l \in Locals /\ l.names = snapshot_names /\ l.found = {} /\ l.victims = {}
        /\ l.cmd = "gc"
    <3>1. l \in Locals
      BY <1>1, NoLocalsType DEF Locals
    <3>2. /\ l.names = snapshot_names /\ l.found = {} /\ l.victims = {} /\ l.cmd = "gc"
      BY DEF NoLocals
    <3> QED BY <3>1, <3>2
  <2>2. /\ pc[p] \in {"idle", "trim"}
        /\ pc' = [pc EXCEPT ![p] = "scan"] /\ op' = [op EXCEPT ![p] = l]
        /\ chunks' = chunks /\ snaps' = snaps /\ faults' = faults /\ started' = started
    BY <1>3 DEF BeginGc, TrimDone
  <2>3. started' \in started .. MaxSnapshots
    BY <1>1, <2>2, BoundsAssumption
  <2> HIDE DEF l
  <2> QED BY <2>1, <2>2, <2>3, BeginIInv
<1>4. ASSUME NEW k \in Keeps, BeginRetain(p, k) PROVE IInv(p)'
  <2> DEFINE l == [NoLocals EXCEPT !.cmd = "retain", !.keep = k, !.names = snapshot_names]
  <2>1. /\ l \in Locals /\ l.names = snapshot_names /\ l.found = {} /\ l.victims = {}
        /\ l.cmd = "retain"
    <3>1. l \in Locals
      BY <1>1, NoLocalsType DEF Locals
    <3>2. /\ l.names = snapshot_names /\ l.found = {} /\ l.victims = {} /\ l.cmd = "retain"
      BY DEF NoLocals
    <3> QED BY <3>1, <3>2
  <2>2. /\ pc[p] = "idle" /\ pc' = [pc EXCEPT ![p] = "scan"] /\ op' = [op EXCEPT ![p] = l]
        /\ chunks' = chunks /\ snaps' = snaps /\ faults' = faults /\ started' = started
    BY <1>4 DEF BeginRetain
  <2>3. started' \in started .. MaxSnapshots
    BY <1>1, <2>2, BoundsAssumption
  <2> HIDE DEF l
  <2> QED BY <2>1, <2>2, <2>3, BeginIInv
<1> QED BY <1>2, <1>3, <1>4

-----------------------------------------------------------------------------
(***************************************************************************)
(* Manifests are read, and what is to be done is chosen.                   *)
(***************************************************************************)
LEMMA LoadManifestIInv ==
  ASSUME NEW p, Proc = {p}, IInv(p), LoadManifest(p)
  PROVE  IInv(p)'
<1> DEFINE m == Least(op[p].names)
           entry == [name |-> m, seq |-> snaps[m].seq, refs |-> snaps[m].refs]
<1>1. /\ p \in Proc /\ Types /\ pc[p] = "scan" /\ op[p] \in Locals
      /\ op[p].names \subseteq Name /\ faults \in 0 .. MaxFaults
  BY Own DEF IInv, LoadManifest, Types
<1>2. m \in op[p].names /\ m \in Name
  <2>1. op[p].names \subseteq Nat /\ op[p].names # {}
    BY <1>1, NameAssumption DEF LoadManifest
  <2> QED BY <1>1, <2>1, LeastIn
<1> HIDE DEF m
<1>3. CASE ~Whole(m)
  <2>1. /\ Exit(p) /\ chunks' = chunks /\ snaps' = snaps /\ started' = started /\ faults' = faults
    BY <1>3 DEF LoadManifest, m
  <2>2. faults' = 0 => faults = 0 /\ \A h \in Chunk : chunks[h] # "torn"
    BY <1>1, <2>1 DEF IInv, StoreOK
  <2> QED BY <1>1, <2>1, <2>2, ExitIInv
<1>4. CASE Whole(m)
  <2>1. /\ op' = [op EXCEPT ![p].names = @ \ {m}, ![p].found = @ \cup {entry}]
        /\ pc' = pc /\ chunks' = chunks /\ snaps' = snaps
        /\ started' = started /\ faults' = faults
    BY <1>4 DEF LoadManifest, m
  <2>2. op'[p] = [op[p] EXCEPT !.names = @ \ {m}, !.found = @ \cup {entry}]
    BY <1>1, <2>1 DEF Types
  <2>3. entry \in [name : Name, seq : 0 .. MaxSnapshots, refs : SUBSET Chunk]
    BY <1>1, <1>2 DEF Types, ManifestFile
  <2>4. op[p].found \cup {entry}
          \in SUBSET [name : Name, seq : 0 .. MaxSnapshots, refs : SUBSET Chunk]
    <3> HIDE DEF entry
    <3> QED BY <1>1, <2>3 DEF Locals
  <2>5. /\ op'[p] \in Locals
        /\ op'[p].names = op[p].names \ {m} /\ op'[p].found = op[p].found \cup {entry}
        /\ op'[p].victims = op[p].victims /\ op'[p].cmd = op[p].cmd
        /\ op'[p].name = op[p].name
    <3> DEFINE names == op[p].names \ {m}
               found == op[p].found \cup {entry}
    <3>1. names \in SUBSET Name /\ op[p] \in Locals
      BY <1>1
    <3>2. found \in SUBSET [name : Name, seq : 0 .. MaxSnapshots, refs : SUBSET Chunk]
      BY <2>4
    <3>3. op'[p] = [op[p] EXCEPT !.names = names, !.found = found]
      BY <2>2
    <3> HIDE DEF names, found
    <3>4. /\ op'[p] \in Locals
          /\ op'[p].names = names /\ op'[p].found = found /\ op'[p].victims = op[p].victims
          /\ op'[p].cmd = op[p].cmd /\ op'[p].name = op[p].name
      BY <3>1, <3>2, <3>3 DEF Locals
    <3> QED BY <3>4 DEF names, found
  <2>6. Types'
    BY <1>1, <2>1, <2>5 DEF Types
  <2>7. Placed(p)' /\ SweepOK(p)'
    BY <1>1, <2>1, <2>5 DEF IInv, Placed, SweepOK
  <2>8. ScanOK(p)'
    <3>1. /\ op[p].names \subseteq snapshot_names
          /\ \A k \in snapshot_names \ op[p].names :
               Whole(k) /\ [name |-> k, seq |-> snaps[k].seq, refs |-> snaps[k].refs] \in op[p].found
          /\ \A x \in op[p].found :
               Whole(x.name) /\ x.seq = snaps[x.name].seq /\ x.refs = snaps[x.name].refs
      BY <1>1 DEF IInv, ScanOK
    <3>2. op'[p].names \subseteq snapshot_names
      BY <2>5, <3>1
    <3>3. \A k \in snapshot_names \ op'[p].names :
            Whole(k) /\ [name |-> k, seq |-> snaps[k].seq, refs |-> snaps[k].refs] \in op'[p].found
      BY <1>4, <2>5, <3>1
    <3>4. \A x \in op'[p].found :
            Whole(x.name) /\ x.seq = snaps[x.name].seq /\ x.refs = snaps[x.name].refs
      BY <1>4, <2>5, <3>1
    <3> QED BY <2>1, <3>2, <3>3, <3>4 DEF ScanOK, snapshot_names, Whole
  <2>9. SeqOK(p)' /\ StoreOK(p)'
    BY <1>1, <2>1, <2>5 DEF IInv, SeqOK, StoreOK, Listed, Whole
  <2> QED BY <2>6, <2>7, <2>8, <2>9 DEF IInv
<1> QED BY <1>3, <1>4

\* Every manifest has been read: all of them parse, and found holds them all.
LEMMA AllRead ==
  ASSUME NEW p, Proc = {p}, IInv(p), pc[p] = "scan", op[p].names = {}
  PROVE  /\ snapshot_names = Listed
         /\ \A m \in Listed :
              [name |-> m, seq |-> snaps[m].seq, refs |-> snaps[m].refs] \in op[p].found
         /\ \A x \in op[p].found :
              /\ x.name \in Listed
              /\ x.seq = snaps[x.name].seq /\ x.seq \in 0 .. MaxSnapshots
              /\ x.refs = snaps[x.name].refs
<1>1. /\ \A m \in snapshot_names :
           Whole(m) /\ [name |-> m, seq |-> snaps[m].seq, refs |-> snaps[m].refs] \in op[p].found
      /\ \A x \in op[p].found :
           Whole(x.name) /\ x.seq = snaps[x.name].seq /\ x.refs = snaps[x.name].refs
  BY DEF IInv, ScanOK
<1>2. \A x \in op[p].found : x.name \in Name /\ x.seq \in 0 .. MaxSnapshots
  BY Own DEF IInv, Locals
<1>3. snapshot_names = Listed
  BY <1>1 DEF snapshot_names, Listed, Whole
<1> QED BY <1>1, <1>2, <1>3 DEF Listed

LEMMA ChooseSeqIInv ==
  ASSUME NEW p, Proc = {p}, IInv(p), ChooseSeq(p)
  PROVE  IInv(p)'
<1> DEFINE s == NextSeq(op[p].found)
<1>1. /\ p \in Proc /\ Types /\ pc[p] = "scan" /\ op[p].names = {} /\ op[p].cmd = "snapshot"
      /\ op[p] \in Locals
      /\ pc' = [pc EXCEPT ![p] = "check"]
      /\ op' = [op EXCEPT ![p].seq = s, ![p].found = {}, ![p].todo = op[p].refs]
      /\ chunks' = chunks /\ snaps' = snaps /\ started' = started /\ faults' = faults
  BY Own DEF IInv, ChooseSeq, Scanned
<1>2. started \in Nat /\ started > 0 /\ started <= MaxSnapshots
      /\ \A m \in Listed : snaps[m].seq \in Nat /\ snaps[m].seq < started
  BY <1>1, BoundsAssumption DEF IInv, SeqOK, Types
<1>3. s \in Nat /\ s <= started
  <2>1. CASE op[p].found = {}
    BY <1>2, <2>1 DEF NextSeq
  <2>2. CASE op[p].found # {}
    <3>1. \A x \in op[p].found :
            x.name \in Listed /\ x.seq = snaps[x.name].seq /\ x.seq \in 0 .. MaxSnapshots
      BY <1>1, AllRead
    <3>2. PICK x \in op[p].found : s = 1 + x.seq
      BY <2>2, <3>1, HighestSeq
    <3>3. x.seq \in Nat /\ x.seq < started
      BY <1>2, <3>1
    <3> HIDE DEF s
    <3> QED BY <1>2, <3>2, <3>3
  <2> QED BY <2>1, <2>2
<1> HIDE DEF s
<1>4. op'[p] = [op[p] EXCEPT !.seq = s, !.found = {}, !.todo = op[p].refs] /\ pc'[p] = "check"
  BY <1>1 DEF Types
<1>5. s \in 0 .. MaxSnapshots /\ op[p].refs \in SUBSET Chunk
  BY <1>1, <1>2, <1>3, BoundsAssumption DEF Locals
<1>6. /\ op'[p] \in Locals
      /\ op'[p].seq = s /\ op'[p].found = {} /\ op'[p].todo = op[p].refs
      /\ op'[p].refs = op[p].refs /\ op'[p].victims = op[p].victims /\ op'[p].name = op[p].name
  <2> DEFINE todo == op[p].refs
  <2>1. op[p] \in Locals /\ todo \in SUBSET Chunk
    BY <1>1, <1>5
  <2>2. op'[p] = [op[p] EXCEPT !.seq = s, !.found = {}, !.todo = todo]
    BY <1>4
  <2> HIDE DEF todo
  <2>3. /\ op'[p] \in Locals
        /\ op'[p].seq = s /\ op'[p].found = {} /\ op'[p].todo = todo
        /\ op'[p].refs = op[p].refs /\ op'[p].victims = op[p].victims
        /\ op'[p].name = op[p].name
    BY <1>5, <2>1, <2>2 DEF Locals
  <2> QED BY <2>3 DEF todo
<1>7. Types'
  BY <1>1, <1>6 DEF Types, Places
<1>8. Placed(p)'
  BY <1>1, <1>4, <1>6 DEF IInv, Placed
<1>9. ScanOK(p)' /\ SweepOK(p)'
  BY <1>4 DEF ScanOK, SweepOK
<1>10. SeqOK(p)'
  <2>1. Listed' = Listed /\ snaps' = snaps /\ started' = started /\ pc'[p] = "check"
        /\ op'[p].seq = s
    BY <1>1, <1>4, <1>6 DEF Listed, Whole
  <2>2. s \in 0 .. started
    BY <1>2, <1>3
  <2>3. \A m \in Listed : snaps[m].seq \in 0 .. started
    BY DEF IInv, SeqOK
  <2> QED BY <2>1, <2>2, <2>3 DEF SeqOK
<1>11. StoreOK(p)'
  BY <1>1, <1>4, <1>6 DEF IInv, StoreOK, Listed, Whole
<1> QED BY <1>7, <1>8, <1>9, <1>10, <1>11 DEF IInv

LEMMA ChooseGarbageIInv ==
  ASSUME NEW p, Proc = {p}, IInv(p), ChooseGarbage(p)
  PROVE  IInv(p)'
<1> DEFINE live == UNION {x.refs : x \in op[p].found}
           garbage == {h \in Chunk : has(h)} \ live
<1>1. /\ p \in Proc /\ Types /\ pc[p] = "scan" /\ op[p].names = {} /\ op[p] \in Locals
      /\ pc' = [pc EXCEPT ![p] = "sweep"]
      /\ op' = [op EXCEPT ![p].todo = garbage, ![p].found = {}]
      /\ chunks' = chunks /\ snaps' = snaps /\ started' = started /\ faults' = faults
      /\ op[p].victims = {}
  BY Own DEF IInv, ChooseGarbage, Scanned, Placed
<1>2. \A m \in Listed : snaps[m].refs \cap garbage = {}
  <2> SUFFICES ASSUME NEW m \in Listed, NEW h \in snaps[m].refs PROVE h \in live
    OBVIOUS
  <2> DEFINE e == [name |-> m, seq |-> snaps[m].seq, refs |-> snaps[m].refs]
  <2>1. e \in op[p].found /\ e.refs = snaps[m].refs
    BY <1>1, AllRead
  <2> QED BY <2>1
<1>3. garbage \subseteq Chunk
  OBVIOUS
<1> HIDE DEF garbage
<1>4. op'[p] = [op[p] EXCEPT !.todo = garbage, !.found = {}] /\ pc'[p] = "sweep"
  BY <1>1 DEF Types
<1>5. garbage \in SUBSET Chunk
  BY <1>3
<1>6. op'[p] \in Locals /\ op'[p].todo = garbage /\ op'[p].found = {} /\ op'[p].victims = {}
  <2>1. op[p] \in Locals
    BY <1>1
  <2>2. op'[p] = [op[p] EXCEPT !.todo = garbage, !.found = {}]
    BY <1>4
  <2>3. /\ op'[p] \in Locals
        /\ op'[p].todo = garbage /\ op'[p].found = {} /\ op'[p].victims = op[p].victims
    BY <1>5, <2>1, <2>2 DEF Locals
  <2> QED BY <1>1, <2>3
<1>7. Types'
  BY <1>1, <1>6 DEF Types, Places
<1>8. Placed(p)' /\ ScanOK(p)'
  BY <1>1, <1>4, <1>6 DEF IInv, Placed, ScanOK
<1>9. SweepOK(p)'
  <2>1. snapshot_names = Listed
    BY <1>1, AllRead
  <2> QED BY <1>1, <1>2, <1>6, <2>1 DEF SweepOK, snapshot_names, Listed, Whole
<1>10. SeqOK(p)' /\ StoreOK(p)'
  BY <1>1, <1>4 DEF IInv, SeqOK, StoreOK, Listed, Whole
<1> QED BY <1>7, <1>8, <1>9, <1>10 DEF IInv

LEMMA ChooseVictimsIInv ==
  ASSUME NEW p, Proc = {p}, IInv(p), ChooseVictims(p)
  PROVE  IInv(p)'
<1> DEFINE old == op[p].found \ Newest(op[p].found, op[p].keep)
<1>1. /\ p \in Proc /\ Types /\ pc[p] = "scan" /\ op[p] \in Locals
      /\ pc' = [pc EXCEPT ![p] = "trim"]
      /\ op' = [op EXCEPT ![p].victims = old]
      /\ chunks' = chunks /\ snaps' = snaps /\ started' = started /\ faults' = faults
      /\ old \subseteq op[p].found
  BY Own DEF IInv, ChooseVictims, Scanned
<1> HIDE DEF old
<1>2. op'[p] = [op[p] EXCEPT !.victims = old] /\ pc'[p] = "trim"
  BY <1>1 DEF Types
<1>3. op'[p] \in Locals
  BY <1>1, <1>2 DEF Locals
<1>4. op'[p].victims = old /\ op'[p].found = op[p].found
  BY <1>1, <1>2 DEF Locals
<1>5. Types'
  BY <1>1, <1>3 DEF Types, Places
<1>6. Placed(p)' /\ ScanOK(p)' /\ SweepOK(p)'
  BY <1>1, <1>2, <1>4 DEF Placed, ScanOK, SweepOK
<1>7. SeqOK(p)' /\ StoreOK(p)'
  BY <1>1, <1>2 DEF IInv, SeqOK, StoreOK, Listed, Whole
<1> QED BY <1>5, <1>6, <1>7 DEF IInv

-----------------------------------------------------------------------------
(***************************************************************************)
(* A snapshot stores its chunks, then its manifest.                        *)
(***************************************************************************)
LEMMA CheckChunkIInv ==
  ASSUME NEW p, Proc = {p}, IInv(p), NEW h \in Chunk, CheckChunk(p, h)
  PROVE  IInv(p)'
<1>1. /\ p \in Proc /\ Types /\ pc[p] = "check" /\ op[p] \in Locals /\ h # 0
      /\ chunks' = chunks /\ snaps' = snaps /\ started' = started /\ faults' = faults
      /\ h \in op[p].todo
  BY Own, ChunkAssumption DEF IInv, CheckChunk
<1>2. CASE has(h)
  <2>1. pc' = pc /\ op' = [op EXCEPT ![p].todo = @ \ {h}]
    BY <1>2 DEF CheckChunk
  <2>2. op'[p] = [op[p] EXCEPT !.todo = @ \ {h}]
    BY <1>1, <2>1 DEF Types
  <2>3. /\ op'[p] \in Locals
        /\ op'[p].todo = op[p].todo \ {h} /\ op'[p].refs = op[p].refs
        /\ op'[p].seq = op[p].seq /\ op'[p].name = op[p].name /\ op'[p].cur = op[p].cur
        /\ op'[p].victims = op[p].victims /\ op'[p].found = op[p].found
    BY <1>1, <2>2 DEF Locals
  <2>4. Types'
    BY <1>1, <2>1, <2>3 DEF Types
  <2>5. Placed(p)' /\ ScanOK(p)' /\ SweepOK(p)'
    BY <1>1, <2>1, <2>3 DEF IInv, Placed, ScanOK, SweepOK
  <2>6. SeqOK(p)'
    BY <1>1, <2>1, <2>3 DEF IInv, SeqOK, Listed, Whole
  <2>7. StoreOK(p)'
    <3>1. faults = 0 => chunks[h] = "intact"
      BY <1>1, <1>2 DEF IInv, StoreOK, has, Types, ChunkFile
    <3> QED BY <1>1, <2>1, <2>3, <3>1 DEF IInv, StoreOK, Listed, Whole
  <2> QED BY <2>4, <2>5, <2>6, <2>7 DEF IInv
<1>3. CASE ~has(h)
  <2>1. /\ pc' = [pc EXCEPT ![p] = "create"]
        /\ op' = [op EXCEPT ![p].todo = @ \ {h}, ![p].cur = h]
    BY <1>3 DEF CheckChunk
  <2>2. op'[p] = [op[p] EXCEPT !.todo = @ \ {h}, !.cur = h] /\ pc'[p] = "create"
    BY <1>1, <2>1 DEF Types
  <2>3. /\ op'[p] \in Locals
        /\ op'[p].todo = op[p].todo \ {h} /\ op'[p].refs = op[p].refs
        /\ op'[p].seq = op[p].seq /\ op'[p].name = op[p].name /\ op'[p].cur = h
        /\ op'[p].victims = op[p].victims /\ op'[p].found = op[p].found
    BY <1>1, <2>2 DEF Locals
  <2>4. Types'
    BY <1>1, <2>1, <2>3 DEF Types, Places
  <2>5. Placed(p)' /\ ScanOK(p)' /\ SweepOK(p)'
    BY <1>1, <1>3, <2>2, <2>3 DEF IInv, Placed, ScanOK, SweepOK, has
  <2>6. SeqOK(p)'
    BY <1>1, <2>2, <2>3 DEF IInv, SeqOK, Listed, Whole
  <2>7. StoreOK(p)'
    BY <1>1, <2>2, <2>3 DEF IInv, StoreOK, Listed, Whole
  <2> QED BY <2>4, <2>5, <2>6, <2>7 DEF IInv
<1> QED BY <1>2, <1>3

LEMMA CreateChunkIInv ==
  ASSUME NEW p, Proc = {p}, IInv(p), CreateChunk(p)
  PROVE  IInv(p)'
<1> DEFINE h == op[p].cur
<1>1. /\ p \in Proc /\ Types /\ pc[p] = "create" /\ h \in Chunk /\ chunks[h] = "absent"
      /\ chunks' = [chunks EXCEPT ![h] = "torn"] /\ pc' = [pc EXCEPT ![p] = "fill"]
      /\ op' = op /\ snaps' = snaps /\ started' = started /\ faults' = faults
  BY Own DEF IInv, CreateChunk, Placed, Locals
<1>2. pc'[p] = "fill"
  BY <1>1 DEF Types
<1>3. chunks'[h] = "torn" /\ \A k \in Chunk \ {h} : chunks'[k] = chunks[k]
  BY <1>1 DEF Types
<1>4. Types'
  BY <1>1 DEF Types, Places, ChunkFile
<1>5. Placed(p)' /\ ScanOK(p)' /\ SweepOK(p)'
  BY <1>1, <1>2, <1>3 DEF IInv, Placed, ScanOK, SweepOK
<1>6. SeqOK(p)'
  BY <1>1, <1>2 DEF IInv, SeqOK, Listed, Whole
<1>7. StoreOK(p)'
  <2>1. Listed' = Listed /\ \A m \in Listed : snaps[m].refs \subseteq Chunk
    BY <1>1 DEF Listed, Whole, Types, ManifestFile
  <2>2. op[p].refs \subseteq Chunk
    BY <1>1, Own
  <2> QED BY <1>1, <1>2, <1>3, <2>1, <2>2 DEF IInv, StoreOK
<1> QED BY <1>4, <1>5, <1>6, <1>7 DEF IInv

\* The chunk is stored, or its last bytes are lost and nobody notices.
LEMMA FillChunkIInv ==
  ASSUME NEW p, Proc = {p}, IInv(p), FillChunk(p) \/ LoseBufferedChunk(p)
  PROVE  IInv(p)'
<1> DEFINE h == op[p].cur
<1>1. /\ p \in Proc /\ Types /\ pc[p] = "fill" /\ h \in Chunk /\ chunks[h] = "torn"
      /\ op[p] \in Locals
      /\ pc' = [pc EXCEPT ![p] = "check"] /\ op' = [op EXCEPT ![p].cur = 0]
      /\ snaps' = snaps /\ started' = started
  BY Own DEF IInv, FillChunk, LoseBufferedChunk, Placed, Locals
<1>2. \/ chunks' = [chunks EXCEPT ![h] = "intact"] /\ faults' = faults
      \/ chunks' = chunks /\ faults' = faults + 1 /\ faults < MaxFaults
  BY DEF FillChunk, LoseBufferedChunk
<1>3. pc'[p] = "check" /\ op'[p] = [op[p] EXCEPT !.cur = 0]
  BY <1>1 DEF Types
<1>4. /\ op'[p] \in Locals
      /\ op'[p].todo = op[p].todo /\ op'[p].refs = op[p].refs
      /\ op'[p].seq = op[p].seq /\ op'[p].name = op[p].name
      /\ op'[p].victims = op[p].victims /\ op'[p].found = op[p].found
  BY <1>1, <1>3 DEF Locals
<1>5. Types'
  <2>1. chunks' \in [Chunk -> ChunkFile]
    BY <1>1, <1>2 DEF Types, ChunkFile
  <2>2. faults' \in 0 .. MaxFaults
    BY <1>1, <1>2, BoundsAssumption DEF Types
  <2> QED BY <1>1, <1>4, <2>1, <2>2 DEF Types, Places
<1>6. Placed(p)' /\ ScanOK(p)' /\ SweepOK(p)'
  BY <1>1, <1>3, <1>4 DEF IInv, Placed, ScanOK, SweepOK
<1>7. SeqOK(p)'
  BY <1>1, <1>3, <1>4 DEF IInv, SeqOK, Listed, Whole
<1>8. StoreOK(p)'
  <2>1. CASE faults' = 0
    <3>1. /\ faults = 0 /\ chunks'[h] = "intact"
          /\ \A k \in Chunk \ {h} : chunks'[k] = chunks[k]
      BY <1>1, <1>2, <2>1, BoundsAssumption DEF Types
    <3>2. Listed' = Listed /\ \A m \in Listed : snaps[m].refs \subseteq Chunk
      BY <1>1 DEF Listed, Whole, Types, ManifestFile
    <3>3. op[p].refs \subseteq Chunk
      BY <1>1, Own
    <3> QED BY <1>1, <1>3, <1>4, <3>1, <3>2, <3>3 DEF IInv, StoreOK
  <2>2. CASE faults' # 0
    BY <2>2 DEF StoreOK
  <2> QED BY <2>1, <2>2
<1> QED BY <1>5, <1>6, <1>7, <1>8 DEF IInv

LEMMA OpenManifestIInv ==
  ASSUME NEW p, Proc = {p}, IInv(p), OpenManifest(p)
  PROVE  IInv(p)'
<1> DEFINE m == op[p].name
<1>1. /\ p \in Proc /\ Types /\ pc[p] = "check" /\ m \in Name /\ op[p].todo = {}
      /\ snaps' = [snaps EXCEPT ![m] = TornFile] /\ pc' = [pc EXCEPT ![p] = "seal"]
      /\ op' = op /\ chunks' = chunks /\ started' = started /\ faults' = faults
  BY Own DEF IInv, OpenManifest, Placed, Locals
<1>2. pc'[p] = "seal" /\ snaps'[m] = TornFile /\ \A k \in Name \ {m} : snaps'[k] = snaps[k]
  BY <1>1 DEF Types
<1>3. Listed' = Listed \ {m}
  BY <1>1, <1>2 DEF Listed, Whole, TornFile
<1>4. \A k \in Listed' : k \in Listed /\ snaps'[k] = snaps[k]
  BY <1>2, <1>3 DEF Listed
<1>5. Types'
  BY <1>1, BoundsAssumption DEF Types, Places, TornFile, ManifestFile
<1>6. Placed(p)' /\ ScanOK(p)' /\ SweepOK(p)'
  BY <1>1, <1>2 DEF IInv, Placed, ScanOK, SweepOK
<1>7. SeqOK(p)'
  BY <1>1, <1>2, <1>4 DEF IInv, SeqOK
<1>8. StoreOK(p)'
  BY <1>1, <1>2, <1>4 DEF IInv, StoreOK
<1> QED BY <1>5, <1>6, <1>7, <1>8 DEF IInv

\* The manifest is whole, and all the chunks it names have been stored.
LEMMA WriteManifestIInv ==
  ASSUME NEW p, Proc = {p}, IInv(p), WriteManifest(p)
  PROVE  IInv(p)'
<1> DEFINE m == op[p].name
           mine == [file |-> "whole", seq |-> op[p].seq, refs |-> op[p].refs]
<1>1. /\ p \in Proc /\ Types /\ pc[p] = "seal" /\ m \in Name /\ op[p] \in Locals
      /\ snaps[m] = TornFile
  BY Own DEF IInv, WriteManifest, Placed, Locals
<1>2. /\ snaps' = [snaps EXCEPT ![m] = mine] /\ Exit(p)
      /\ chunks' = chunks /\ started' = started /\ faults' = faults
  <2>1. ~Whole(m)
    BY <1>1 DEF Whole, TornFile
  <2> QED BY <2>1 DEF WriteManifest
<1>3. /\ pc'[p] = "idle" /\ op'[p] = NoLocals
      /\ snaps'[m] = mine /\ \A k \in Name \ {m} : snaps'[k] = snaps[k]
  BY <1>1, <1>2 DEF Exit, Types
<1>4. m \notin Listed /\ Listed' = Listed \cup {m}
  BY <1>1, <1>3 DEF Listed, Whole, TornFile
<1>5. Types'
  <2>1. mine \in ManifestFile
    BY <1>1 DEF Locals, ManifestFile
  <2>2. snaps' \in [Name -> ManifestFile]
    <3> HIDE DEF mine
    <3> QED BY <1>1, <1>2, <2>1 DEF Types
  <2>3. pc' \in [Proc -> Places] /\ op' \in [Proc -> Locals]
    BY <1>1, <1>2, NoLocalsType DEF Types, Exit, Places
  <2> QED BY <1>1, <1>2, <2>2, <2>3 DEF Types
<1>6. Placed(p)' /\ ScanOK(p)' /\ SweepOK(p)'
  BY <1>3 DEF Placed, ScanOK, SweepOK, NoLocals
<1>7. SeqOK(p)'
  <2>1. /\ \A k \in Listed : snaps[k].seq \in 0 .. started
        /\ op[p].seq \in 0 .. started
    BY <1>1 DEF IInv, SeqOK
  <2>2. \A k \in Listed : snaps'[k] = snaps[k]
    BY <1>3, <1>4 DEF Listed
  <2>3. snaps'[m].seq = op[p].seq
    BY <1>3
  <2>4. \A k \in Listed' : snaps'[k].seq \in 0 .. started
    BY <1>4, <2>1, <2>2, <2>3
  <2> QED BY <1>2, <1>3, <2>4 DEF SeqOK
<1>8. StoreOK(p)'
  <2>1. ASSUME faults = 0, NEW k \in Listed', NEW h \in snaps'[k].refs
        PROVE  chunks[h] = "intact"
    <3>1. CASE k = m
      BY <1>1, <1>3, <2>1, <3>1 DEF IInv, StoreOK
    <3>2. CASE k # m
      <4>1. k \in Listed /\ snaps'[k] = snaps[k]
        BY <1>3, <1>4, <3>2 DEF Listed
      <4> QED BY <2>1, <4>1 DEF IInv, StoreOK
    <3> QED BY <3>1, <3>2
  <2>2. faults = 0 => \A h \in Chunk : chunks[h] # "torn"
    BY <1>1 DEF IInv, StoreOK
  <2> QED BY <1>2, <1>3, <2>1, <2>2 DEF StoreOK
<1> QED BY <1>5, <1>6, <1>7, <1>8 DEF IInv

-----------------------------------------------------------------------------
(***************************************************************************)
(* Snapshots are dropped and chunks swept; a command ends or is killed.    *)
(***************************************************************************)

\* Removing a manifest between commands, or in retain, disturbs nothing.
LEMMA RemoveManifestIInv ==
  ASSUME NEW p, Proc = {p}, IInv(p), pc[p] \in {"idle", "trim"}, NEW m,
         snaps' = [snaps EXCEPT ![m] = NoFile], pc' = pc,
         op' \in [Proc -> Locals], op'[p].victims \subseteq op'[p].found,
         chunks' = chunks, started' = started, faults' = faults
  PROVE  IInv(p)'
<1>1. p \in Proc /\ Types
  BY DEF IInv
<1>2. \A k \in Name : snaps'[k] = IF k = m THEN NoFile ELSE snaps[k]
  BY <1>1 DEF Types
<1>3. \A k \in Listed' : k \in Listed /\ snaps'[k] = snaps[k]
  BY <1>2 DEF Listed, Whole, NoFile
<1>4. Types'
  <2>1. NoFile \in ManifestFile
    BY BoundsAssumption DEF NoFile, ManifestFile
  <2> QED BY <1>1, <2>1 DEF Types
<1>5. Placed(p)' /\ ScanOK(p)' /\ SweepOK(p)'
  BY DEF Placed, ScanOK, SweepOK
<1>6. SeqOK(p)' /\ StoreOK(p)'
  BY <1>3 DEF IInv, SeqOK, StoreOK
<1> QED BY <1>4, <1>5, <1>6 DEF IInv

LEMMA DropIInv ==
  ASSUME NEW p, Proc = {p}, IInv(p), NEW m \in Name, Drop(p, m)
  PROVE  IInv(p)'
<1>1. /\ pc[p] = "idle" /\ snaps' = [snaps EXCEPT ![m] = NoFile] /\ op' = op
      /\ chunks' = chunks /\ started' = started /\ faults' = faults
      /\ pc' = Unlinked("seal", m)
  BY DEF Drop
<1>2. pc' = pc
  BY <1>1 DEF Unlinked, IInv, Types
<1>3. op' \in [Proc -> Locals] /\ op'[p].victims \subseteq op'[p].found
  BY <1>1 DEF IInv, Types, Placed
<1> QED BY <1>1, <1>2, <1>3, RemoveManifestIInv

LEMMA TrimOldestIInv ==
  ASSUME NEW p, Proc = {p}, IInv(p), TrimOldest(p)
  PROVE  IInv(p)'
<1> DEFINE v == Oldest(op[p].victims)
<1>1. /\ p \in Proc /\ Types /\ pc[p] = "trim" /\ op[p] \in Locals
      /\ chunks' = chunks /\ started' = started /\ faults' = faults
      /\ op[p].victims \subseteq op[p].found
  BY Own DEF IInv, TrimOldest, Placed
<1>2. CASE snaps[v.name].file # "absent"
  <2>1. /\ snaps' = [snaps EXCEPT ![v.name] = NoFile]
        /\ op' = [op EXCEPT ![p].victims = @ \ {v}]
        /\ pc' = Unlinked("seal", v.name)
    BY <1>2 DEF TrimOldest
  <2>2. pc' = pc
    BY <1>1, <2>1 DEF Unlinked, Types
  <2> HIDE DEF v
  <2>3. op'[p] = [op[p] EXCEPT !.victims = @ \ {v}]
    BY <1>1, <2>1 DEF Types
  <2>4. op'[p] \in Locals /\ op'[p].victims \subseteq op'[p].found
    BY <1>1, <2>3 DEF Locals
  <2>5. op' \in [Proc -> Locals]
    BY <1>1, <2>1, <2>4 DEF Types
  <2> QED BY <1>1, <2>1, <2>2, <2>4, <2>5, RemoveManifestIInv
<1>3. CASE ~(snaps[v.name].file # "absent")
  <2>1. Exit(p) /\ snaps' = snaps
    BY <1>3 DEF TrimOldest
  <2>2. faults' \in 0 .. MaxFaults
        /\ (faults' = 0 => faults = 0 /\ \A h \in Chunk : chunks[h] # "torn")
    BY <1>1 DEF IInv, StoreOK, Types
  <2> QED BY <1>1, <2>1, <2>2, ExitIInv
<1> QED BY <1>2, <1>3

LEMMA SweepChunkIInv ==
  ASSUME NEW p, Proc = {p}, IInv(p), SweepChunk(p)
  PROVE  IInv(p)'
<1> DEFINE h == Least(op[p].todo)
<1>1. /\ p \in Proc /\ Types /\ pc[p] = "sweep" /\ op[p] \in Locals
      /\ op[p].todo \subseteq Chunk /\ op[p].todo # {}
      /\ snaps' = snaps /\ started' = started /\ faults' = faults
  BY Own DEF IInv, SweepChunk
<1>2. h \in op[p].todo /\ h \in Chunk
  <2>1. op[p].todo \subseteq Nat
    BY <1>1, ChunkAssumption
  <2> QED BY <1>1, <2>1, LeastIn
<1> HIDE DEF h
<1>3. CASE has(h)
  <2>1. /\ chunks' = [chunks EXCEPT ![h] = "absent"]
        /\ op' = [op EXCEPT ![p].todo = @ \ {h}]
        /\ pc' = Unlinked("fill", h)
    BY <1>3 DEF SweepChunk, h
  <2>2. pc' = pc
    BY <1>1, <2>1 DEF Unlinked, Types
  <2>3. op'[p] = [op[p] EXCEPT !.todo = @ \ {h}]
    BY <1>1, <2>1 DEF Types
  <2>4. /\ op'[p] \in Locals /\ op'[p].todo = op[p].todo \ {h}
        /\ op'[p].victims = op[p].victims /\ op'[p].found = op[p].found
    BY <1>1, <2>3 DEF Locals
  <2>5. Types'
    BY <1>1, <2>1, <2>2, <2>4 DEF Types, ChunkFile
  <2>6. Placed(p)' /\ ScanOK(p)'
    BY <1>1, <2>2, <2>4 DEF IInv, Placed, ScanOK
  <2>7. SweepOK(p)'
    BY <1>1, <2>2, <2>4 DEF IInv, SweepOK, snapshot_names, Listed, Whole
  <2>8. SeqOK(p)'
    BY <1>1, <2>2 DEF IInv, SeqOK, Listed, Whole
  <2>9. StoreOK(p)'
    <3>1. Listed' = Listed /\ \A m \in Listed : h \notin snaps[m].refs /\ snaps[m].refs \subseteq Chunk
      BY <1>1, <1>2 DEF IInv, SweepOK, Listed, Whole, Types, ManifestFile
    <3>2. chunks'[h] = "absent" /\ \A k \in Chunk \ {h} : chunks'[k] = chunks[k]
      BY <1>1, <1>2, <2>1 DEF Types
    <3> QED BY <1>1, <2>2, <3>1, <3>2 DEF IInv, StoreOK
  <2> QED BY <2>5, <2>6, <2>7, <2>8, <2>9 DEF IInv
<1>4. CASE ~has(h)
  <2>1. Exit(p) /\ chunks' = chunks
    BY <1>4 DEF SweepChunk, h
  <2>2. faults' \in 0 .. MaxFaults
        /\ (faults' = 0 => faults = 0 /\ \A k \in Chunk : chunks[k] # "torn")
    BY <1>1 DEF IInv, StoreOK, Types
  <2> QED BY <1>1, <2>1, <2>2, ExitIInv
<1> QED BY <1>3, <1>4

LEMMA EndIInv ==
  ASSUME NEW p, Proc = {p}, IInv(p), SweepDone(p) \/ Crash(p)
  PROVE  IInv(p)'
<1>1. Exit(p) /\ chunks' = chunks /\ snaps' = snaps /\ started' = started
  BY DEF SweepDone, Crash
<1>2. faults' \in 0 .. MaxFaults
      /\ (faults' = 0 => faults = 0 /\ \A h \in Chunk : chunks[h] # "torn")
  <2>1. CASE SweepDone(p)
    BY <2>1 DEF SweepDone, IInv, StoreOK, Types
  <2>2. CASE Crash(p)
    BY <2>2, BoundsAssumption DEF Crash, IInv, Types
  <2> QED BY <2>1, <2>2
<1> QED BY <1>1, <1>2, ExitIInv

LEMMA NextIInv ==
  ASSUME NEW p, Proc = {p}, IInv(p), [Next]_vars
  PROVE  IInv(p)'
<1>1. CASE UNCHANGED vars
  BY <1>1 DEF vars, IInv, Types, Placed, ScanOK, SweepOK, SeqOK, StoreOK,
              snapshot_names, Listed, Whole
<1>2. ~WriteAdrift(p)
  BY DEF IInv, Placed, WriteAdrift
<1>3. CASE Next
  BY <1>2, <1>3, BeginCommandIInv, LoadManifestIInv, ChooseSeqIInv, ChooseGarbageIInv,
     ChooseVictimsIInv, CheckChunkIInv, CreateChunkIInv, FillChunkIInv, OpenManifestIInv,
     WriteManifestIInv, DropIInv, TrimOldestIInv, SweepChunkIInv, EndIInv DEF Next
<1> QED BY <1>1, <1>3

-----------------------------------------------------------------------------
(***************************************************************************)
(* What follows.                                                           *)
(***************************************************************************)

\* The inductive invariant, with one process running every command.
THEOREM IInvHolds ==
  ASSUME NEW svcore, Proc = {svcore}
  PROVE  Spec => []IInv(svcore)
<1>1. Init => IInv(svcore)
  BY InitIInv
<1>2. IInv(svcore) /\ [Next]_vars => IInv(svcore)'
  BY NextIInv
<1> QED BY <1>1, <1>2, PTL DEF Spec

\* A snapshot that a listing shows restores, as long as no process was killed
\* and no write failed: its chunks are there before it is listed, and no later
\* snapshot, drop, gc or retain takes one away.
THEOREM ListedRestores ==
  ASSUME NEW svcore, Proc = {svcore}
  PROVE  Spec => []ListedIsRestorable
<1>1. IInv(svcore) => ListedIsRestorable
  BY DEF IInv, StoreOK, ListedIsRestorable, Restorable, Listed
<1>2. Spec => []IInv(svcore)
  BY IInvHolds
<1> QED BY <1>1, <1>2, PTL

\* A sweep deletes only while every manifest parses.
THEOREM FullScanFirst ==
  ASSUME NEW svcore, Proc = {svcore}
  PROVE  Spec => SweepOnlyAfterFullScan
<1>1. IInv(svcore) /\ [Next]_vars =>
        [\A p \in Proc : SweepChunk(p) /\ chunks' # chunks => snapshot_names = Listed]_vars
  BY DEF IInv, SweepOK, SweepChunk
<1>2. Spec => []IInv(svcore)
  BY IInvHolds
<1> QED BY <1>1, <1>2, PTL DEF Spec, SweepOnlyAfterFullScan

\* A chunk that a listed snapshot references is not what is swept.
LEMMA SweptIsUnreferenced ==
  ASSUME NEW p, Proc = {p}, IInv(p), SweepChunk(p),
         NEW m \in Listed, NEW h \in snaps[m].refs
  PROVE  chunks'[h] = chunks[h]
<1> DEFINE k == Least(op[p].todo)
<1>1. /\ Types /\ pc[p] = "sweep" /\ op[p].todo \subseteq Chunk /\ op[p].todo # {}
  BY Own DEF IInv, SweepChunk
<1>2. k \in op[p].todo
  <2>1. op[p].todo \subseteq Nat
    BY <1>1, ChunkAssumption
  <2> QED BY <1>1, <2>1, LeastIn
<1> HIDE DEF k
<1>3. k # h
  BY <1>1, <1>2 DEF IInv, SweepOK
<1>4. chunks' = [chunks EXCEPT ![k] = "absent"] \/ chunks' = chunks
  BY DEF SweepChunk, k
<1>5. h \in Chunk
  BY <1>1 DEF Types, ManifestFile, Listed
<1> QED BY <1>1, <1>3, <1>4, <1>5 DEF Types

\* "gc never touches referenced chunks", whether gc or retain runs it and
\* whatever faults came before.
THEOREM GcIsSafe ==
  ASSUME NEW svcore, Proc = {svcore}
  PROVE  Spec => GcNeverTouchesReferenced
<1>1. IInv(svcore) /\ [Next]_vars =>
        [\A p \in Proc : SweepChunk(p) =>
           \A m \in Listed : \A h \in snaps[m].refs : chunks'[h] = chunks[h]]_vars
  BY SweptIsUnreferenced
<1>2. Spec => []IInv(svcore)
  BY IInvHolds
<1> QED BY <1>1, <1>2, PTL DEF Spec, GcNeverTouchesReferenced

\* An intact chunk of a listed snapshot stays intact.
LEMMA ReferencedStaysIntact ==
  ASSUME NEW p, Proc = {p}, IInv(p), [Next]_vars,
         NEW m \in Listed, NEW h \in snaps[m].refs, chunks[h] = "intact"
  PROVE  chunks'[h] = "intact"
<1>1. Types /\ p \in Proc /\ h \in Chunk
  BY DEF IInv, Types, ManifestFile, Listed
<1>2. CASE SweepChunk(p)
  BY <1>2, SweptIsUnreferenced
<1>3. CASE CreateChunk(p)
  <2>1. /\ chunks[op[p].cur] = "absent"
        /\ chunks' = [chunks EXCEPT ![op[p].cur] = "torn"]
    BY <1>3 DEF IInv, Placed, CreateChunk
  <2> QED BY <1>1, <2>1 DEF Types
<1>4. CASE FillChunk(p)
  <2>1. chunks' = [chunks EXCEPT ![op[p].cur] = "intact"]
    BY <1>4 DEF FillChunk
  <2> QED BY <1>1, <2>1 DEF Types
<1>5. CASE chunks' = chunks
  BY <1>5
<1>6. \/ SweepChunk(p) \/ CreateChunk(p) \/ FillChunk(p) \/ chunks' = chunks
  BY <1>1 DEF Next, vars, BeginSnapshot, BeginGc, BeginRetain, LoadManifest, ChooseSeq,
     ChooseGarbage, ChooseVictims, CheckChunk, OpenManifest, WriteManifest, WriteAdrift,
     Drop, TrimOldest, TrimDone, SweepDone, Crash, LoseBufferedChunk
<1> QED BY <1>2, <1>3, <1>4, <1>5, <1>6

\* A snapshot that restores does so until it is dropped or taken again, through
\* every command, crash and failed write.
THEOREM RestorableForGood ==
  ASSUME NEW svcore, Proc = {svcore}
  PROVE  Spec => RestorableUntilReplaced
<1>1. IInv(svcore) /\ [Next]_vars =>
        [\A m \in Name : Restorable(m) /\ snaps'[m] = snaps[m] => Restorable(m)']_vars
  <2> SUFFICES ASSUME IInv(svcore), [Next]_vars, NEW m \in Name,
                      Restorable(m), snaps'[m] = snaps[m]
               PROVE  Restorable(m)'
    OBVIOUS
  <2>1. m \in Listed /\ \A h \in snaps[m].refs : chunks[h] = "intact"
    BY DEF Restorable, Listed
  <2>2. \A h \in snaps[m].refs : chunks'[h] = "intact"
    BY <2>1, ReferencedStaysIntact
  <2> QED BY <2>1, <2>2 DEF Restorable, Whole
<1>2. Spec => []IInv(svcore)
  BY IInvHolds
<1> QED BY <1>1, <1>2, PTL DEF Spec, RestorableUntilReplaced

-----------------------------------------------------------------------------
(***************************************************************************)
(* What retain drops.                                                      *)
(***************************************************************************)

\* Manifests as they are read: what has to be told apart is told by the name.
Entries(F) ==
  /\ \A x \in F : x.seq \in Nat /\ x.name \in Nat
  /\ \A x, y \in F : x.name = y.name => x = y

\* The names of the snapshots retain has yet to drop.
Doomed(p) == {x.name : x \in op[p].victims}

\* The listed snapshot m is newer than x: a higher number, or a later name.
After(m, x) == snaps[m].seq > x.seq \/ (snaps[m].seq = x.seq /\ m > x.name)

\* While retain drops: its victims are listed as it read them, every other
\* snapshot is newer than each of them, and there are as many others as it keeps.
TrimOK(p) ==
  pc[p] = "trim" =>
    /\ \A x \in op[p].victims :
         x.name \in Listed /\ x.seq = snaps[x.name].seq /\ x.refs = snaps[x.name].refs
    /\ \A x \in op[p].victims, m \in Listed \ Doomed(p) : After(m, x)
    /\ op[p].victims # {} => Cardinality(Listed \ Doomed(p)) >= op[p].keep

\* Newer orders manifests, those with the same number too.
LEMMA NewerIsOrder ==
  ASSUME NEW F, Entries(F)
  PROVE  /\ \A x \in F : ~Newer(x, x)
         /\ \A x, y \in F : x # y => Newer(x, y) \/ Newer(y, x)
         /\ \A x, y, z \in F : Newer(x, y) /\ Newer(y, z) => Newer(x, z)
<1>1. ASSUME NEW x \in F, NEW y \in F, x # y PROVE Newer(x, y) \/ Newer(y, x)
  <2>1. x.seq \in Nat /\ y.seq \in Nat /\ x.name \in Nat /\ y.name \in Nat /\ x.name # y.name
    BY <1>1 DEF Entries
  <2> QED BY <2>1 DEF Newer
<1>2. ASSUME NEW x \in F, NEW y \in F, NEW z \in F, Newer(x, y), Newer(y, z)
      PROVE  Newer(x, z)
  <2>1. /\ x.seq \in Nat /\ y.seq \in Nat /\ z.seq \in Nat
        /\ x.name \in Nat /\ y.name \in Nat /\ z.name \in Nat
    BY DEF Entries
  <2> QED BY <1>2, <2>1 DEF Newer
<1>3. ASSUME NEW x \in F PROVE ~Newer(x, x)
  <2>1. x.seq \in Nat /\ x.name \in Nat
    BY DEF Entries
  <2> QED BY <2>1 DEF Newer
<1> QED BY <1>1, <1>2, <1>3

\* Oldest picks the lowest number, and of those that have it the first name.
LEMMA OldestIn ==
  ASSUME NEW V, V # {}, Entries(V)
  PROVE  Oldest(V) \in V /\ \A y \in V \ {Oldest(V)} : Newer(y, Oldest(V))
<1> DEFINE seqs == {x.seq : x \in V}
           low == Least(seqs)
           names == {x.name : x \in {z \in V : z.seq = low}}
<1>1. low \in seqs /\ \A j \in seqs : low <= j
  <2>1. seqs \subseteq Nat /\ seqs # {}
    BY DEF Entries
  <2> HIDE DEF seqs
  <2> QED BY <2>1, LeastIn
<1>2. /\ low \in Nat /\ \A y \in V : low <= y.seq
      /\ \E x \in V : x.seq = low
  <2> HIDE DEF low
  <2> QED BY <1>1 DEF Entries
<1> HIDE DEF low
<1>3. Least(names) \in names /\ \A j \in names : Least(names) <= j
  <2>1. names \subseteq Nat /\ names # {}
    BY <1>2 DEF Entries
  <2> HIDE DEF names
  <2> QED BY <2>1, LeastIn
<1>4. PICK x \in V : x.seq = low /\ Least(names) = x.name
  BY <1>3
<1>5. ASSUME NEW y \in V \ {x} PROVE Newer(y, x)
  <2>1. /\ y.seq \in Nat /\ y.name \in Nat /\ x.name \in Nat /\ y.name # x.name
        /\ low <= y.seq
    BY <1>2, <1>5 DEF Entries
  <2>2. y.seq = low => x.name <= y.name
    <3>1. y.seq = low => y.name \in names
      BY <1>5
    <3> HIDE DEF names
    <3> QED BY <1>3, <1>4, <3>1
  <2> HIDE DEF names
  <2> QED BY <1>2, <1>4, <2>1, <2>2 DEF Newer
<1> QED BY <1>5 DEF Oldest

\* Newest(F, k) is newer than the rest of F, and has k elements if there is a rest.
LEMMA NewestKeeps ==
  ASSUME NEW F, IsFiniteSet(F), NEW k \in Nat, Entries(F)
  PROVE  /\ \A x \in F \ Newest(F, k), y \in Newest(F, k) : Newer(y, x)
         /\ F \ Newest(F, k) # {} => Cardinality(Newest(F, k)) >= k
<1> DEFINE above(x) == {y \in F : Newer(y, x)}
           K == Newest(F, k)
<1>1. /\ \A x \in F : ~Newer(x, x)
      /\ \A x, y \in F : x # y => Newer(x, y) \/ Newer(y, x)
      /\ \A x, y, z \in F : Newer(x, y) /\ Newer(y, z) => Newer(x, z)
  BY NewerIsOrder
<1>2. \A x \in F : IsFiniteSet(above(x)) /\ Cardinality(above(x)) \in Nat
  BY FS_Subset, FS_CardinalityType
<1>3. K \subseteq F /\ \A x \in F : x \in K <=> Cardinality(above(x)) < k
  BY DEF Newest
<1>4. IsFiniteSet(K) /\ Cardinality(K) \in Nat
  BY <1>3, FS_Subset, FS_CardinalityType
<1>5. ASSUME NEW x \in F \ K, NEW y \in K PROVE Newer(y, x)
  <2>1. x \in F /\ y \in F /\ x # y
    BY <1>3, <1>5
  <2>2. SUFFICES ASSUME Newer(x, y) PROVE FALSE
    BY <1>1, <2>1
  <2>3. above(x) \subseteq above(y)
    BY <1>1, <2>1, <2>2
  <2>4. Cardinality(above(x)) <= Cardinality(above(y))
    <3> HIDE DEF above
    <3> QED BY <1>2, <2>1, <2>3, FS_Subset
  <2> HIDE DEF above, K
  <2> QED BY <1>2, <1>3, <1>5, <2>1, <2>4
<1>6. ASSUME F \ K # {} PROVE Cardinality(K) >= k
  <2> DEFINE sizes == {Cardinality(above(x)) : x \in F \ K}
  <2>1. sizes \subseteq Nat /\ sizes # {}
    <3> HIDE DEF above, K
    <3> QED BY <1>2, <1>6
  <2>2. Least(sizes) \in sizes /\ \A j \in sizes : Least(sizes) <= j
    <3> HIDE DEF sizes
    <3> QED BY <2>1, LeastIn
  <2>3. PICK x \in F \ K : Least(sizes) = Cardinality(above(x))
    BY <2>2
  <2>4. ASSUME NEW y \in above(x), y \notin K PROVE FALSE
    <3>1. y \in F /\ Newer(y, x)
      BY <2>4
    <3>2. above(y) \subseteq above(x) /\ y \notin above(y) /\ y \in above(x)
      BY <1>1, <2>3, <2>4, <3>1
    <3>3. Cardinality(above(y)) < Cardinality(above(x))
      <4>1. /\ Cardinality(above(y)) <= Cardinality(above(x))
            /\ Cardinality(above(x)) # Cardinality(above(y))
        <5> HIDE DEF above
        <5> QED BY <1>2, <2>3, <3>2, FS_Subset
      <4> HIDE DEF above
      <4> QED BY <1>2, <2>3, <3>1, <4>1
    <3>4. Cardinality(above(x)) <= Cardinality(above(y))
      <4>1. Cardinality(above(y)) \in sizes
        BY <2>4, <3>1
      <4> HIDE DEF above, sizes
      <4> QED BY <2>2, <2>3, <4>1
    <3> HIDE DEF above
    <3> QED BY <1>2, <2>3, <3>1, <3>3, <3>4
  <2>5. above(x) \subseteq K
    BY <2>4
  <2> HIDE DEF above, K
  <2>6. Cardinality(above(x)) <= Cardinality(K)
    BY <1>4, <2>5, FS_Subset
  <2>7. Cardinality(above(x)) >= k
    BY <1>2, <1>3, <2>3
  <2> QED BY <1>2, <1>4, <2>3, <2>6, <2>7
<1> QED BY <1>5, <1>6

\* One step lists at most one snapshot more.
LEMMA ListedIsFinite ==
  ASSUME Types, IsFiniteSet(Listed), [Next]_vars
  PROVE  IsFiniteSet(Listed')
<1>1. snaps' = snaps \/ \E m, file : snaps' = [snaps EXCEPT ![m] = file]
  BY DEF vars, Next, BeginSnapshot, BeginGc, BeginRetain, LoadManifest, ChooseSeq,
     ChooseGarbage, ChooseVictims, CheckChunk, CreateChunk, FillChunk, OpenManifest,
     WriteManifest, WriteAdrift, Drop, TrimOldest, TrimDone, SweepChunk, SweepDone, Crash,
     LoseBufferedChunk
<1>2. CASE snaps' = snaps
  BY <1>2 DEF Listed, Whole
<1>3. ASSUME NEW m, NEW file, snaps' = [snaps EXCEPT ![m] = file]
      PROVE  IsFiniteSet(Listed')
  <2>1. Listed' \subseteq Listed \cup {m}
    BY <1>3 DEF Types, Listed, Whole
  <2>2. IsFiniteSet(Listed \cup {m})
    BY FS_AddElement
  <2> QED BY <2>1, <2>2, FS_Subset
<1> QED BY <1>1, <1>2, <1>3

\* Manifests that say what the files say are told apart by their names.
LEMMA ReadIsDistinct ==
  ASSUME NEW p, Proc = {p}, IInv(p), NEW V \in SUBSET op[p].found,
         \A x \in V : x.name \in Listed /\ x.seq = snaps[x.name].seq
                      /\ x.refs = snaps[x.name].refs
  PROVE  Entries(V)
<1>1. \A x \in V : x \in [name : Name, seq : 0 .. MaxSnapshots, refs : SUBSET Chunk]
  BY Own DEF IInv, Locals
<1>2. ASSUME NEW x \in V PROVE x.seq \in Nat /\ x.name \in Nat
  <2>1. x.seq \in 0 .. MaxSnapshots /\ x.name \in Name
    BY <1>1
  <2>2. x.seq \in Nat
    BY <2>1, BoundsAssumption
  <2>3. x.name \in Nat
    BY <2>1, NameAssumption
  <2> QED BY <2>2, <2>3
<1>3. ASSUME NEW x \in V, NEW y \in V, x.name = y.name PROVE x = y
  <2>1. x.seq = y.seq /\ x.refs = y.refs
    BY <1>3
  <2> QED BY <1>1, <1>3, <2>1
<1> QED BY <1>2, <1>3 DEF Entries

LEMMA ChooseVictimsTrimOK ==
  ASSUME NEW p, Proc = {p}, IInv(p), IsFiniteSet(Listed), ChooseVictims(p)
  PROVE  TrimOK(p)'
<1> DEFINE F == op[p].found
           k == op[p].keep
           K == Newest(F, k)
<1>1. /\ p \in Proc /\ Types /\ pc[p] = "scan" /\ op[p].names = {} /\ op[p] \in Locals
      /\ op' = [op EXCEPT ![p].victims = F \ K] /\ snaps' = snaps
  BY Own DEF IInv, ChooseVictims, Scanned
<1>2. /\ \A m \in Listed : \E x \in F : x.name = m
      /\ \A x \in F : x.name \in Listed /\ x.seq = snaps[x.name].seq
                      /\ x.refs = snaps[x.name].refs
  <2>1. \A m \in Listed : [name |-> m, seq |-> snaps[m].seq, refs |-> snaps[m].refs] \in F
    BY <1>1, AllRead
  <2>2. \A x \in F : x.name \in Listed /\ x.seq = snaps[x.name].seq
                     /\ x.refs = snaps[x.name].refs
    BY <1>1, AllRead
  <2> QED BY <2>1, <2>2
<1>3. Entries(F)
  BY <1>2, ReadIsDistinct
<1>4. IsFiniteSet(F)
  <2> DEFINE f == [x \in F |-> x.name]
  <2>1. f \in Injection(F, Listed)
    BY <1>2, <1>3 DEF Injection, IsInjective, Entries
  <2> QED BY <2>1, FS_Injection
<1>5. k \in Nat
  BY <1>1, KeepsAssumption DEF Locals
<1>6. /\ \A x \in F \ K, y \in K : Newer(y, x)
      /\ F \ K # {} => Cardinality(K) >= k
  BY <1>3, <1>4, <1>5, NewestKeeps
<1>7. K \subseteq F
  BY DEF Newest
<1>8. op'[p].victims = F \ K /\ op'[p].keep = k
  <2> HIDE DEF K
  <2> QED BY <1>1 DEF Types, Locals
<1> HIDE DEF K
<1>9. Listed' = Listed /\ Doomed(p)' = {x.name : x \in F \ K}
  BY <1>1, <1>8 DEF Listed, Whole, Doomed
<1>10. ASSUME NEW m \in Listed, m \notin {x.name : x \in F \ K}
       PROVE  \E y \in K : y.name = m /\ snaps[m].seq = y.seq
  BY <1>2, <1>10
<1>11. F \ K # {} => Cardinality(Listed \ {x.name : x \in F \ K}) >= k
  <2> DEFINE f == [x \in K |-> x.name]
             rest == Listed \ {x.name : x \in F \ K}
  <2>1. f \in Injection(K, rest)
    <3>1. \A x \in K : x.name \in rest
      BY <1>2, <1>3, <1>7 DEF Entries
    <3>2. \A x, y \in K : x.name = y.name => x = y
      BY <1>3, <1>7 DEF Entries
    <3> HIDE DEF rest
    <3> QED BY <3>1, <3>2 DEF Injection, IsInjective
  <2>2. IsFiniteSet(rest) /\ IsFiniteSet(K)
    BY <1>4, <1>7, FS_Subset
  <2>3. Cardinality(K) <= Cardinality(rest)
    <3> HIDE DEF f, rest
    <3> QED BY <2>1, <2>2, FS_Injection
  <2>4. Cardinality(K) \in Nat /\ Cardinality(rest) \in Nat
    <3> HIDE DEF rest
    <3> QED BY <2>2, FS_CardinalityType
  <2> HIDE DEF rest
  <2>5. F \ K # {} => Cardinality(rest) >= k
    BY <1>5, <1>6, <2>3, <2>4
  <2> QED BY <2>5 DEF rest
<1>12. ASSUME NEW x \in F \ K, NEW m \in Listed \ {y.name : y \in F \ K}
       PROVE  After(m, x)
  <2>1. PICK y \in K : y.name = m /\ snaps[m].seq = y.seq
    BY <1>10
  <2> QED BY <1>6, <2>1 DEF Newer, After
<1>13. \A x \in F \ K : x.name \in Listed /\ x.seq = snaps[x.name].seq
                         /\ x.refs = snaps[x.name].refs
  BY <1>2
<1> QED BY <1>1, <1>8, <1>9, <1>11, <1>12, <1>13 DEF TrimOK, After

\* The step itself: the victim goes, all that stay are newer, and enough stay.
LEMMA TrimOldestKeeps ==
  ASSUME NEW p, Proc = {p}, IInv(p), IsFiniteSet(Listed), TrimOK(p), TrimOldest(p)
  PROVE  /\ TrimOK(p)'
         /\ \A m \in Listed \ Listed', k \in Listed' :
              \/ snaps[k].seq > snaps[m].seq
              \/ snaps[k].seq = snaps[m].seq /\ k > m
         /\ Listed' # Listed => Cardinality(Listed') >= op[p].keep
<1> DEFINE V == op[p].victims
           v == Oldest(V)
<1>1. /\ p \in Proc /\ Types /\ pc[p] = "trim" /\ op[p] \in Locals /\ V # {}
      /\ V \subseteq op[p].found
  BY Own DEF IInv, TrimOldest, Placed
<1>2. /\ \A x \in V : x.name \in Listed /\ x.seq = snaps[x.name].seq
                      /\ x.refs = snaps[x.name].refs
      /\ \A x \in V, m \in Listed \ Doomed(p) : After(m, x)
      /\ Cardinality(Listed \ Doomed(p)) >= op[p].keep
  BY <1>1 DEF TrimOK
<1>3. Entries(V)
  BY <1>1, <1>2, ReadIsDistinct
<1>4. v \in V /\ \A y \in V \ {v} : Newer(y, v)
  BY <1>1, <1>3, OldestIn
<1>5. /\ snaps' = [snaps EXCEPT ![v.name] = NoFile]
      /\ op' = [op EXCEPT ![p].victims = V \ {v}]
      /\ v.name \in Listed
  BY <1>2, <1>4 DEF TrimOldest, Listed, Whole
<1> HIDE DEF v
<1>6. Listed' = Listed \ {v.name} /\ \A m \in Listed' : snaps'[m] = snaps[m]
  BY <1>1, <1>5 DEF Types, Listed, Whole, NoFile
<1>7. op'[p].victims = V \ {v} /\ op'[p].keep = op[p].keep
  BY <1>1, <1>5 DEF Types, Locals
<1>8. Doomed(p)' = Doomed(p) \ {v.name} /\ v.name \in Doomed(p)
  BY <1>3, <1>4, <1>7 DEF Doomed, Entries
<1>9. Listed' \ Doomed(p)' = Listed \ Doomed(p)
  BY <1>6, <1>8
<1>10. TrimOK(p)'
  <2>1. \A x \in V \ {v} : x.name \in Listed' /\ x.seq = snaps'[x.name].seq
                           /\ x.refs = snaps'[x.name].refs
    BY <1>2, <1>3, <1>4, <1>6 DEF Entries
  <2>2. \A x \in V \ {v}, m \in Listed' \ Doomed(p)' : After(m, x)'
    BY <1>2, <1>6, <1>9 DEF After
  <2> QED BY <1>2, <1>7, <1>9, <2>1, <2>2 DEF TrimOK
<1>11. ASSUME NEW k \in Listed'
       PROVE  \/ snaps[k].seq > snaps[v.name].seq
              \/ snaps[k].seq = snaps[v.name].seq /\ k > v.name
  <2>1. v.seq = snaps[v.name].seq
    BY <1>2, <1>4
  <2>2. CASE k \in Doomed(p)
    <3>1. PICK y \in V : y.name = k
      BY <2>2 DEF Doomed
    <3>2. y # v /\ y.seq = snaps[k].seq
      BY <1>2, <1>6, <3>1
    <3> QED BY <1>4, <2>1, <3>1, <3>2 DEF Newer
  <2>3. CASE k \notin Doomed(p)
    BY <1>2, <1>4, <1>6, <2>1, <2>3 DEF After
  <2> QED BY <2>2, <2>3
<1>12. Cardinality(Listed') >= op[p].keep
  <2>1. Listed \ Doomed(p) \subseteq Listed' /\ Listed' \subseteq Listed
    BY <1>6, <1>8
  <2>2. IsFiniteSet(Listed') /\ IsFiniteSet(Listed \ Doomed(p))
    BY <2>1, FS_Subset
  <2>3. Cardinality(Listed \ Doomed(p)) <= Cardinality(Listed')
    BY <2>1, <2>2, FS_Subset
  <2>4. Cardinality(Listed') \in Nat /\ Cardinality(Listed \ Doomed(p)) \in Nat
    BY <2>2, FS_CardinalityType
  <2>5. op[p].keep \in Nat
    <3>1. op[p].keep \in Keeps \cup {0}
      BY <1>1 DEF Locals
    <3>2. Keeps \cup {0} \subseteq Nat
      BY KeepsAssumption
    <3> QED BY <3>1, <3>2
  <2> QED BY <1>2, <2>3, <2>4, <2>5
<1> QED BY <1>6, <1>10, <1>11, <1>12

LEMMA NextTrimOK ==
  ASSUME NEW p, Proc = {p}, IInv(p), IsFiniteSet(Listed), TrimOK(p), [Next]_vars
  PROVE  TrimOK(p)'
<1>1. CASE ChooseVictims(p)
  BY <1>1, ChooseVictimsTrimOK
<1>2. CASE TrimOldest(p)
  BY <1>2, TrimOldestKeeps
<1>3. CASE UNCHANGED vars
  BY <1>3 DEF vars, TrimOK, After, Listed, Whole, Doomed
<1>4. p \in Proc /\ Types
  BY DEF IInv
<1>5. CASE Next /\ ~ChooseVictims(p) /\ ~TrimOldest(p)
  <2>1. CASE Exit(p)
    BY <1>4, <2>1 DEF Exit, Types, TrimOK
  <2>2. CASE pc' \in {[pc EXCEPT ![p] = place] : place \in Places \ {"trim"}}
    BY <1>4, <2>2 DEF Types, TrimOK
  <2>3. CASE pc' = pc /\ pc[p] # "trim"
    BY <2>3 DEF TrimOK
  <2>4. ASSUME NEW m \in Name, Drop(p, m) PROVE pc'[p] # "trim"
    BY <1>4, <2>4 DEF Drop, Types, Unlinked
  <2>5. CASE SweepChunk(p)
    BY <1>4, <2>5 DEF SweepChunk, Exit, Types, Unlinked, TrimOK
  <2>6. \/ Exit(p) \/ pc' \in {[pc EXCEPT ![p] = place] : place \in Places \ {"trim"}}
        \/ (pc' = pc /\ pc[p] # "trim") \/ SweepChunk(p) \/ \E m \in Name : Drop(p, m)
    BY <1>4, <1>5 DEF Places, Next, BeginSnapshot, BeginGc, BeginRetain, LoadManifest,
       ChooseSeq, ChooseGarbage, CheckChunk, CreateChunk, FillChunk, OpenManifest,
       WriteManifest, WriteAdrift, TrimDone, SweepDone, Crash, LoseBufferedChunk
  <2>7. CASE \E m \in Name : Drop(p, m)
    BY <2>4, <2>7 DEF TrimOK
  <2> QED BY <2>1, <2>2, <2>3, <2>5, <2>6, <2>7
<1> QED BY <1>1, <1>2, <1>3, <1>5

\* retain drops oldest first and never below what it was told to keep, wherever it is
\* interrupted and whatever went wrong before; in a store that an older svcore left,
\* where snapshots have no number of their own, too.
THEOREM RetainIsOldestFirst ==
  ASSUME NEW svcore, Proc = {svcore}
  PROVE  Spec => RetainDropsOldestFirst
<1> DEFINE J == IsFiniteSet(Listed) /\ TrimOK(svcore)
<1>1. Init => J
  <2>1. Init => IsFiniteSet(Listed)
    BY InitFiles
  <2>2. Init => TrimOK(svcore)
    BY DEF Init, TrimOK
  <2> QED BY <2>1, <2>2
<1>2. IInv(svcore) /\ J /\ [Next]_vars => J'
  BY NextTrimOK, ListedIsFinite DEF IInv
<1>3. IInv(svcore) /\ J /\ [Next]_vars =>
        [\A p \in Proc : TrimOldest(p) =>
           /\ \A m \in Listed \ Listed', k \in Listed' :
                \/ snaps[k].seq > snaps[m].seq
                \/ snaps[k].seq = snaps[m].seq /\ k > m
           /\ Listed' # Listed => Cardinality(Listed') >= op[p].keep]_vars
  BY TrimOldestKeeps
<1>4. Spec => []IInv(svcore)
  BY IInvHolds
<1> QED BY <1>1, <1>2, <1>3, <1>4, PTL DEF Spec, RetainDropsOldestFirst

-----------------------------------------------------------------------------
(***************************************************************************)
(* Any number of processes, running any commands: types.  A sequence       *)
(* number is within bounds because each is one more than another, and is   *)
(* chosen once for each snapshot begun.                                    *)
(***************************************************************************)

\* The processes whose snapshot has yet to choose its number, and how many
\* snapshots have chosen theirs or ended before they could.
Choosing == {p \in Proc : pc[p] = "scan" /\ op[p].cmd = "snapshot"}

Past == started - Cardinality(Choosing)

\* No number in a manifest, or in what a process holds, exceeds Past.
Numbered ==
  /\ IsFiniteSet(Choosing)
  /\ Past \in Nat
  /\ \A m \in Name : snaps[m].seq <= Past
  /\ \A p \in Proc : op[p].seq <= Past /\ \A x \in op[p].found : x.seq <= Past

VictimsRead ==
  \A p \in Proc : /\ op[p].victims \subseteq op[p].found
                  /\ pc[p] = "scan" => op[p].victims = {}

AnyInv == Types /\ Numbered /\ VictimsRead

\* A step that begins no snapshot and chooses no number: process p moves to a
\* place of its own with locals l, and others may find their file unlinked.
LEMMA OtherStep ==
  ASSUME AnyInv, NEW p \in Proc, NEW l \in Locals,
         op' = [op EXCEPT ![p] = l], l.seq <= Past, \A x \in l.found : x.seq <= Past,
         l.victims \subseteq l.found,
         pc' \in [Proc -> Places],
         pc'[p] = "scan" => l.victims = {},
         pc'[p] = "scan" /\ l.cmd = "snapshot" => p \in Choosing,
         \A q \in Proc \ {p} : pc'[q] # "scan" \/ pc'[q] = pc[q],
         chunks' \in [Chunk -> ChunkFile],
         snaps' \in [Name -> ManifestFile], \A m \in Name : snaps'[m].seq <= Past,
         started' = started, faults' \in 0 .. MaxFaults
  PROVE  AnyInv'
<1>1. op'[p] = l /\ \A q \in Proc \ {p} : op'[q] = op[q]
  BY DEF AnyInv, Types
<1>2. Types'
  BY DEF AnyInv, Types
<1>3. Choosing' \subseteq Choosing
  BY <1>1 DEF Choosing
<1>4. /\ IsFiniteSet(Choosing) /\ IsFiniteSet(Choosing')
      /\ Cardinality(Choosing') <= Cardinality(Choosing)
      /\ Cardinality(Choosing) \in Nat /\ Cardinality(Choosing') \in Nat
  BY <1>3, FS_Subset, FS_CardinalityType DEF AnyInv, Numbered
<1>5. started \in Nat /\ Past \in Nat
  BY BoundsAssumption DEF AnyInv, Types, Numbered
<1>6. Past' \in Nat /\ Past <= Past'
  BY <1>4, <1>5 DEF Past
<1>7. /\ \A m \in Name : snaps'[m].seq \in Nat
      /\ \A q \in Proc : op'[q].seq \in Nat /\ \A x \in op'[q].found : x.seq \in Nat
  <2>1. \A m \in Name : snaps'[m] \in ManifestFile
    BY <1>2 DEF Types
  <2>2. \A q \in Proc : op'[q] \in Locals
    BY <1>2 DEF Types
  <2>3. \A m \in Name : snaps'[m].seq \in 0 .. MaxSnapshots
    BY <2>1 DEF ManifestFile
  <2>4. \A q \in Proc : /\ op'[q].seq \in 0 .. MaxSnapshots
                        /\ \A x \in op'[q].found : x.seq \in 0 .. MaxSnapshots
    BY <2>2 DEF Locals
  <2> QED BY <2>3, <2>4, BoundsAssumption
<1>8. Numbered'
  <2>1. \A q \in Proc : op'[q].seq <= Past /\ \A x \in op'[q].found : x.seq <= Past
    BY <1>1 DEF AnyInv, Numbered
  <2> QED BY <1>4, <1>5, <1>6, <1>7, <2>1 DEF Numbered
<1>9. VictimsRead'
  BY <1>1 DEF AnyInv, VictimsRead
<1> QED BY <1>2, <1>8, <1>9 DEF AnyInv

\* The locals of one of the processes.
LEMMA LocalsOf ==
  ASSUME AnyInv, NEW p \in Proc
  PROVE  /\ pc[p] \in Places /\ op[p] \in Locals
         /\ op[p].names \subseteq Name /\ op[p].todo \subseteq Chunk
         /\ op[p].refs \subseteq Chunk /\ op[p].seq \in Nat /\ op[p].seq <= Past
         /\ \A x \in op[p].found : x.seq <= Past
         /\ op[p].victims \subseteq op[p].found
         /\ pc[p] = "scan" => op[p].victims = {}
BY BoundsAssumption DEF AnyInv, Types, Numbered, VictimsRead, Locals

\* A command ends.
LEMMA ExitAnyInv ==
  ASSUME AnyInv, NEW p \in Proc, Exit(p),
         chunks' \in [Chunk -> ChunkFile],
         snaps' \in [Name -> ManifestFile], \A m \in Name : snaps'[m].seq <= Past,
         started' = started, faults' \in 0 .. MaxFaults
  PROVE  AnyInv'
<1>1. NoLocals \in Locals /\ NoLocals.seq = 0 /\ NoLocals.found = {} /\ NoLocals.victims = {}
  BY NoLocalsType DEF NoLocals
<1>2. /\ op' = [op EXCEPT ![p] = NoLocals] /\ pc' \in [Proc -> Places] /\ pc'[p] = "idle"
      /\ \A q \in Proc \ {p} : pc'[q] = pc[q]
  BY DEF Exit, AnyInv, Types, Places
<1>3. 0 <= Past
  BY DEF AnyInv, Numbered
<1> QED BY <1>1, <1>2, <1>3, OtherStep

\* A snapshot begins: one more has yet to choose, and Past is what it was.
LEMMA BeginSnapshotAnyInv ==
  ASSUME AnyInv, NEW p \in Proc, NEW m \in Name, NEW content \in Contents,
         BeginSnapshot(p, m, content)
  PROVE  AnyInv'
<1> DEFINE l == [NoLocals EXCEPT !.cmd = "snapshot", !.name = m,
                                 !.refs = content, !.names = snapshot_names]
<1>1. /\ l \in Locals /\ l.cmd = "snapshot" /\ l.seq = 0 /\ l.found = {} /\ l.victims = {}
  <2>1. snapshot_names \subseteq Name
    BY DEF snapshot_names
  <2>2. l \in Locals
    BY <2>1, NoLocalsType, ContentsAssumption DEF Locals
  <2>3. l.cmd = "snapshot" /\ l.seq = 0 /\ l.found = {} /\ l.victims = {}
    BY DEF NoLocals
  <2> QED BY <2>2, <2>3
<1>2. /\ pc[p] = "idle" /\ pc' = [pc EXCEPT ![p] = "scan"] /\ op' = [op EXCEPT ![p] = l]
      /\ chunks' = chunks /\ snaps' = snaps /\ faults' = faults
      /\ started' = started + 1 /\ started < MaxSnapshots
  BY DEF BeginSnapshot
<1> HIDE DEF l
<1>3. /\ op'[p] = l /\ \A q \in Proc \ {p} : op'[q] = op[q]
      /\ pc'[p] = "scan" /\ \A q \in Proc \ {p} : pc'[q] = pc[q]
  BY <1>2 DEF AnyInv, Types
<1>4. Types'
  <2>1. started \in Nat /\ started' \in 0 .. MaxSnapshots
    BY <1>2, BoundsAssumption DEF AnyInv, Types
  <2> QED BY <1>1, <1>2, <2>1 DEF AnyInv, Types, Places
<1>5. p \notin Choosing /\ Choosing' = Choosing \cup {p}
  BY <1>1, <1>2, <1>3 DEF Choosing
<1>6. /\ IsFiniteSet(Choosing') /\ Cardinality(Choosing') = Cardinality(Choosing) + 1
      /\ Cardinality(Choosing) \in Nat
  BY <1>5, FS_AddElement, FS_CardinalityType DEF AnyInv, Numbered
<1>7. Past' = Past /\ 0 <= Past
  BY <1>2, <1>6, BoundsAssumption DEF Past, AnyInv, Types, Numbered
<1>8. Numbered'
  BY <1>1, <1>2, <1>3, <1>6, <1>7 DEF AnyInv, Numbered
<1>9. VictimsRead'
  BY <1>1, <1>3 DEF AnyInv, VictimsRead
<1> QED BY <1>4, <1>8, <1>9 DEF AnyInv

\* A snapshot chooses its number: it is past, so the number is within bounds.
LEMMA ChooseSeqAnyInv ==
  ASSUME AnyInv, NEW p \in Proc, ChooseSeq(p)
  PROVE  AnyInv'
<1> DEFINE s == NextSeq(op[p].found)
           todo == op[p].refs
<1>1. /\ pc[p] = "scan" /\ op[p].cmd = "snapshot" /\ op[p] \in Locals
      /\ todo \in SUBSET Chunk /\ op[p].victims = {}
      /\ pc' = [pc EXCEPT ![p] = "check"]
      /\ op' = [op EXCEPT ![p].seq = s, ![p].found = {}, ![p].todo = todo]
      /\ chunks' = chunks /\ snaps' = snaps /\ started' = started /\ faults' = faults
  BY LocalsOf DEF ChooseSeq, Scanned
<1>2. p \in Choosing /\ started \in Nat /\ started <= MaxSnapshots /\ Past \in Nat
  BY <1>1, BoundsAssumption DEF AnyInv, Types, Numbered, Choosing
<1>3. s \in Nat /\ s <= Past + 1
  <2>1. CASE op[p].found = {}
    BY <1>2, <2>1 DEF NextSeq
  <2>2. CASE op[p].found # {}
    <3>1. \A x \in op[p].found : x.seq \in 0 .. MaxSnapshots
      BY <1>1 DEF Locals
    <3>2. PICK x \in op[p].found : s = 1 + x.seq
      BY <2>2, <3>1, HighestSeq
    <3>3. x.seq \in Nat
      BY <3>1, BoundsAssumption
    <3>4. x.seq <= Past
      BY LocalsOf
    <3> HIDE DEF s
    <3> QED BY <1>2, <3>2, <3>3, <3>4
  <2> QED BY <2>1, <2>2
<1> HIDE DEF s, todo
<1>4. /\ op'[p] = [op[p] EXCEPT !.seq = s, !.found = {}, !.todo = todo]
      /\ \A q \in Proc \ {p} : op'[q] = op[q]
      /\ pc'[p] = "check" /\ \A q \in Proc \ {p} : pc'[q] = pc[q]
  BY <1>1 DEF AnyInv, Types
<1>5. Choosing' = Choosing \ {p}
  BY <1>4 DEF Choosing
<1>6. /\ IsFiniteSet(Choosing') /\ Cardinality(Choosing') = Cardinality(Choosing) - 1
      /\ Cardinality(Choosing) \in Nat /\ Cardinality(Choosing') \in Nat
  BY <1>2, <1>5, FS_RemoveElement, FS_CardinalityType DEF AnyInv, Numbered
<1>7. Past' = Past + 1 /\ Past' <= MaxSnapshots
  BY <1>1, <1>2, <1>6, BoundsAssumption DEF Past
<1>8. s \in 0 .. MaxSnapshots
  BY <1>2, <1>3, <1>7, BoundsAssumption
<1>9. op'[p] \in Locals /\ op'[p].seq = s /\ op'[p].found = {} /\ op'[p].victims = {}
  <2>1. op[p] \in Locals /\ todo \in SUBSET Chunk
    BY <1>1
  <2>2. op'[p] = [op[p] EXCEPT !.seq = s, !.found = {}, !.todo = todo]
    BY <1>4
  <2>3. op'[p] \in Locals /\ op'[p].seq = s /\ op'[p].found = {}
        /\ op'[p].victims = op[p].victims
    BY <1>8, <2>1, <2>2 DEF Locals
  <2> QED BY <1>1, <2>3
<1>10. Types'
  <2>1. op' = [q \in Proc |-> op'[q]]
    BY <1>1 DEF AnyInv, Types
  <2>2. \A q \in Proc : op'[q] \in Locals
    BY <1>4, <1>9 DEF AnyInv, Types
  <2>3. op' \in [Proc -> Locals]
    BY <2>1, <2>2
  <2> QED BY <1>1, <2>3 DEF AnyInv, Types, Places
<1>11. Numbered'
  <2>1. \A m \in Name : snaps[m].seq <= Past /\ snaps[m].seq \in Nat
    BY BoundsAssumption DEF AnyInv, Numbered, Types, ManifestFile
  <2>2. \A q \in Proc : /\ op[q].seq <= Past /\ op[q].seq \in Nat
                        /\ \A x \in op[q].found : x.seq <= Past /\ x.seq \in Nat
    <3>1. \A q \in Proc : op[q].seq <= Past /\ \A x \in op[q].found : x.seq <= Past
      BY DEF AnyInv, Numbered
    <3>2. \A q \in Proc : op[q].seq \in 0 .. MaxSnapshots
                          /\ \A x \in op[q].found : x.seq \in 0 .. MaxSnapshots
      BY DEF AnyInv, Types, Locals
    <3> QED BY <3>1, <3>2, BoundsAssumption
  <2>3. \A m \in Name : snaps'[m].seq <= Past'
    BY <1>1, <1>2, <1>7, <2>1
  <2>4. \A q \in Proc : op'[q].seq <= Past' /\ \A x \in op'[q].found : x.seq <= Past'
    <3>1. op'[p].seq <= Past' /\ \A x \in op'[p].found : x.seq <= Past'
      BY <1>2, <1>3, <1>7, <1>9
    <3>2. ASSUME NEW q \in Proc \ {p}
          PROVE  op'[q].seq <= Past' /\ \A x \in op'[q].found : x.seq <= Past'
      <4>1. op'[q] = op[q]
        BY <1>4
      <4> QED BY <1>2, <1>7, <2>2, <4>1
    <3> QED BY <3>1, <3>2
  <2> QED BY <1>2, <1>6, <1>7, <2>3, <2>4 DEF Numbered
<1>12. VictimsRead'
  BY <1>4, <1>9 DEF AnyInv, VictimsRead
<1> QED BY <1>10, <1>11, <1>12 DEF AnyInv

\* The other commands begin, and retain goes on to gc.
LEMMA BeginOtherAnyInv ==
  ASSUME AnyInv, NEW p \in Proc, BeginGc(p) \/ TrimDone(p) \/ \E k \in Keeps : BeginRetain(p, k)
  PROVE  AnyInv'
<1>1. /\ pc' = [pc EXCEPT ![p] = "scan"]
      /\ chunks' = chunks /\ snaps' = snaps /\ faults' = faults /\ started' = started
  BY DEF BeginGc, TrimDone, BeginRetain
<1>2. PICK l \in Locals : /\ op' = [op EXCEPT ![p] = l] /\ l.cmd # "snapshot"
                          /\ l.seq = 0 /\ l.found = {} /\ l.victims = {}
  <2>1. snapshot_names \subseteq Name
    BY DEF snapshot_names
  <2>2. CASE BeginGc(p) \/ TrimDone(p)
    <3> DEFINE l == [NoLocals EXCEPT !.cmd = "gc", !.names = snapshot_names]
    <3>1. l \in Locals
      BY <2>1, NoLocalsType DEF Locals
    <3>2. l.cmd # "snapshot" /\ l.seq = 0 /\ l.found = {} /\ l.victims = {}
      BY DEF NoLocals
    <3>3. op' = [op EXCEPT ![p] = l]
      BY <2>2 DEF BeginGc, TrimDone
    <3> HIDE DEF l
    <3> QED BY <3>1, <3>2, <3>3
  <2>3. CASE \E k \in Keeps : BeginRetain(p, k)
    <3>1. PICK k \in Keeps : BeginRetain(p, k)
      BY <2>3
    <3> DEFINE l == [NoLocals EXCEPT !.cmd = "retain", !.keep = k, !.names = snapshot_names]
    <3>2. l \in Locals
      BY <2>1, NoLocalsType DEF Locals
    <3>3. l.cmd # "snapshot" /\ l.seq = 0 /\ l.found = {} /\ l.victims = {}
      BY DEF NoLocals
    <3>4. op' = [op EXCEPT ![p] = l]
      BY <3>1 DEF BeginRetain
    <3> HIDE DEF l
    <3> QED BY <3>2, <3>3, <3>4
  <2> QED BY <2>2, <2>3
<1>3. /\ pc' \in [Proc -> Places] /\ \A q \in Proc \ {p} : pc'[q] = pc[q]
      /\ faults' \in 0 .. MaxFaults
      /\ chunks' \in [Chunk -> ChunkFile] /\ snaps' \in [Name -> ManifestFile]
      /\ \A m \in Name : snaps'[m].seq <= Past
      /\ 0 <= Past
  BY <1>1 DEF AnyInv, Types, Places, Numbered
<1> QED BY <1>1, <1>2, <1>3, OtherStep

\* What a step that leaves the files alone has to say of them.
LEMMA FilesStay ==
  ASSUME AnyInv
  PROVE  /\ chunks \in [Chunk -> ChunkFile] /\ snaps \in [Name -> ManifestFile]
         /\ \A m \in Name : snaps[m].seq <= Past
         /\ faults \in 0 .. MaxFaults /\ Past \in Nat
         /\ NoFile \in ManifestFile /\ TornFile \in ManifestFile
         /\ NoFile.seq = 0 /\ TornFile.seq = 0
<1>1. NoFile \in ManifestFile /\ TornFile \in ManifestFile
  BY BoundsAssumption DEF NoFile, TornFile, ManifestFile
<1> QED BY <1>1 DEF AnyInv, Types, Numbered, NoFile, TornFile

\* Unlinking moves processes to no other place than adrift.
LEMMA UnlinkedPlaces ==
  ASSUME AnyInv, NEW place, NEW file
  PROVE  /\ Unlinked(place, file) \in [Proc -> Places]
         /\ \A q \in Proc : Unlinked(place, file)[q] \in {pc[q], "adrift"}
BY DEF AnyInv, Types, Unlinked, Places

LEMMA LoadManifestAnyInv ==
  ASSUME AnyInv, NEW p \in Proc, LoadManifest(p)
  PROVE  AnyInv'
<1> DEFINE m == Least(op[p].names)
           entry == [name |-> m, seq |-> snaps[m].seq, refs |-> snaps[m].refs]
           names == op[p].names \ {m}
           found == op[p].found \cup {entry}
<1>1. /\ pc[p] = "scan" /\ op[p] \in Locals /\ op[p].names \subseteq Name
      /\ op[p].victims = {} /\ op[p].seq <= Past /\ \A x \in op[p].found : x.seq <= Past
      /\ chunks' = chunks /\ snaps' = snaps /\ started' = started /\ faults' = faults
  BY LocalsOf DEF LoadManifest
<1>2. m \in Name
  <2>1. op[p].names \subseteq Nat /\ op[p].names # {}
    BY <1>1, NameAssumption DEF LoadManifest
  <2> QED BY <1>1, <2>1, LeastIn
<1>3. CASE ~Whole(m)
  <2>1. Exit(p)
    BY <1>3 DEF LoadManifest
  <2> QED BY <1>1, <2>1, FilesStay, ExitAnyInv
<1>4. CASE Whole(m)
  <2>1. /\ op' = [op EXCEPT ![p].names = names, ![p].found = found] /\ pc' = pc
    BY <1>4 DEF LoadManifest
  <2> HIDE DEF m
  <2>2. entry \in [name : Name, seq : 0 .. MaxSnapshots, refs : SUBSET Chunk]
        /\ entry.seq <= Past
    BY <1>2, FilesStay DEF ManifestFile
  <2>3. found \in SUBSET [name : Name, seq : 0 .. MaxSnapshots, refs : SUBSET Chunk]
        /\ \A x \in found : x.seq <= Past
    <3> HIDE DEF entry
    <3> QED BY <1>1, <2>2 DEF Locals
  <2>4. names \in SUBSET Name
    BY <1>1
  <2> HIDE DEF names, found
  <2> DEFINE l == [op[p] EXCEPT !.names = names, !.found = found]
  <2>5. /\ l \in Locals /\ l.seq = op[p].seq /\ l.found = found /\ l.victims = {}
        /\ l.cmd = op[p].cmd
    <3>1. op[p] \in Locals
      BY <1>1
    <3>2. l \in Locals /\ l.seq = op[p].seq /\ l.found = found /\ l.victims = op[p].victims
          /\ l.cmd = op[p].cmd
      BY <2>3, <2>4, <3>1 DEF Locals
    <3> QED BY <1>1, <3>2
  <2>6. op' = [op EXCEPT ![p] = l]
    BY <2>1 DEF AnyInv, Types
  <2> HIDE DEF l
  <2>7. pc' \in [Proc -> Places] /\ \A q \in Proc \ {p} : pc'[q] = pc[q]
    BY <2>1 DEF AnyInv, Types
  <2>8. l.cmd = "snapshot" => p \in Choosing
    BY <1>1, <2>5 DEF Choosing
  <2> QED BY <1>1, <2>3, <2>5, <2>6, <2>7, <2>8, FilesStay, OtherStep
<1> QED BY <1>3, <1>4

LEMMA ChooseWorkAnyInv ==
  ASSUME AnyInv, NEW p \in Proc, ChooseGarbage(p) \/ ChooseVictims(p)
  PROVE  AnyInv'
<1>1. /\ op[p] \in Locals /\ op[p].victims = {} /\ op[p].seq <= Past /\ 0 <= Past
      /\ \A x \in op[p].found : x.seq <= Past
      /\ chunks' = chunks /\ snaps' = snaps /\ started' = started /\ faults' = faults
      /\ pc' = [pc EXCEPT ![p] = "sweep"] \/ pc' = [pc EXCEPT ![p] = "trim"]
  BY LocalsOf, FilesStay DEF ChooseGarbage, ChooseVictims, Scanned
<1>2. PICK l \in Locals : /\ op' = [op EXCEPT ![p] = l] /\ l.seq = op[p].seq
                          /\ l.found \subseteq op[p].found /\ l.victims \subseteq l.found
  <2>1. CASE ChooseGarbage(p)
    <3> DEFINE garbage == {h \in Chunk : has(h)} \ UNION {x.refs : x \in op[p].found}
               l == [op[p] EXCEPT !.todo = garbage, !.found = {}]
    <3>1. op' = [op EXCEPT ![p] = l]
      BY <2>1 DEF ChooseGarbage, AnyInv, Types
    <3>2. garbage \in SUBSET Chunk /\ op[p] \in Locals
      BY <1>1
    <3> HIDE DEF garbage
    <3>3. l \in Locals /\ l.seq = op[p].seq /\ l.found = {} /\ l.victims = op[p].victims
      BY <3>2 DEF Locals
    <3> HIDE DEF l
    <3> QED BY <1>1, <3>1, <3>3
  <2>2. CASE ChooseVictims(p)
    <3> DEFINE old == op[p].found \ Newest(op[p].found, op[p].keep)
               l == [op[p] EXCEPT !.victims = old]
    <3>1. op' = [op EXCEPT ![p] = l]
      BY <2>2 DEF ChooseVictims, AnyInv, Types
    <3>2. old \subseteq op[p].found /\ op[p] \in Locals
      BY <1>1
    <3> HIDE DEF old
    <3>3. l \in Locals /\ l.seq = op[p].seq /\ l.found = op[p].found /\ l.victims = old
      BY <3>2 DEF Locals
    <3> HIDE DEF l
    <3> QED BY <3>1, <3>2, <3>3
  <2> QED BY <2>1, <2>2
<1>3. /\ pc' \in [Proc -> Places] /\ pc'[p] # "scan" /\ \A q \in Proc \ {p} : pc'[q] = pc[q]
  BY <1>1 DEF AnyInv, Types, Places
<1> QED BY <1>1, <1>2, <1>3, FilesStay, OtherStep

\* The steps of storing a chunk.
LEMMA StoreChunkAnyInv ==
  ASSUME AnyInv, NEW p \in Proc,
         \/ \E h \in Chunk : CheckChunk(p, h)
         \/ CreateChunk(p) \/ FillChunk(p) \/ LoseBufferedChunk(p)
         \/ WriteAdrift(p) /\ op[p].cur # 0
  PROVE  AnyInv'
<1>1. /\ op[p] \in Locals /\ op[p].seq <= Past /\ \A x \in op[p].found : x.seq <= Past
      /\ op[p].victims \subseteq op[p].found
  BY LocalsOf
<1>2. /\ pc' \in [Proc -> Places] /\ pc'[p] # "scan" /\ \A q \in Proc \ {p} : pc'[q] = pc[q]
      /\ snaps' = snaps /\ started' = started
  BY DEF CheckChunk, CreateChunk, FillChunk, LoseBufferedChunk, WriteAdrift, AnyInv, Types,
         Places
<1>3. faults' \in 0 .. MaxFaults
  <2>1. faults' = faults \/ (faults' = faults + 1 /\ faults < MaxFaults)
    BY DEF CheckChunk, CreateChunk, FillChunk, LoseBufferedChunk, WriteAdrift
  <2> QED BY <2>1, BoundsAssumption DEF AnyInv, Types
<1>4. chunks' \in [Chunk -> ChunkFile]
  BY DEF CheckChunk, CreateChunk, FillChunk, LoseBufferedChunk, WriteAdrift, AnyInv, Types,
         ChunkFile
<1>5. PICK l \in Locals : /\ op' = [op EXCEPT ![p] = l] /\ l.seq = op[p].seq
                          /\ l.found = op[p].found /\ l.victims = op[p].victims
  <2>1. PICK todo \in SUBSET Chunk, cur \in Chunk \cup {0} :
          op' = [op EXCEPT ![p] = [op[p] EXCEPT !.todo = todo, !.cur = cur]]
    <3>1. op = [op EXCEPT ![p] = [op[p] EXCEPT !.todo = op[p].todo, !.cur = op[p].cur]]
      BY DEF AnyInv, Types, Locals
    <3>2. op[p].todo \in SUBSET Chunk /\ op[p].cur \in Chunk \cup {0}
      BY <1>1 DEF Locals
    <3>3. ASSUME NEW h \in Chunk, CheckChunk(p, h)
          PROVE  \E todo \in SUBSET Chunk, cur \in Chunk \cup {0} :
                   op' = [op EXCEPT ![p] = [op[p] EXCEPT !.todo = todo, !.cur = cur]]
      <4> DEFINE todo == op[p].todo \ {h}
      <4>1. todo \in SUBSET Chunk
        BY <3>2
      <4>2. \/ op' = [op EXCEPT ![p] = [op[p] EXCEPT !.todo = todo, !.cur = op[p].cur]]
            \/ op' = [op EXCEPT ![p] = [op[p] EXCEPT !.todo = todo, !.cur = h]]
        BY <3>3 DEF CheckChunk, AnyInv, Types, Locals
      <4> HIDE DEF todo
      <4> QED BY <3>2, <4>1, <4>2
    <3>4. CASE op' = op
      BY <3>1, <3>2, <3>4
    <3>5. CASE op' = [op EXCEPT ![p].cur = 0]
      <4> DEFINE todo == op[p].todo
      <4>1. op' = [op EXCEPT ![p] = [op[p] EXCEPT !.todo = todo, !.cur = 0]]
        BY <3>5 DEF AnyInv, Types, Locals
      <4> HIDE DEF todo
      <4> QED BY <3>2, <4>1 DEF todo
    <3>6. op' = op \/ op' = [op EXCEPT ![p].cur = 0] \/ \E h \in Chunk : CheckChunk(p, h)
      BY DEF CreateChunk, FillChunk, LoseBufferedChunk, WriteAdrift
    <3> QED BY <3>3, <3>4, <3>5, <3>6
  <2> DEFINE l == [op[p] EXCEPT !.todo = todo, !.cur = cur]
  <2>2. op[p] \in Locals
    BY <1>1
  <2>3. l \in Locals /\ l.seq = op[p].seq /\ l.found = op[p].found /\ l.victims = op[p].victims
    BY <2>2 DEF Locals
  <2>4. op' = [op EXCEPT ![p] = l]
    BY <2>1
  <2> HIDE DEF l
  <2> QED BY <2>3, <2>4
<1> QED BY <1>1, <1>2, <1>3, <1>4, <1>5, FilesStay, OtherStep

\* The steps of writing a manifest, and of removing one.
LEMMA ManifestAnyInv ==
  ASSUME AnyInv, NEW p \in Proc, OpenManifest(p) \/ \E m \in Name : Drop(p, m)
  PROVE  AnyInv'
<1>1. /\ op[p] \in Locals /\ op[p].seq <= Past /\ \A x \in op[p].found : x.seq <= Past
      /\ op[p].victims \subseteq op[p].found
      /\ op' = op /\ chunks' = chunks /\ started' = started /\ faults' = faults
  BY LocalsOf DEF OpenManifest, Drop
<1>2. op' = [op EXCEPT ![p] = op[p]]
  BY <1>1 DEF AnyInv, Types
<1>3. /\ pc' \in [Proc -> Places] /\ pc'[p] # "scan"
      /\ \A q \in Proc \ {p} : pc'[q] \in {pc[q], "adrift"}
  <2>1. CASE OpenManifest(p)
    BY <2>1 DEF OpenManifest, AnyInv, Types, Places
  <2>2. CASE \E m \in Name : Drop(p, m)
    <3>1. PICK m \in Name : Drop(p, m)
      BY <2>2
    <3>2. pc' = Unlinked("seal", m) /\ pc[p] = "idle"
      BY <3>1 DEF Drop
    <3> QED BY <3>2, UnlinkedPlaces
  <2> QED BY <2>1, <2>2
<1>4. snaps' \in [Name -> ManifestFile] /\ \A m \in Name : snaps'[m].seq <= Past
  <2>1. PICK m : \/ snaps' = [snaps EXCEPT ![m] = NoFile]
                 \/ snaps' = [snaps EXCEPT ![m] = TornFile]
    BY DEF OpenManifest, Drop
  <2> QED BY <2>1, FilesStay
<1> QED BY <1>1, <1>2, <1>3, <1>4, FilesStay, OtherStep

LEMMA WriteManifestAnyInv ==
  ASSUME AnyInv, NEW p \in Proc, WriteManifest(p)
  PROVE  AnyInv'
<1> DEFINE mine == [file |-> "whole", seq |-> op[p].seq, refs |-> op[p].refs]
<1>1. Exit(p) /\ chunks' = chunks /\ started' = started /\ faults' = faults
  BY DEF WriteManifest
<1>2. mine \in ManifestFile /\ mine.seq <= Past
  <2>1. op[p] \in Locals /\ op[p].seq <= Past
    BY LocalsOf
  <2> QED BY <2>1 DEF Locals, ManifestFile
<1>3. \/ snaps' = [snaps EXCEPT ![op[p].name] = mine]
      \/ snaps' = [snaps EXCEPT ![op[p].name] = TornFile]
  BY DEF WriteManifest
<1> HIDE DEF mine
<1>4. snaps' \in [Name -> ManifestFile] /\ \A m \in Name : snaps'[m].seq <= Past
  BY <1>2, <1>3, FilesStay
<1> QED BY <1>1, <1>4, FilesStay, ExitAnyInv

LEMMA TrimOldestAnyInv ==
  ASSUME AnyInv, NEW p \in Proc, TrimOldest(p)
  PROVE  AnyInv'
<1> DEFINE v == Oldest(op[p].victims)
           left == op[p].victims \ {v}
<1>1. /\ op[p] \in Locals /\ op[p].seq <= Past /\ \A x \in op[p].found : x.seq <= Past
      /\ op[p].victims \subseteq op[p].found /\ pc[p] = "trim"
      /\ chunks' = chunks /\ started' = started /\ faults' = faults
  BY LocalsOf DEF TrimOldest
<1>2. CASE Exit(p) /\ snaps' = snaps
  BY <1>1, <1>2, FilesStay, ExitAnyInv
<1>3. CASE /\ snaps' = [snaps EXCEPT ![v.name] = NoFile]
           /\ op' = [op EXCEPT ![p].victims = left]
           /\ pc' = Unlinked("seal", v.name)
  <2> DEFINE l == [op[p] EXCEPT !.victims = left]
  <2>1. op' = [op EXCEPT ![p] = l]
    BY <1>3 DEF AnyInv, Types
  <2>2. left \in SUBSET op[p].found /\ op[p] \in Locals
    BY <1>1
  <2> HIDE DEF left, v
  <2>3. l \in Locals /\ l.seq = op[p].seq /\ l.found = op[p].found /\ l.victims = left
    BY <2>2 DEF Locals
  <2>4. snaps' \in [Name -> ManifestFile] /\ \A m \in Name : snaps'[m].seq <= Past
    <3>1. PICK k : snaps' = [snaps EXCEPT ![k] = NoFile]
      BY <1>3
    <3>2. snaps' \in [Name -> ManifestFile]
      BY <3>1, FilesStay
    <3>3. \A m \in Name : snaps'[m] = snaps[m] \/ snaps'[m] = NoFile
      BY <3>1, FilesStay
    <3>4. ASSUME NEW m \in Name PROVE snaps'[m].seq <= Past
      BY <3>3, FilesStay
    <3> QED BY <3>2, <3>4
  <2>5. /\ pc' \in [Proc -> Places] /\ pc'[p] # "scan"
        /\ \A q \in Proc \ {p} : pc'[q] \in {pc[q], "adrift"}
    BY <1>1, <1>3, UnlinkedPlaces
  <2> HIDE DEF l
  <2> QED BY <1>1, <2>1, <2>2, <2>3, <2>4, <2>5, FilesStay, OtherStep
<1> QED BY <1>2, <1>3 DEF TrimOldest

LEMMA SweepChunkAnyInv ==
  ASSUME AnyInv, NEW p \in Proc, SweepChunk(p)
  PROVE  AnyInv'
<1> DEFINE h == Least(op[p].todo)
           left == op[p].todo \ {h}
<1>1. /\ op[p] \in Locals /\ op[p].seq <= Past /\ \A x \in op[p].found : x.seq <= Past
      /\ op[p].victims \subseteq op[p].found /\ pc[p] = "sweep"
      /\ snaps' = snaps /\ started' = started /\ faults' = faults
  BY LocalsOf DEF SweepChunk
<1>2. CASE Exit(p) /\ chunks' = chunks
  BY <1>1, <1>2, FilesStay, ExitAnyInv
<1>3. CASE /\ chunks' = [chunks EXCEPT ![h] = "absent"]
           /\ op' = [op EXCEPT ![p].todo = left]
           /\ pc' = Unlinked("fill", h)
  <2> DEFINE l == [op[p] EXCEPT !.todo = left]
  <2>1. op' = [op EXCEPT ![p] = l]
    BY <1>3 DEF AnyInv, Types
  <2>2. left \in SUBSET Chunk /\ op[p] \in Locals
    BY <1>1 DEF Locals
  <2> HIDE DEF left, h
  <2>3. /\ l \in Locals /\ l.seq = op[p].seq /\ l.found = op[p].found
        /\ l.victims = op[p].victims
    BY <2>2 DEF Locals
  <2>4. chunks' \in [Chunk -> ChunkFile]
    BY <1>3, FilesStay DEF ChunkFile
  <2>5. /\ pc' \in [Proc -> Places] /\ pc'[p] # "scan"
        /\ \A q \in Proc \ {p} : pc'[q] \in {pc[q], "adrift"}
    BY <1>1, <1>3, UnlinkedPlaces
  <2> HIDE DEF l
  <2> QED BY <1>1, <2>1, <2>3, <2>4, <2>5, FilesStay, OtherStep
<1> QED BY <1>2, <1>3 DEF SweepChunk

LEMMA EndAnyInv ==
  ASSUME AnyInv, NEW p \in Proc,
         SweepDone(p) \/ Crash(p) \/ (WriteAdrift(p) /\ op[p].cur = 0)
  PROVE  AnyInv'
<1>1. Exit(p) /\ chunks' = chunks /\ snaps' = snaps /\ started' = started
  BY DEF SweepDone, Crash, WriteAdrift
<1>2. faults' \in 0 .. MaxFaults
  <2>1. faults' = faults \/ (faults' = faults + 1 /\ faults < MaxFaults)
    BY DEF SweepDone, Crash, WriteAdrift
  <2> QED BY <2>1, BoundsAssumption DEF AnyInv, Types
<1> QED BY <1>1, <1>2, FilesStay, ExitAnyInv

LEMMA NextAnyInv ==
  ASSUME AnyInv, [Next]_vars
  PROVE  AnyInv'
<1>1. CASE UNCHANGED vars
  BY <1>1 DEF vars, AnyInv, Types, Numbered, Choosing, Past, VictimsRead
<1>2. ASSUME NEW p \in Proc,
             \/ \E m \in Name, content \in Contents : BeginSnapshot(p, m, content)
             \/ BeginGc(p) \/ TrimDone(p) \/ \E k \in Keeps : BeginRetain(p, k)
             \/ LoadManifest(p) \/ ChooseSeq(p) \/ ChooseGarbage(p) \/ ChooseVictims(p)
      PROVE  AnyInv'
  BY <1>2, BeginSnapshotAnyInv, BeginOtherAnyInv, LoadManifestAnyInv, ChooseSeqAnyInv,
     ChooseWorkAnyInv
<1>3. ASSUME NEW p \in Proc,
             \/ \E h \in Chunk : CheckChunk(p, h)
             \/ CreateChunk(p) \/ FillChunk(p) \/ LoseBufferedChunk(p) \/ WriteAdrift(p)
             \/ OpenManifest(p) \/ WriteManifest(p) \/ \E m \in Name : Drop(p, m)
             \/ TrimOldest(p) \/ SweepChunk(p) \/ SweepDone(p) \/ Crash(p)
      PROVE  AnyInv'
  BY <1>3, StoreChunkAnyInv, ManifestAnyInv, WriteManifestAnyInv, TrimOldestAnyInv,
     SweepChunkAnyInv, EndAnyInv
<1> QED BY <1>1, <1>2, <1>3 DEF Next

LEMMA InitAnyInv ==
  ASSUME Init
  PROVE  AnyInv
<1>1. Types
  BY InitTypes
<1>2. Choosing = {}
  BY DEF Init, Choosing
<1>3. IsFiniteSet(Choosing) /\ Past = 0
  BY <1>2, FS_EmptySet DEF Past, Init
<1>4. Numbered
  <2>1. \A m \in Name : snaps[m].seq <= 0
    BY InitFiles
  <2>2. \A p \in Proc : op[p] = NoLocals
    BY DEF Init
  <2> QED BY <1>3, <2>1, <2>2 DEF Numbered, NoLocals
<1>5. VictimsRead
  BY DEF VictimsRead, Init, NoLocals
<1> QED BY <1>1, <1>4, <1>5 DEF AnyInv

\* The same, with no bound on the processes.
LEMMA AnyInvHolds == Spec => []AnyInv
<1>1. Init => AnyInv
  BY InitAnyInv
<1>2. AnyInv /\ [Next]_vars => AnyInv'
  BY NextAnyInv
<1> QED BY <1>1, <1>2, PTL DEF Spec

\* Files, locals and counters keep their types, whatever processes run and
\* whichever commands they run side by side.
THEOREM TypeCorrect == Spec => []TypeOK
<1>1. AnyInv => TypeOK
  <2> SUFFICES ASSUME AnyInv PROVE TypeOK
    OBVIOUS
  <2>1. ASSUME NEW p \in Proc
        PROVE  /\ DOMAIN op[p] = DOMAIN NoLocals
               /\ op[p].cmd \in {"none", "snapshot", "gc", "retain"}
               /\ op[p].seq \in 0 .. MaxSnapshots
               /\ op[p].todo \cup op[p].refs \subseteq Chunk
               /\ op[p].names \subseteq Name
               /\ op[p].victims \subseteq op[p].found
    <3>1. op[p] \in Locals /\ op[p].victims \subseteq op[p].found
      BY LocalsOf
    <3> QED BY <3>1 DEF Locals, NoLocals
  <2> QED BY <2>1 DEF TypeOK, AnyInv, Types
<1>2. Spec => []AnyInv
  BY AnyInvHolds
<1> QED BY <1>1, <1>2, PTL

-----------------------------------------------------------------------------
(***************************************************************************)
(* Any number of processes that take and drop snapshots side by side.  A   *)
(* chunk file is never removed, so what a snapshot has checked or created  *)
(* stays, if only as somebody's half-written file; and while nothing       *)
(* fails, whoever left it half-written is still there to fill it.          *)
(***************************************************************************)

\* What process p, taking a snapshot, no longer has to store has a file.
Settling(p) ==
  /\ pc[p] \in {"idle", "scan", "check", "create", "fill", "adrift", "seal"}
  /\ pc[p] = "scan" => op[p].cmd = "snapshot"
  /\ pc[p] \in {"check", "create", "fill", "adrift", "seal"} =>
       \A h \in op[p].refs : \/ h \in op[p].todo
                             \/ pc[p] = "create" /\ h = op[p].cur
                             \/ has(h)
  /\ pc[p] \in {"seal", "adrift"} => op[p].todo = {}

\* So has every chunk of a listed snapshot, and a torn one is being filled.
Stored ==
  /\ \A m \in Listed : \A h \in snaps[m].refs : has(h)
  /\ faults = 0 => \A h \in Chunk : chunks[h] = "torn" =>
                     \E p \in Proc : pc[p] = "fill" /\ op[p].cur = h

SideBySide == AnyInv /\ Stored /\ \A p \in Proc : Settling(p)

\* What one process does disturbs no other: chunk files only come, and the
\* others stay where they were or find their manifest unlinked.
LEMMA OthersSettle ==
  ASSUME SideBySide, NEW p \in Proc, NEW q \in Proc \ {p},
         op'[q] = op[q], \A h \in Chunk : has(h) => has(h)',
         pc'[q] = pc[q] \/ (pc[q] = "seal" /\ pc'[q] = "adrift")
  PROVE  Settling(q)'
<1>1. Settling(q) /\ op[q].refs \subseteq Chunk
  BY LocalsOf DEF SideBySide
<1> QED BY <1>1 DEF Settling, has

LEMMA NextSideBySide ==
  ASSUME Commands \subseteq {"snapshot", "drop"}, SideBySide, [Next]_vars
  PROVE  SideBySide'
<1>1. AnyInv /\ AnyInv' /\ Stored /\ \A p \in Proc : Settling(p)
  BY NextAnyInv DEF SideBySide
<1>2. CASE UNCHANGED vars
  BY <1>1, <1>2 DEF vars, SideBySide, Stored, Settling, Listed, Whole, has
<1>3. CASE Next
  <2>1. PICK p \in Proc :
          \/ \E m \in Name, content \in Contents : BeginSnapshot(p, m, content)
          \/ LoadManifest(p) \/ ChooseSeq(p) \/ \E h \in Chunk : CheckChunk(p, h)
          \/ CreateChunk(p) \/ FillChunk(p) \/ OpenManifest(p) \/ WriteManifest(p)
          \/ WriteAdrift(p) \/ (\E m \in Name : Drop(p, m)) \/ Crash(p) \/ LoseBufferedChunk(p)
    BY <1>1, <1>3 DEF Next, Settling, BeginGc, BeginRetain, ChooseGarbage, ChooseVictims,
       TrimOldest, TrimDone, SweepChunk, SweepDone, Scanned
  <2>2. /\ Settling(p) /\ op[p] \in Locals /\ op[p].refs \subseteq Chunk
        /\ chunks \in [Chunk -> ChunkFile] /\ snaps \in [Name -> ManifestFile]
        /\ pc \in [Proc -> Places] /\ op \in [Proc -> Locals] /\ faults \in Nat
        /\ op' \in [Proc -> Locals]
    BY <1>1, LocalsOf, BoundsAssumption DEF AnyInv, Types
  <2>3. \A h \in Chunk : has(h) => has(h)'
    BY <2>1, <2>2 DEF has, BeginSnapshot, LoadManifest, ChooseSeq, CheckChunk, CreateChunk,
       FillChunk, OpenManifest, WriteManifest, WriteAdrift, Drop, Crash, LoseBufferedChunk
  <2>4. \A q \in Proc \ {p} : /\ op'[q] = op[q]
                              /\ pc'[q] = pc[q] \/ (pc[q] = "seal" /\ pc'[q] = "adrift")
    BY <2>1, <2>2 DEF BeginSnapshot, LoadManifest, ChooseSeq, CheckChunk, CreateChunk,
       FillChunk, OpenManifest, WriteManifest, WriteAdrift, Drop, Crash, LoseBufferedChunk,
       Exit, Unlinked
  <2>5. \A q \in Proc \ {p} : Settling(q)'
    BY <2>3, <2>4, OthersSettle
  <2>6. Settling(p)'
    <3>1. CASE Exit(p)
      BY <2>2, <3>1 DEF Exit, Settling
    <3>2. CASE \E m \in Name, content \in Contents : BeginSnapshot(p, m, content)
      BY <2>2, <3>2 DEF BeginSnapshot, Settling, NoLocals
    <3>3. CASE LoadManifest(p)
      BY <2>2, <3>1, <3>3 DEF LoadManifest, Settling, Locals
    <3>4. CASE ChooseSeq(p)
      BY <2>2, <3>4 DEF ChooseSeq, Scanned, Settling, Locals
    <3>5. CASE \E h \in Chunk : CheckChunk(p, h)
      <4>1. PICK h \in Chunk : CheckChunk(p, h)
        BY <3>5
      <4>2. /\ pc[p] = "check" /\ op'[p].refs = op[p].refs
            /\ op'[p].todo = op[p].todo \ {h}
            /\ \/ pc'[p] = "check" /\ has(h)
               \/ pc'[p] = "create" /\ op'[p].cur = h
        BY <2>2, <4>1 DEF CheckChunk, Locals
      <4>3. ASSUME NEW k \in op'[p].refs
            PROVE  k \in op'[p].todo \/ (pc'[p] = "create" /\ k = op'[p].cur) \/ has(k)'
        BY <2>2, <2>3, <4>2 DEF Settling
      <4> QED BY <4>2, <4>3 DEF Settling
    <3>6. CASE CreateChunk(p) \/ FillChunk(p) \/ LoseBufferedChunk(p)
      <4>1. /\ pc[p] \in {"create", "fill"} /\ pc'[p] \in {"check", "fill"}
            /\ op'[p].refs = op[p].refs /\ op'[p].todo = op[p].todo
        BY <2>2, <3>6 DEF CreateChunk, FillChunk, LoseBufferedChunk, Locals
      <4>2. \A h \in Chunk : pc[p] = "create" /\ h = op[p].cur => has(h)'
        BY <2>2, <3>6 DEF CreateChunk, FillChunk, LoseBufferedChunk, has
      <4>3. ASSUME NEW k \in op'[p].refs
            PROVE  k \in op'[p].todo \/ has(k)'
        BY <2>2, <2>3, <4>1, <4>2 DEF Settling
      <4> QED BY <4>1, <4>3 DEF Settling
    <3>7. CASE OpenManifest(p)
      BY <2>2, <3>7 DEF OpenManifest, Settling, has
    <3>8. CASE WriteManifest(p) \/ Crash(p)
      BY <3>1, <3>8 DEF WriteManifest, Crash
    <3>9. CASE WriteAdrift(p)
      BY <2>2, <3>1, <3>9 DEF WriteAdrift, Settling, has, Locals
    <3>10. CASE \E m \in Name : Drop(p, m)
      BY <2>2, <3>10 DEF Drop, Unlinked, Settling
    <3> QED BY <2>1, <3>2, <3>3, <3>4, <3>5, <3>6, <3>7, <3>8, <3>9, <3>10
  <2>7. \A m \in Listed' : \A h \in snaps'[m].refs : has(h)'
    <3>1. CASE \A m \in Listed' : m \in Listed /\ snaps'[m] = snaps[m]
      <4>1. \A m \in Listed : snaps[m].refs \subseteq Chunk
        BY <2>2 DEF ManifestFile, Listed
      <4> QED BY <1>1, <2>3, <3>1, <4>1 DEF Stored
    <3>2. CASE snaps' = snaps
      BY <3>1, <3>2 DEF Listed, Whole
    <3>3. CASE OpenManifest(p) \/ \E m \in Name : Drop(p, m)
      BY <2>2, <3>1, <3>3 DEF OpenManifest, Drop, Listed, Whole, TornFile, NoFile
    <3>4. CASE WriteManifest(p)
      <4>1. \A h \in op[p].refs : has(h)'
        BY <2>2, <2>3, <3>4 DEF WriteManifest, Settling
      <4>2. ASSUME NEW m \in Listed', NEW h \in snaps'[m].refs PROVE has(h)'
        <5>1. CASE m \in Listed /\ snaps'[m] = snaps[m]
          <6>1. snaps[m].refs \subseteq Chunk
            BY <2>2, <5>1 DEF ManifestFile, Listed
          <6> QED BY <1>1, <2>3, <4>2, <5>1, <6>1 DEF Stored
        <5>2. CASE snaps'[m] = [file |-> "whole", seq |-> op[p].seq, refs |-> op[p].refs]
          BY <4>1, <4>2, <5>2
        <5>3. CASE snaps'[m] = TornFile
          BY <4>2, <5>3 DEF Listed, Whole, TornFile
        <5> QED BY <2>2, <3>4, <4>2, <5>1, <5>2, <5>3 DEF WriteManifest, Listed, Whole
      <4> QED BY <4>2
    <3> QED BY <2>1, <3>2, <3>3, <3>4 DEF BeginSnapshot, LoadManifest, ChooseSeq, CheckChunk,
               CreateChunk, FillChunk, WriteAdrift, Crash, LoseBufferedChunk
  <2>8. ASSUME faults' = 0, NEW h \in Chunk, chunks'[h] = "torn"
        PROVE  \E q \in Proc : pc'[q] = "fill" /\ op'[q].cur = h
    <3>1. faults = 0 /\ ~Crash(p) /\ ~LoseBufferedChunk(p)
      <4>1. faults' = faults \/ faults' = faults + 1
        BY <2>1 DEF BeginSnapshot, LoadManifest, ChooseSeq, CheckChunk, CreateChunk, FillChunk,
           OpenManifest, WriteManifest, WriteAdrift, Drop, Crash, LoseBufferedChunk
      <4>2. Crash(p) \/ LoseBufferedChunk(p) => faults' = faults + 1
        BY DEF Crash, LoseBufferedChunk
      <4> QED BY <2>2, <2>8, <4>1, <4>2
    <3>2. CASE CreateChunk(p) /\ h = op[p].cur
      BY <2>2, <3>2 DEF CreateChunk
    <3>3. CASE ~(CreateChunk(p) /\ h = op[p].cur)
      <4>1. chunks[h] = "torn" /\ ~(FillChunk(p) /\ h = op[p].cur)
        BY <2>1, <2>2, <2>8, <3>1, <3>3 DEF BeginSnapshot, LoadManifest, ChooseSeq, CheckChunk,
           CreateChunk, FillChunk, OpenManifest, WriteManifest, WriteAdrift, Drop
      <4>2. PICK q \in Proc : pc[q] = "fill" /\ op[q].cur = h
        BY <1>1, <3>1, <4>1 DEF Stored
      <4>3. CASE q # p
        BY <2>4, <4>2, <4>3
      <4>4. CASE q = p
        BY <2>1, <3>1, <4>1, <4>2, <4>4 DEF BeginSnapshot, LoadManifest, ChooseSeq, Scanned,
           CheckChunk, CreateChunk, FillChunk, OpenManifest, WriteManifest, WriteAdrift, Drop
      <4> QED BY <4>3, <4>4
    <3> QED BY <3>2, <3>3
  <2> QED BY <1>1, <2>5, <2>6, <2>7, <2>8 DEF SideBySide, Stored
<1> QED BY <1>2, <1>3

\* Snapshots taken and dropped side by side, by any number of processes: once
\* none is under way, every listed snapshot restores.
THEOREM SettledRestores ==
  ASSUME Commands \subseteq {"snapshot", "drop"}
  PROVE  Spec => []SettledSnapshotsRestore
<1>1. Init => SideBySide
  <2> SUFFICES ASSUME Init PROVE SideBySide
    OBVIOUS
  <2>1. Stored
    <3>1. \A h \in Chunk : chunks[h] # "torn"
      BY InitFiles
    <3>2. \A m \in Listed : \A h \in snaps[m].refs : has(h)
      BY InitFiles DEF has
    <3> QED BY <3>1, <3>2 DEF Stored
  <2>2. \A p \in Proc : Settling(p)
    BY DEF Init, Settling
  <2> QED BY <2>1, <2>2, InitAnyInv DEF SideBySide
<1>2. SideBySide /\ [Next]_vars => SideBySide'
  BY NextSideBySide
<1>3. SideBySide => SettledSnapshotsRestore
  <2> SUFFICES ASSUME SideBySide, \A p \in Proc : pc[p] = "idle", faults = 0,
                      NEW m \in Listed, NEW h \in snaps[m].refs
               PROVE  chunks[h] = "intact"
    BY DEF SettledSnapshotsRestore, Restorable, Listed
  <2>1. h \in Chunk /\ chunks[h] \in ChunkFile
    BY DEF SideBySide, AnyInv, Types, ManifestFile, Listed
  <2>2. chunks[h] # "absent" /\ chunks[h] # "torn"
    BY <2>1 DEF SideBySide, Stored, has
  <2> QED BY <2>1, <2>2 DEF ChunkFile
<1> QED BY <1>1, <1>2, <1>3, PTL DEF Spec

-----------------------------------------------------------------------------
(***************************************************************************)
(* Any number of processes, running any commands: sequence numbers.  While *)
(* a snapshot reads the manifests, what was listed when it began and is    *)
(* untouched is either read or still to be read; what it has read has a    *)
(* lower number than the one it then chooses.                              *)
(***************************************************************************)

\* Where a snapshot has chosen its number.
Numbering == {"check", "create", "fill", "adrift", "seal"}

Ahead(p) ==
  /\ pc[p] = "scan" /\ op[p].cmd = "snapshot" =>
       \A m \in began[p].listed :
         m \in op[p].names \/ \E x \in op[p].found : x.name = m /\ x.seq = snaps[m].seq
  /\ pc[p] \in Numbering => \A m \in began[p].listed : snaps[m].seq < op[p].seq

HInv == /\ AnyInv
        /\ began \in [Proc -> [listed : SUBSET Name, faults : Nat]]
        /\ \A p \in Proc : Ahead(p)

\* Every step of the engine with its history is one of the engine.
LEMMA HistoryRemembers == HNext => Next /\ Remember
BY DEF HNext, Next

\* What the history says after a step: of a command that goes on, no more than
\* before and nothing that changed; of one that begins, what is listed.
LEMMA BeganStep ==
  ASSUME HInv, Next, Remember
  PROVE  /\ began' \in [Proc -> [listed : SUBSET Name, faults : Nat]]
         /\ \A q \in Proc :
              IF pc[q] = "idle" THEN began'[q].listed \subseteq Listed
              ELSE \A m \in began'[q].listed : m \in began[q].listed /\ snaps'[m] = snaps[m]
<1>1. ASSUME NEW q \in Proc
      PROVE  /\ began'[q] \in [listed : SUBSET Name, faults : Nat]
             /\ IF pc[q] = "idle" THEN began'[q].listed \subseteq Listed
                ELSE \A m \in began'[q].listed : m \in began[q].listed /\ snaps'[m] = snaps[m]
  <2>1. /\ began[q] \in [listed : SUBSET Name, faults : Nat]
        /\ faults \in Nat /\ Listed \in SUBSET Name
    BY BoundsAssumption DEF HInv, AnyInv, Types, Listed
  <2>2. CASE op'[q].cmd # "snapshot"
    <3>1. began'[q] = Nothing
      BY <2>2 DEF Remember
    <3> QED BY <3>1 DEF Nothing
  <2>3. CASE op'[q].cmd = "snapshot" /\ pc[q] = "idle"
    <3>1. began'[q] = [listed |-> Listed, faults |-> faults]
      BY <2>3 DEF Remember
    <3> HIDE DEF Listed
    <3> QED BY <2>1, <2>3, <3>1
  <2>4. CASE op'[q].cmd = "snapshot" /\ pc[q] # "idle"
    <3> DEFINE rest == Untouched(began[q].listed)
    <3>1. began'[q] = [began[q] EXCEPT !.listed = rest]
      BY <2>4 DEF Remember
    <3>2. rest \in SUBSET Name /\ \A m \in rest : m \in began[q].listed /\ snaps'[m] = snaps[m]
      BY <2>1 DEF Untouched
    <3> HIDE DEF rest
    <3> QED BY <2>1, <2>4, <3>1, <3>2
  <2> QED BY <2>2, <2>3, <2>4
<1>2. began' = [q \in Proc |-> began'[q]]
  BY DEF Remember
<1> QED BY <1>1, <1>2

\* A process that has its number keeps it while it works, and one that another
\* has taken the file from works on as before.
LEMMA KeepsNumber ==
  ASSUME HInv, Next, Remember, NEW q \in Proc, pc[q] \in Numbering, pc'[q] # "scan",
         op'[q].seq = op[q].seq
  PROVE  Ahead(q)'
<1>1. \A m \in began'[q].listed : m \in began[q].listed /\ snaps'[m] = snaps[m]
  BY BeganStep DEF Numbering
<1>2. \A m \in began[q].listed : snaps[m].seq < op[q].seq
  BY DEF HInv, Ahead
<1>3. \A m \in began'[q].listed : snaps'[m].seq < op'[q].seq
  BY <1>1, <1>2
<1> QED BY <1>3 DEF Ahead

LEMMA OthersAhead ==
  ASSUME HInv, Next, Remember, NEW q \in Proc, op'[q] = op[q],
         pc'[q] = pc[q] \/ (pc[q] \in {"fill", "seal"} /\ pc'[q] = "adrift")
  PROVE  Ahead(q)'
<1>1. CASE pc[q] \in Numbering
  BY <1>1, KeepsNumber DEF Numbering
<1>2. CASE pc[q] = "scan" /\ op[q].cmd = "snapshot"
  <2>1. \A m \in began'[q].listed : m \in began[q].listed /\ snaps'[m] = snaps[m]
    BY <1>2, BeganStep
  <2>2. pc'[q] = "scan" /\ op'[q] = op[q]
    BY <1>2
  <2>3. \A m \in began[q].listed :
          m \in op[q].names \/ \E x \in op[q].found : x.name = m /\ x.seq = snaps[m].seq
    BY <1>2 DEF HInv, Ahead
  <2>4. \A m \in began'[q].listed :
          m \in op'[q].names \/ \E x \in op'[q].found : x.name = m /\ x.seq = snaps'[m].seq
    BY <2>1, <2>2, <2>3
  <2> QED BY <2>2, <2>4 DEF Ahead, Numbering
<1>3. CASE pc[q] \notin Numbering /\ ~(pc[q] = "scan" /\ op[q].cmd = "snapshot")
  BY <1>3 DEF Ahead, Numbering
<1> QED BY <1>1, <1>2, <1>3

\* A manifest is read as it is now, so its number is the one to exceed.
LEMMA LoadManifestAhead ==
  ASSUME HInv, Next, Remember, NEW p \in Proc, LoadManifest(p)
  PROVE  Ahead(p)'
<1> DEFINE m == Least(op[p].names)
           entry == [name |-> m, seq |-> snaps[m].seq, refs |-> snaps[m].refs]
<1>1. pc[p] = "scan" /\ pc \in [Proc -> Places] /\ op \in [Proc -> Locals] /\ snaps' = snaps
  BY DEF LoadManifest, HInv, AnyInv, Types
<1>2. CASE ~Whole(m)
  <2>1. pc'[p] = "idle"
    BY <1>1, <1>2 DEF LoadManifest, Exit
  <2> QED BY <2>1 DEF Ahead, Numbering
<1>3. CASE Whole(m) /\ op[p].cmd # "snapshot"
  <2>1. pc'[p] = "scan" /\ op'[p].cmd = op[p].cmd
    BY <1>1, <1>3 DEF LoadManifest, Locals
  <2> QED BY <1>3, <2>1 DEF Ahead, Numbering
<1>4. CASE Whole(m) /\ op[p].cmd = "snapshot"
  <2>1. /\ pc'[p] = "scan" /\ op'[p].names = op[p].names \ {m}
        /\ op'[p].found = op[p].found \cup {entry}
    BY <1>1, <1>4 DEF LoadManifest, Locals
  <2>2. entry.name = m /\ entry.seq = snaps[m].seq
    OBVIOUS
  <2> HIDE DEF m, entry
  <2>3. \A k \in began'[p].listed : k \in began[p].listed
    BY <1>1, BeganStep
  <2>4. \A k \in began[p].listed :
          k \in op[p].names \/ \E x \in op[p].found : x.name = k /\ x.seq = snaps[k].seq
    BY <1>1, <1>4 DEF HInv, Ahead
  <2>5. ASSUME NEW k \in began'[p].listed
        PROVE  \/ k \in op'[p].names
               \/ \E x \in op'[p].found : x.name = k /\ x.seq = snaps'[k].seq
    <3>1. CASE k = m
      BY <1>1, <2>1, <2>2, <3>1
    <3>2. CASE k # m
      BY <1>1, <2>1, <2>3, <2>4, <3>2
    <3> QED BY <3>1, <3>2
  <2> QED BY <2>1, <2>5 DEF Ahead, Numbering
<1> QED BY <1>2, <1>3, <1>4

\* The number chosen exceeds all that was read.
LEMMA ChooseSeqAhead ==
  ASSUME HInv, Next, Remember, NEW p \in Proc, ChooseSeq(p)
  PROVE  Ahead(p)'
<1> DEFINE s == NextSeq(op[p].found)
<1>1. /\ pc[p] = "scan" /\ op[p].cmd = "snapshot" /\ op[p].names = {} /\ snaps' = snaps
      /\ pc \in [Proc -> Places] /\ op \in [Proc -> Locals]
  BY DEF ChooseSeq, Scanned, HInv, AnyInv, Types
<1>2. pc'[p] = "check" /\ op'[p].seq = s
  BY <1>1 DEF ChooseSeq, Locals
<1>3. \A m \in began'[p].listed : m \in began[p].listed
  BY <1>1, BeganStep
<1>4. \A m \in began[p].listed : \E x \in op[p].found : x.name = m /\ x.seq = snaps[m].seq
  BY <1>1 DEF HInv, Ahead
<1>5. ASSUME NEW m \in began'[p].listed PROVE snaps[m].seq < s
  <2>1. PICK x \in op[p].found : x.seq = snaps[m].seq
    BY <1>3, <1>4
  <2>2. \A y \in op[p].found : y.seq \in 0 .. MaxSnapshots
    BY <1>1 DEF Locals
  <2>3. PICK y \in op[p].found : s = 1 + y.seq /\ \A z \in op[p].found : z.seq <= y.seq
    BY <2>1, <2>2, HighestSeq
  <2>4. x.seq \in Nat /\ y.seq \in Nat /\ x.seq <= y.seq
    BY <2>2, <2>3, BoundsAssumption
  <2> HIDE DEF s
  <2> QED BY <2>1, <2>3, <2>4
<1> HIDE DEF s
<1> QED BY <1>1, <1>2, <1>5 DEF Ahead, Numbering

LEMMA NextAhead ==
  ASSUME HInv, Next, Remember
  PROVE  \A q \in Proc : Ahead(q)'
<1>1. PICK p \in Proc :
        \/ \E m \in Name, content \in Contents : BeginSnapshot(p, m, content)
        \/ BeginGc(p) \/ TrimDone(p) \/ (\E k \in Keeps : BeginRetain(p, k))
        \/ LoadManifest(p) \/ ChooseSeq(p) \/ ChooseGarbage(p) \/ ChooseVictims(p)
        \/ (\E h \in Chunk : CheckChunk(p, h))
        \/ CreateChunk(p) \/ FillChunk(p) \/ LoseBufferedChunk(p) \/ WriteAdrift(p)
        \/ OpenManifest(p) \/ WriteManifest(p) \/ (\E m \in Name : Drop(p, m))
        \/ TrimOldest(p) \/ SweepChunk(p) \/ SweepDone(p) \/ Crash(p)
  BY DEF Next
<1>2. pc \in [Proc -> Places] /\ op \in [Proc -> Locals]
  BY DEF HInv, AnyInv, Types
<1>3. \A q \in Proc \ {p} : /\ op'[q] = op[q]
                           /\ \/ pc'[q] = pc[q]
                              \/ pc[q] \in {"fill", "seal"} /\ pc'[q] = "adrift"
  BY <1>1, <1>2 DEF BeginSnapshot, BeginGc, TrimDone, BeginRetain, LoadManifest, ChooseSeq,
     ChooseGarbage, ChooseVictims, CheckChunk, CreateChunk, FillChunk, LoseBufferedChunk,
     WriteAdrift, OpenManifest, WriteManifest, Drop, TrimOldest, SweepChunk, SweepDone, Crash,
     Exit, Unlinked
<1>4. \A q \in Proc \ {p} : Ahead(q)'
  BY <1>3, OthersAhead
<1>5. Ahead(p)'
  <2>1. CASE \E m \in Name, content \in Contents : BeginSnapshot(p, m, content)
    <3>1. pc[p] = "idle" /\ pc'[p] = "scan" /\ op'[p].names = snapshot_names
      BY <1>2, <2>1 DEF BeginSnapshot, NoLocals
    <3>2. began'[p].listed \subseteq snapshot_names
      BY <3>1, BeganStep DEF Listed, Whole, snapshot_names
    <3> QED BY <3>1, <3>2 DEF Ahead, Numbering
  <2>2. CASE pc'[p] \notin Numbering \cup {"scan"}
    BY <2>2 DEF Ahead
  <2>3. CASE BeginGc(p) \/ TrimDone(p) \/ \E k \in Keeps : BeginRetain(p, k)
    <3>1. pc'[p] = "scan" /\ op'[p].cmd # "snapshot"
      BY <1>2, <2>3 DEF BeginGc, TrimDone, BeginRetain, NoLocals
    <3> QED BY <3>1 DEF Ahead, Numbering
  <2>4. CASE LoadManifest(p) \/ ChooseSeq(p)
    BY <2>4, LoadManifestAhead, ChooseSeqAhead
  <2>5. CASE \/ \E h \in Chunk : CheckChunk(p, h)
             \/ CreateChunk(p) \/ FillChunk(p) \/ LoseBufferedChunk(p)
             \/ OpenManifest(p) \/ (WriteAdrift(p) /\ op[p].cur # 0)
    <3>1. pc[p] \in Numbering /\ pc'[p] # "scan" /\ op'[p].seq = op[p].seq
      BY <1>2, <2>5 DEF CheckChunk, CreateChunk, FillChunk, LoseBufferedChunk, OpenManifest,
         WriteAdrift, Numbering, Locals
    <3> QED BY <3>1, KeepsNumber
  <2>6. CASE Exit(p)
    BY <1>2, <2>2, <2>6 DEF Exit, Numbering
  <2>7. CASE ChooseGarbage(p) \/ ChooseVictims(p) \/ \E m \in Name : Drop(p, m)
    <3>1. pc'[p] \in {"sweep", "trim", "idle"}
      BY <1>2, <2>7 DEF ChooseGarbage, ChooseVictims, Drop, Unlinked
    <3> QED BY <2>2, <3>1 DEF Numbering
  <2>8. CASE (TrimOldest(p) \/ SweepChunk(p)) /\ ~Exit(p)
    <3>1. pc'[p] \in {"sweep", "trim"}
      BY <1>2, <2>8 DEF TrimOldest, SweepChunk, Unlinked
    <3> QED BY <2>2, <3>1 DEF Numbering
  <2>9. CASE WriteManifest(p) \/ SweepDone(p) \/ Crash(p) \/ (WriteAdrift(p) /\ op[p].cur = 0)
    BY <2>6, <2>9 DEF WriteManifest, SweepDone, Crash, WriteAdrift
  <2> QED BY <1>1, <2>1, <2>3, <2>4, <2>5, <2>6, <2>7, <2>8, <2>9
<1> QED BY <1>4, <1>5

\* A snapshot complete before another began has the smaller number, however many
\* svcore processes run whatever commands side by side, whatever is dropped or
\* taken again, fails or is killed, and whatever an older svcore left.
THEOREM NumbersFollow == HSpec => NumbersFollowTime
<1>1. HInit => HInv
  <2> SUFFICES ASSUME HInit PROVE HInv
    OBVIOUS
  <2>1. AnyInv
    BY InitAnyInv DEF HInit
  <2>2. began \in [Proc -> [listed : SUBSET Name, faults : Nat]]
    BY DEF HInit, Nothing
  <2>3. \A p \in Proc : Ahead(p)
    BY DEF HInit, Init, Ahead, Numbering
  <2> QED BY <2>1, <2>2, <2>3 DEF HInv
<1>2. HInv /\ [HNext]_hvars => HInv'
  <2>1. HInv /\ HNext => HInv'
    <3>1. HInv /\ Next => AnyInv'
      BY NextAnyInv DEF HInv
    <3> QED BY <3>1, BeganStep, NextAhead, HistoryRemembers DEF HInv
  <2>2. HInv /\ UNCHANGED hvars => HInv'
    <3> SUFFICES ASSUME HInv, UNCHANGED hvars PROVE HInv'
      OBVIOUS
    <3>1. AnyInv'
      BY NextAnyInv DEF HInv, hvars, vars
    <3>2. \A p \in Proc : Ahead(p)'
      BY DEF HInv, hvars, Ahead
    <3> QED BY <3>1, <3>2 DEF HInv, hvars
  <2> QED BY <2>1, <2>2
<1>3. HInv /\ [HNext]_hvars =>
        [\A p \in Proc : WriteManifest(p) =>
           \A m \in began[p].listed : snaps[m].seq < op[p].seq]_hvars
  BY DEF HInv, Ahead, Numbering, WriteManifest
<1> QED BY <1>1, <1>2, <1>3, PTL DEF HSpec, NumbersFollowTime
=============================================================================
