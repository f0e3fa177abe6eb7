------------------------------ MODULE SimEngine ------------------------------
(***************************************************************************)
(* The engine of the web demo as functions of its state: chunkBuffer       *)
(* (web/src/sim/chunker.ts), ContentStore.put, Engine.snapshot, restore    *)
(* and verify (engine.ts), treesEqual (dataset.ts).                        *)
(*                                                                         *)
(* A store is a function from hashes to bytes, a manifest a sequence of    *)
(* [path, chunks] records, a tree a function from paths to bytes.  Paths   *)
(* and hashes are numbers, in the order of the strings they stand for.     *)
(***************************************************************************)
EXTENDS Integers, SequencesExt

CONSTANTS ChunkSize,
          Digest      \* Digest[d]: the SHA-256 of the byte sequence d

\* A chunkSize <= 0 is replaced by the default.
ASSUME ChunkSizeAssumption == ChunkSize \in Nat \ {0}

\* No two byte sequences share a digest.
ASSUME DigestAssumption == \A c, d \in DOMAIN Digest : Digest[c] = Digest[d] => c = d

-----------------------------------------------------------------------------
\* Mutation of chunkBuffer: a last chunk that is smaller is dropped.
chunkBuffer_DropsTail(buffer) ==
  LET from[offset \in 0 .. Len(buffer)] ==
        IF offset + ChunkSize > Len(buffer) THEN <<>>
        ELSE <<SubSeq(buffer, offset + 1, offset + ChunkSize)>>
             \o from[offset + ChunkSize]
  IN  from[0]

\* The buffer cut every ChunkSize bytes.
chunkBuffer(buffer) ==
  LET from[offset \in 0 .. Len(buffer)] ==
        IF offset = Len(buffer) THEN <<>>
        ELSE LET end == Min({offset + ChunkSize, Len(buffer)})
             IN  <<SubSeq(buffer, offset + 1, end)>> \o from[end]
  IN  from[0]

\* ContentStore.put: a hash that is present keeps its bytes.
put(store, d) ==
  [h \in DOMAIN store \cup {Digest[d]} |-> IF h \in DOMAIN store THEN store[h] ELSE d]

\* What sort leaves of a set of numbers.
Sorted(S) == CHOOSE s \in [1 .. Cardinality(S) -> S] :
               \A j, k \in DOMAIN s : j < k => s[j] < s[k]

\* The paths of a tree, in the order snapshot takes them.
Ordered(tree) == Sorted(DOMAIN tree)

manifestOf(tree) ==
  LET paths == Ordered(tree)
  IN  [k \in 1 .. Len(paths) |->
         LET chunks == chunkBuffer(tree[paths[k]])
         IN  [path |-> paths[k],
              chunks |-> [j \in 1 .. Len(chunks) |-> Digest[chunks[j]]]]]

\* The chunks of a tree in the order snapshot stores them, with their paths.
References(tree) ==
  LET paths == Ordered(tree)
      ofFile(k) == LET chunks == chunkBuffer(tree[paths[k]])
                   IN  [j \in 1 .. Len(chunks) |->
                          [path |-> paths[k], bytes |-> chunks[j]]]
  IN  FlattenSeq([k \in 1 .. Len(paths) |-> ofFile(k)])

\* Mutation of StoreReference: new means new to this snapshot.
StoreReference_PerSnapshot(acc, ref) ==
  [store |-> put(acc.store, ref.bytes),
   trace |-> Append(acc.trace,
               [path |-> ref.path, hash |-> Digest[ref.bytes],
                isNew |-> \A k \in DOMAIN acc.trace :
                            acc.trace[k].hash # Digest[ref.bytes]])]

\* One turn of snapshot's inner loop, over [store, trace].  The counters of
\* SnapshotStats count the entries of the trace, by their isNew.
StoreReference(acc, ref) ==
  [store |-> put(acc.store, ref.bytes),
   trace |-> Append(acc.trace,
               [path |-> ref.path, hash |-> Digest[ref.bytes],
                isNew |-> Digest[ref.bytes] \notin DOMAIN acc.store])]

\* The store and the trace after snapshot has gone through a tree.
snapshot(store, tree) ==
  FoldLeft(StoreReference, [store |-> store, trace |-> <<>>], References(tree))

newChunks(trace) == {k \in DOMAIN trace : trace[k].isNew}

-----------------------------------------------------------------------------
\* Engine.restore: every file of the manifest from the chunks in the store.
restore(store, manifest) ==
  [k \in DOMAIN manifest |->
     [path |-> manifest[k].path,
      data |-> FlattenSeq([j \in DOMAIN manifest[k].chunks |->
                             store[manifest[k].chunks[j]]])]]

HashesOf(manifest) == UNION {ToSet(manifest[k].chunks) : k \in DOMAIN manifest}

\* Engine.verify over the given manifests: how many hashes were checked, and
\* those that their bytes do not reproduce.
verify(store, manifests) ==
  LET hashes == UNION {HashesOf(m) : m \in manifests}
  IN  [checked |-> Cardinality(hashes),
       bad     |-> {h \in hashes : Digest[store[h]] # h}]

uniqueChunks(manifest) == Sorted(HashesOf(manifest))

\* A tree as the list of files snapshot is called with, which is not in the
\* order of the paths.
FilesOf(tree) ==
  LET paths == Reverse(Ordered(tree))
  IN  [k \in DOMAIN paths |-> [path |-> paths[k], data |-> tree[paths[k]]]]

\* treesEqual: as many files, and for each file of a the one b has under the
\* path, the last if there are several, has the same bytes.
treesEqual(a, b) ==
  LET named(f) == {k \in DOMAIN b : b[k].path = f.path}
  IN  /\ Len(a) = Len(b)
      /\ \A k \in DOMAIN a :
           named(a[k]) # {} /\ b[Max(named(a[k]))].data = a[k].data
=============================================================================
