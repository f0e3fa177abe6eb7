--------------------------- MODULE Restore_proofs ---------------------------
(***************************************************************************)
(* Safety of distribute.Restore for every manifest, every number of        *)
(* workers and every behaviour of the cluster.  One lemma per action shows *)
(* that it preserves the inductive invariant.                              *)
(***************************************************************************)
EXTENDS Restore, Numbers_proofs, TLAPS

LEMMA ChunksOfFiles ==
  /\ UniqueChunks \subseteq Chunk
  /\ \A k \in DOMAIN Files : \A j \in DOMAIN Files[k] : Files[k][j] \in UniqueChunks
BY FilesAssumption DEF UniqueChunks

LEMMA NextChunk ==
  ASSUME TypeOK, pending # {}
  PROVE  Least(pending) \in pending
BY ChunksOfFiles, ChunkAssumption, LeastIn DEF TypeOK

LEMMA InitIndInv ==
  ASSUME Init
  PROVE  IndInv
<1> USE DEF Init
<1>1. TypeOK
  <2>1. Len(Files) \in Nat
    BY FilesAssumption
  <2>2. changes \in 0 .. MaxChanges /\ written \in 0 .. Len(Files)
    BY <2>1, MaxChangesAssumption
  <2>3. pc \in [Worker -> {"select", "get", "send", "done"}] /\ job \in [Worker -> UniqueChunks \cup {0}]
        /\ reply \in [Worker -> Answer]
    BY DEF Answer
  <2>4. \A w \in Worker : pc[w] = "select"
    OBVIOUS
  <2> QED BY <2>2, <2>3, <2>4 DEF TypeOK
<1>2. \A w \in Worker : ~InFlight(w)
  BY DEF InFlight
<1>3. EveryChunkOnce
  BY <1>2 DEF EveryChunkOnce
<1>4. VerifiedBeforeWriting /\ FailsCleanly /\ CancelCause /\ CallerProgress
  BY DEF VerifiedBeforeWriting, FailsCleanly, CancelCause, CallerProgress
<1>5. CloseOrder
  BY DEF CloseOrder
<1> QED BY <1>1, <1>3, <1>4, <1>5 DEF IndInv

-----------------------------------------------------------------------------
LEMMA TakeJobIndInv ==
  ASSUME IndInv, NEW w \in Worker, TakeJob(w)
  PROVE  IndInv'
<1> DEFINE h == Least(pending)
<1> USE DEF IndInv, TakeJob, mainVars
<1>1. h \in pending
  BY NextChunk
<1> HIDE DEF h
<1>2. /\ pc' = [pc EXCEPT ![w] = "get"]
      /\ job' = [job EXCEPT ![w] = h]
      /\ pending' = pending \ {h}
  BY DEF h
<1>3. TypeOK'
  BY <1>1, <1>2 DEF TypeOK
<1>4. EveryChunkOnce'
  <2>1. ASSUME NEW v \in Worker, InFlight(v)'
        PROVE  job'[v] \notin (pending \cup fetched)'
    BY <1>1, <1>2, <2>1 DEF EveryChunkOnce, InFlight, TypeOK
  <2>2. ASSUME NEW u \in Worker, NEW v \in Worker, InFlight(u)', InFlight(v)', job'[u] = job'[v]
        PROVE  u = v
    BY <1>1, <1>2, <2>2 DEF EveryChunkOnce, InFlight, TypeOK
  <2>3. (pending \cap fetched = {})'
    BY <1>2 DEF EveryChunkOnce
  <2>4. ASSUME firstErr' = "none"
        PROVE  UniqueChunks = pending' \cup fetched'
                                \cup {job'[u] : u \in {v \in Worker : InFlight(v)'}}
    <3>1. \A v \in Worker : InFlight(v) => InFlight(v)' /\ job'[v] = job[v]
      BY <1>2 DEF InFlight, TypeOK
    <3>2. \A v \in Worker : InFlight(v)' => InFlight(v) \/ v = w
      BY <1>2 DEF InFlight, TypeOK
    <3>3. InFlight(w)' /\ job'[w] = h
      BY <1>2 DEF InFlight, TypeOK
    <3>4. UniqueChunks = pending \cup fetched \cup {job[u] : u \in {v \in Worker : InFlight(v)}}
      BY <2>4 DEF EveryChunkOnce
    <3> QED BY <1>1, <1>2, <3>1, <3>2, <3>3, <3>4
  <2> QED BY <2>1, <2>2, <2>3, <2>4 DEF EveryChunkOnce
<1>5. VerifiedBeforeWriting' /\ FailsCleanly' /\ CancelCause' /\ CallerProgress'
  BY DEF VerifiedBeforeWriting, FailsCleanly, CancelCause, CallerProgress
<1>6. CloseOrder'
  BY <1>2 DEF CloseOrder, TypeOK
<1> QED BY <1>3, <1>4, <1>5, <1>6

LEMMA FetchIndInv ==
  ASSUME IndInv, NEW w \in Worker, Fetch(w)
  PROVE  IndInv'
<1> USE DEF IndInv, Fetch, mainVars
<1>1. TypeOK'
  BY ChunksOfFiles DEF TypeOK
<1>2. \A v \in Worker : InFlight(v)' <=> InFlight(v)
  BY DEF InFlight, TypeOK
<1>3. EveryChunkOnce'
  BY <1>2 DEF EveryChunkOnce
<1>4. VerifiedBeforeWriting' /\ FailsCleanly' /\ CancelCause' /\ CallerProgress'
  BY DEF VerifiedBeforeWriting, FailsCleanly, CancelCause, CallerProgress
<1>5. CloseOrder'
  BY DEF CloseOrder, TypeOK
<1> QED BY <1>1, <1>3, <1>4, <1>5

LEMMA DeliverIndInv ==
  ASSUME IndInv, NEW w \in Worker, Deliver(w)
  PROVE  IndInv'
<1> USE DEF IndInv, Deliver
<1>1. /\ job[w] \in UniqueChunks /\ InFlight(w)
      /\ main = "collect" /\ main' = "collect" /\ job' = job
      /\ written' = written /\ outcome' = outcome /\ pending' = pending
  BY DEF TypeOK, InFlight
<1>2. TypeOK'
  BY <1>1 DEF TypeOK, Answer
<1>3. \A v \in Worker : InFlight(v)' <=> InFlight(v) /\ v # w
  BY DEF InFlight, TypeOK
<1>4. CASE reply[w] = "intact"
  <2>1. fetched' = fetched \cup {job[w]} /\ firstErr' = firstErr /\ cancelled' = cancelled
    BY <1>4
  <2>2. EveryChunkOnce'
    <3>1. \A v \in Worker : InFlight(v)' => job[v] \notin pending \cup fetched'
      BY <1>1, <1>3, <2>1 DEF EveryChunkOnce
    <3>2. \A u, v \in Worker : InFlight(u)' /\ InFlight(v)' /\ job[u] = job[v] => u = v
      BY <1>3 DEF EveryChunkOnce
    <3>3. pending \cap fetched' = {}
      BY <1>1, <2>1 DEF EveryChunkOnce
    <3>4. ASSUME firstErr = "none"
          PROVE  UniqueChunks = pending \cup fetched'
                                  \cup {job[u] : u \in {v \in Worker : InFlight(v)'}}
      <4>1. UniqueChunks = pending \cup fetched \cup {job[u] : u \in {v \in Worker : InFlight(v)}}
        BY <3>4 DEF EveryChunkOnce
      <4> QED BY <1>1, <1>3, <2>1, <4>1
    <3> QED BY <1>1, <2>1, <3>1, <3>2, <3>3, <3>4 DEF EveryChunkOnce
  <2>3. VerifiedBeforeWriting' /\ FailsCleanly' /\ CancelCause' /\ CallerProgress'
    BY <1>1, <2>1 DEF VerifiedBeforeWriting, FailsCleanly, CancelCause, CallerProgress, TypeOK
  <2>4. CloseOrder'
    BY <2>1 DEF CloseOrder, TypeOK
  <2> QED BY <1>2, <2>2, <2>3, <2>4
<1>5. CASE reply[w] # "intact"
  <2>1. fetched' = fetched /\ firstErr' # "none" /\ cancelled' = TRUE
    BY <1>5 DEF TypeOK, Answer
  <2>2. EveryChunkOnce'
    BY <1>1, <1>3, <2>1 DEF EveryChunkOnce
  <2>3. VerifiedBeforeWriting' /\ FailsCleanly' /\ CancelCause' /\ CallerProgress'
    BY <1>1, <2>1 DEF VerifiedBeforeWriting, FailsCleanly, CancelCause, CallerProgress, TypeOK
  <2>4. CloseOrder'
    BY <2>1 DEF CloseOrder, TypeOK
  <2> QED BY <1>2, <2>2, <2>3, <2>4
<1> QED BY <1>4, <1>5

LEMMA LeaveIndInv ==
  ASSUME IndInv, NEW w \in Worker, Leave(w)
  PROVE  IndInv'
<1> USE DEF IndInv, Leave, mainVars
<1>1. TypeOK'
  BY DEF TypeOK
<1>2. EveryChunkOnce'
  <2>1. CASE pc[w] = "select"
    <3>1. \A v \in Worker : InFlight(v)' <=> InFlight(v)
      BY <2>1 DEF InFlight, TypeOK
    <3> QED BY <3>1 DEF EveryChunkOnce
  <2>2. CASE pc[w] = "send" /\ cancelled
    <3>1. \A v \in Worker : InFlight(v)' => InFlight(v)
      BY DEF InFlight, TypeOK
    <3>2. firstErr # "none"
      <4>1. main = "collect"
        BY <2>2 DEF CallerProgress, CloseOrder
      <4> QED BY <2>2, <4>1 DEF CancelCause
    <3> QED BY <3>1, <3>2 DEF EveryChunkOnce
  <2> QED BY <2>1, <2>2
<1>3. VerifiedBeforeWriting' /\ FailsCleanly' /\ CancelCause' /\ CallerProgress'
  BY DEF VerifiedBeforeWriting, FailsCleanly, CancelCause, CallerProgress
<1>4. CloseOrder'
  <2>1. feeder = "closed" \/ cancelled
    OBVIOUS
  <2> QED BY <2>1 DEF CloseOrder, TypeOK
<1> QED BY <1>1, <1>2, <1>3, <1>4

-----------------------------------------------------------------------------
LEMMA CloseIndInv ==
  ASSUME IndInv, CloseJobs \/ CloseResults
  PROVE  IndInv'
<1> USE DEF IndInv, CloseJobs, CloseResults, workerVars, mainVars
<1>1. TypeOK'
  BY DEF TypeOK
<1>2. EveryChunkOnce'
  BY DEF EveryChunkOnce, InFlight
<1>3. VerifiedBeforeWriting' /\ FailsCleanly' /\ CancelCause' /\ CallerProgress'
  BY DEF VerifiedBeforeWriting, FailsCleanly, CancelCause, CallerProgress
<1>4. CloseOrder'
  BY DEF CloseOrder
<1> QED BY <1>1, <1>2, <1>3, <1>4

\* When the range over results ends without an error nothing is pending and
\* nothing is in flight, so everything is fetched.
LEMMA EndCollectIndInv ==
  ASSUME IndInv, EndCollect
  PROVE  IndInv'
<1> USE DEF IndInv
<1>1. main = "collect" /\ closer = "closed" /\ written = 0 /\ outcome = "none"
      /\ written' = written
  BY DEF EndCollect, CallerProgress
<1>2. UNCHANGED <<pending, pc, job, reply, source, changes, feeder, closer, fetched, firstErr>>
  BY DEF EndCollect, Return, workerVars
<1>3. EveryChunkOnce'
  BY <1>2 DEF EveryChunkOnce, InFlight
<1>4. CASE firstErr # "none"
  <2>1. main' = "returned" /\ outcome' = firstErr /\ cancelled' = TRUE
    BY <1>4 DEF EndCollect, Return
  <2>2. TypeOK'
    BY <1>1, <1>2, <1>4, <2>1 DEF TypeOK
  <2>3. firstErr \in {"integrity", "unavailable"}
    BY <1>4 DEF TypeOK
  <2>4. VerifiedBeforeWriting' /\ FailsCleanly' /\ CancelCause' /\ CallerProgress'
    BY <1>1, <1>2, <2>1, <2>3
       DEF VerifiedBeforeWriting, FailsCleanly, CancelCause, CallerProgress
  <2>5. CloseOrder'
    BY <1>2, <2>1 DEF CloseOrder
  <2> QED BY <1>3, <2>2, <2>4, <2>5
<1>5. CASE firstErr = "none"
  <2>1. main' = "write" /\ outcome' = outcome /\ cancelled' = cancelled
    BY <1>5 DEF EndCollect
  <2>2. TypeOK'
    BY <1>1, <1>2, <2>1 DEF TypeOK
  <2>3. fetched = UniqueChunks
    <3>1. ~cancelled
      BY <1>1, <1>5 DEF CancelCause
    <3>2. \A w \in Worker : pc[w] = "done" /\ ~InFlight(w)
      BY <1>1 DEF CloseOrder, InFlight
    <3>3. pending = {}
      BY <3>1, <3>2, WorkerAssumption DEF CloseOrder
    <3> QED BY <1>5, <3>2, <3>3 DEF EveryChunkOnce
  <2>4. VerifiedBeforeWriting' /\ FailsCleanly' /\ CancelCause' /\ CallerProgress'
    BY <1>1, <1>2, <1>5, <2>1, <2>3
       DEF VerifiedBeforeWriting, FailsCleanly, CancelCause, CallerProgress
  <2>5. CloseOrder'
    BY <1>2, <2>1 DEF CloseOrder
  <2> QED BY <1>3, <2>2, <2>4, <2>5
<1> QED BY <1>4, <1>5

LEMMA WriteFileIndInv ==
  ASSUME IndInv, WriteFile
  PROVE  IndInv'
<1> USE DEF IndInv, WriteFile, workerVars
<1>1. TypeOK'
  BY FilesAssumption DEF TypeOK
<1>2. EveryChunkOnce'
  BY DEF EveryChunkOnce, InFlight
<1>3. VerifiedBeforeWriting' /\ FailsCleanly' /\ CancelCause' /\ CallerProgress'
  BY DEF VerifiedBeforeWriting, FailsCleanly, CancelCause, CallerProgress
<1>4. CloseOrder'
  BY DEF CloseOrder
<1> QED BY <1>1, <1>2, <1>3, <1>4

\* Every chunk of every file is fetched by then, so the failure is never that
\* of a missing chunk.
LEMMA ReturnIndInv ==
  ASSUME IndInv, WriteError \/ Succeed
  PROVE  IndInv'
<1> USE DEF IndInv
<1>1. main = "write" /\ firstErr = "none" /\ fetched = UniqueChunks
  BY DEF WriteError, Succeed, CallerProgress
<1>2. /\ main' = "returned" /\ cancelled' = TRUE
      /\ UNCHANGED <<source, changes, feeder, pending, pc, job, reply, closer,
                     fetched, firstErr, written>>
  BY DEF WriteError, Succeed, Return, workerVars
<1>3. outcome' = "io" \/ (outcome' = "ok" /\ written = Len(Files))
  <2>1. CASE WriteError
    <3>1. written + 1 \in DOMAIN Files
      BY <2>1, FilesAssumption DEF WriteError, TypeOK
    <3>2. HasAllChunks(written + 1)
      BY <1>1, <3>1, ChunksOfFiles DEF HasAllChunks
    <3> QED BY <2>1, <3>2 DEF WriteError, Return
  <2>2. CASE Succeed
    BY <2>2 DEF Succeed, Return
  <2> QED BY <2>1, <2>2
<1>4. TypeOK'
  BY <1>2, <1>3 DEF TypeOK
<1>5. EveryChunkOnce'
  BY <1>2 DEF EveryChunkOnce, InFlight
<1>6. VerifiedBeforeWriting' /\ FailsCleanly' /\ CancelCause' /\ CallerProgress'
  BY <1>1, <1>2, <1>3
     DEF VerifiedBeforeWriting, FailsCleanly, CancelCause, CallerProgress
<1>7. CloseOrder'
  BY <1>2 DEF CloseOrder
<1> QED BY <1>4, <1>5, <1>6, <1>7

LEMMA ClusterChangesIndInv ==
  ASSUME IndInv, NEW h \in Chunk, NEW a \in Answer, ClusterChanges(h, a)
  PROVE  IndInv'
<1> USE DEF IndInv, ClusterChanges, workerVars, mainVars
<1>1. TypeOK'
  BY MaxChangesAssumption DEF TypeOK
<1>2. EveryChunkOnce' /\ VerifiedBeforeWriting' /\ FailsCleanly' /\ CloseOrder'
      /\ CancelCause' /\ CallerProgress'
  BY DEF EveryChunkOnce, InFlight, VerifiedBeforeWriting, FailsCleanly, CloseOrder,
         CancelCause, CallerProgress
<1> QED BY <1>1, <1>2

LEMMA StutterIndInv ==
  ASSUME IndInv, UNCHANGED vars
  PROVE  IndInv'
BY DEF vars, workerVars, mainVars, IndInv, TypeOK, EveryChunkOnce, InFlight,
       VerifiedBeforeWriting, FailsCleanly, CloseOrder, CancelCause, CallerProgress

-----------------------------------------------------------------------------
\* The inductive invariant of the pool, for any number of workers and any manifest.
THEOREM IndInvHolds == Spec => []IndInv
<1>1. IndInv /\ [Next]_vars => IndInv'
  BY TakeJobIndInv, FetchIndInv, DeliverIndInv, LeaveIndInv, CloseIndInv, EndCollectIndInv,
     WriteFileIndInv, ReturnIndInv, ClusterChangesIndInv, StutterIndInv DEF Next
<1> QED BY <1>1, InitIndInv, PTL DEF Spec

\* Every variable of a restore keeps its type: no channel operation, worker or
\* file write leaves the domain the properties are stated over.
THEOREM TypeCorrect == Spec => []TypeOK
<1>1. IndInv => TypeOK
  BY DEF IndInv
<1> QED BY <1>1, IndInvHolds, PTL

\* No chunk is lost or fetched twice between the feeder, the pool and the
\* collector, with any number of workers.
THEOREM NoChunkLostOrRepeated == Spec => []EveryChunkOnce
<1>1. IndInv => EveryChunkOnce
  BY DEF IndInv
<1> QED BY <1>1, IndInvHolds, PTL

\* No file of any manifest is written before all of its chunks are verified.
THEOREM VerifiedFirst == Spec => []VerifiedBeforeWriting
<1>1. IndInv => VerifiedBeforeWriting
  BY DEF IndInv
<1> QED BY <1>1, IndInvHolds, PTL

\* A restore that cannot fetch its chunks leaves an empty tree behind.
THEOREM CleanFailure == Spec => []FailsCleanly
<1>1. IndInv => FailsCleanly
  BY DEF IndInv
<1> QED BY <1>1, IndInvHolds, PTL

\* No worker ever sends on the closed results channel.
THEOREM ChannelSafety == Spec => []NoSendAfterClose
<1>1. IndInv => NoSendAfterClose
  BY DEF IndInv, NoSendAfterClose, CloseOrder, CallerProgress, InFlight
<1> QED BY <1>1, IndInvHolds, PTL

\* The safety part of ImplementsContract, for every manifest and any number of
\* workers: a restore is an initial state of RestoreContract, and each of its
\* steps is a step of the contract or leaves the caller's view as it was.
THEOREM StepsAreContractSteps ==
  Spec => Contract!Init /\ [][Contract!Next]_(Contract!vars)
<1> USE DEF Contract!vars, Contract!Init, Contract!Next, Contract!GiveUp,
            Contract!AllVerified, Contract!WriteNext, Contract!WriteFails, Contract!Succeed
<1>1. Init => Contract!Init
  BY DEF Init
<1>2. IndInv /\ [Next]_vars => [Contract!Next]_(Contract!vars)
  <2> SUFFICES ASSUME IndInv, [Next]_vars
               PROVE  [Contract!Next]_(Contract!vars)
    OBVIOUS
  <2>1. ASSUME main' = main, outcome' = outcome, written' = written
        PROVE  [Contract!Next]_(Contract!vars)
    BY <2>1
  <2>2. ASSUME NEW w \in Worker, TakeJob(w) \/ Fetch(w) \/ Deliver(w) \/ Leave(w)
        PROVE  [Contract!Next]_(Contract!vars)
    BY <2>1, <2>2 DEF TakeJob, Fetch, Deliver, Leave, mainVars
  <2>3. CASE CloseJobs \/ CloseResults
    BY <2>1, <2>3 DEF CloseJobs, CloseResults, mainVars
  <2>4. CASE EndCollect
    BY <2>4 DEF EndCollect, Return, IndInv, TypeOK, CallerProgress
  <2>5. CASE WriteFile
    BY <2>5 DEF WriteFile
  <2>6. CASE WriteError
    BY <2>6 DEF WriteError, Return
  <2>7. CASE Succeed
    BY <2>7 DEF Succeed, Return
  <2>8. ASSUME NEW h \in Chunk, NEW a \in Answer, ClusterChanges(h, a)
        PROVE  [Contract!Next]_(Contract!vars)
    BY <2>1, <2>8 DEF ClusterChanges, mainVars
  <2>9. CASE UNCHANGED vars
    BY <2>1, <2>9 DEF vars, mainVars
  <2> QED BY <2>2, <2>3, <2>4, <2>5, <2>6, <2>7, <2>8, <2>9 DEF Next
<1> QED BY <1>1, <1>2, IndInvHolds, PTL DEF Spec
=============================================================================
