------------------------------ MODULE Restore ------------------------------
(***************************************************************************)
(* distribute.Restore: a feeder goroutine, a pool of workers, a closer and *)
(* the collecting caller, joined by two unbuffered channels, a context and *)
(* a wait group, while the cluster they read from may change under them.   *)
(*                                                                         *)
(* A send on an unbuffered channel and its receive are one step.  A select *)
(* with several ready cases takes any of them.                             *)
(***************************************************************************)
EXTENDS Naturals, Sequences, FiniteSets, LeastElement

CONSTANTS Chunk,        \* hashes; numbers, so that sorting them means something
          Worker,       \* the `parallel` workers
          Files,        \* Files[k]: the chunks of the k-th file in path order
          MaxChanges    \* bound on how often the cluster changes

ASSUME ChunkAssumption == Chunk \subseteq Nat

\* parallel < 1 is raised to 1.
ASSUME WorkerAssumption == Worker # {}

ASSUME FilesAssumption == Files \in Seq(Seq(Chunk))

ASSUME MaxChangesAssumption == MaxChanges \in Nat

VARIABLES source,       \* source[h]: what Cluster.Get(h) would bring now
          changes,      \* how often source has changed (bounded)
          feeder,       \* "run", or "closed" once it has closed jobs
          pending,      \* chunks the feeder has not handed out yet
          pc,           \* pc[w]: "select", "get", "send" or "done"
          job,          \* job[w]: the hash worker w was handed last
          reply,        \* reply[w]: what w's last Get brought
          closer,       \* "wait", or "closed" once it has closed results
          cancelled,    \* ctx.Done() is closed
          main,         \* "collect", "write" or "returned"
          fetched,      \* the keys of the fetched map
          firstErr,     \* the first fetch error received, or "none"
          written,      \* files written so far
          outcome       \* what Restore returned

workerVars == <<pc, job, reply>>
mainVars == <<main, fetched, firstErr, written, outcome>>
vars == <<source, changes, feeder, pending, workerVars, closer, cancelled, mainVars>>

\* Get brings the chunk's bytes, other bytes, or ErrChunkUnavailable.
Answer == {"intact", "integrity", "unavailable"}

UniqueChunks == UNION {{Files[k][j] : j \in DOMAIN Files[k]} : k \in DOMAIN Files}

TypeOK ==
  /\ source \in [Chunk -> Answer]
  /\ changes \in 0 .. MaxChanges
  /\ feeder \in {"run", "closed"}
  /\ pending \subseteq UniqueChunks
  /\ pc \in [Worker -> {"select", "get", "send", "done"}]
  /\ job \in [Worker -> UniqueChunks \cup {0}]
  /\ \A w \in Worker : pc[w] \in {"get", "send"} => job[w] \in UniqueChunks
  /\ reply \in [Worker -> Answer]
  /\ closer \in {"wait", "closed"}
  /\ cancelled \in BOOLEAN
  /\ main \in {"collect", "write", "returned"}
  /\ fetched \subseteq UniqueChunks
  /\ firstErr \in {"none", "integrity", "unavailable"}
  /\ written \in 0 .. Len(Files)
  /\ outcome \in {"none", "ok", "integrity", "unavailable", "missing", "io"}

Init ==
  /\ source \in [Chunk -> Answer]
  /\ changes = 0
  /\ feeder = "run"
  /\ pending = UniqueChunks
  /\ pc = [w \in Worker |-> "select"]
  /\ job = [w \in Worker |-> 0]
  /\ reply = [w \in Worker |-> "intact"]
  /\ closer = "wait"
  /\ cancelled = FALSE
  /\ main = "collect"
  /\ fetched = {}
  /\ firstErr = "none"
  /\ written = 0
  /\ outcome = "none"

-----------------------------------------------------------------------------
\* Mutation of TakeJob: the worker does not look at `ok`, and takes the zero
\* value of the closed channel for a hash.
TakeJob_IgnoresOk(w) ==
  /\ pc[w] = "select"
  /\ pending # {} \/ feeder = "closed"
  /\ pc' = [pc EXCEPT ![w] = "get"]
  /\ job' = [job EXCEPT ![w] = IF pending = {} THEN 0 ELSE Least(pending)]
  /\ pending' = IF pending = {} THEN {} ELSE pending \ {Least(pending)}
  /\ UNCHANGED <<source, changes, feeder, reply, closer, cancelled, mainVars>>

\* Mutation of TakeJob: a hash may be sent to more than one worker, as if the
\* feeder walked the files' chunk lists and not the unique chunks.
TakeJob_Repeats(w) ==
  /\ feeder = "run"
  /\ pending # {}
  /\ pc[w] = "select"
  /\ pc' = [pc EXCEPT ![w] = "get"]
  /\ job' = [job EXCEPT ![w] = Least(pending)]
  /\ pending' \in {pending, pending \ {Least(pending)}}
  /\ UNCHANGED <<source, changes, feeder, reply, closer, cancelled, mainVars>>

\* The feeder's send of the next hash meets worker w's receive.
TakeJob(w) ==
  /\ feeder = "run"
  /\ pending # {}
  /\ pc[w] = "select"
  /\ pc' = [pc EXCEPT ![w] = "get"]
  /\ job' = [job EXCEPT ![w] = Least(pending)]
  /\ pending' = pending \ {Least(pending)}
  /\ UNCHANGED <<source, changes, feeder, reply, closer, cancelled, mainVars>>

\* Mutation of CloseJobs: the feeder's send has no ctx.Done case.
CloseJobs_IgnoresCancel ==
  /\ feeder = "run"
  /\ pending = {}
  /\ feeder' = "closed"
  /\ UNCHANGED <<source, changes, pending, workerVars, closer, cancelled, mainVars>>

\* The feeder leaves its loop, out of hashes or cancelled, and closes jobs.
CloseJobs ==
  /\ feeder = "run"
  /\ pending = {} \/ cancelled
  /\ feeder' = "closed"
  /\ UNCHANGED <<source, changes, pending, workerVars, closer, cancelled, mainVars>>

\* Get and the hash check on arrival.
Fetch(w) ==
  /\ pc[w] = "get"
  /\ reply' = [reply EXCEPT ![w] = source[job[w]]]
  /\ pc' = [pc EXCEPT ![w] = "send"]
  /\ UNCHANGED <<source, changes, feeder, pending, job, closer, cancelled, mainVars>>

\* Worker w's send on results meets the collector's receive.
Deliver(w) ==
  /\ pc[w] = "send"
  /\ main = "collect"
  /\ pc' = [pc EXCEPT ![w] = "select"]
  /\ IF reply[w] = "intact"
     THEN /\ fetched' = fetched \cup {job[w]}
          /\ UNCHANGED <<firstErr, cancelled>>
     ELSE /\ firstErr' = IF firstErr = "none" THEN reply[w] ELSE firstErr
          /\ cancelled' = TRUE
          /\ UNCHANGED fetched
  /\ UNCHANGED <<source, changes, feeder, pending, job, reply, closer, main,
                 written, outcome>>

\* Mutation of Leave: a worker with a result in hand leaves once jobs is closed.
Leave_DropsResult(w) ==
  /\ pc[w] \in {"select", "send"}
  /\ feeder = "closed" \/ cancelled
  /\ pc' = [pc EXCEPT ![w] = "done"]
  /\ UNCHANGED <<source, changes, feeder, pending, job, reply, closer, cancelled,
                 mainVars>>

\* jobs is closed, or ctx.Done() is chosen in either select.
Leave(w) ==
  /\ \/ pc[w] = "select" /\ (feeder = "closed" \/ cancelled)
     \/ pc[w] = "send" /\ cancelled
  /\ pc' = [pc EXCEPT ![w] = "done"]
  /\ UNCHANGED <<source, changes, feeder, pending, job, reply, closer, cancelled,
                 mainVars>>

\* Mutation of CloseResults: results is closed with jobs, not after wg.Wait.
CloseResults_WithJobs ==
  /\ closer = "wait"
  /\ feeder = "closed"
  /\ closer' = "closed"
  /\ UNCHANGED <<source, changes, feeder, pending, workerVars, cancelled, mainVars>>

CloseResults ==
  /\ closer = "wait"
  /\ \A w \in Worker : pc[w] = "done"
  /\ closer' = "closed"
  /\ UNCHANGED <<source, changes, feeder, pending, workerVars, cancelled, mainVars>>

-----------------------------------------------------------------------------
\* Returning runs the deferred cancel.
Return(result) ==
  /\ main' = "returned"
  /\ outcome' = result
  /\ cancelled' = TRUE
  /\ UNCHANGED <<source, changes, feeder, pending, workerVars, closer, fetched, firstErr>>

\* Mutation of EndCollect: firstErr is not looked at.
EndCollect_IgnoresError ==
  /\ main = "collect"
  /\ closer = "closed"
  /\ main' = "write"
  /\ UNCHANGED <<source, changes, feeder, pending, workerVars, closer,
                 cancelled, fetched, firstErr, written, outcome>>

\* The range over results ends; with no error the files come next.
EndCollect ==
  /\ main = "collect"
  /\ closer = "closed"
  /\ \/ /\ firstErr # "none"
        /\ Return(firstErr)
        /\ UNCHANGED written
     \/ /\ firstErr = "none"
        /\ main' = "write"
        /\ UNCHANGED <<source, changes, feeder, pending, workerVars, closer,
                       cancelled, fetched, firstErr, written, outcome>>

HasAllChunks(k) == \A j \in DOMAIN Files[k] : Files[k][j] \in fetched

\* Mutation of WriteFile: a file is written as soon as its chunks have come.
WriteFile_Early ==
  /\ main \in {"collect", "write"}
  /\ written < Len(Files)
  /\ HasAllChunks(written + 1)
  /\ written' = written + 1
  /\ UNCHANGED <<source, changes, feeder, pending, workerVars, closer, cancelled,
                 main, fetched, firstErr, outcome>>

WriteFile ==
  /\ main = "write"
  /\ written < Len(Files)
  /\ HasAllChunks(written + 1)
  /\ written' = written + 1
  /\ UNCHANGED <<source, changes, feeder, pending, workerVars, closer, cancelled,
                 main, fetched, firstErr, outcome>>

WriteError ==
  /\ main = "write"
  /\ written < Len(Files)
  /\ Return(IF HasAllChunks(written + 1) THEN "io" ELSE "missing")
  /\ UNCHANGED written

\* Mutation of Succeed: a file that cannot be written is passed over.
Succeed_SkipsFiles ==
  /\ main = "write"
  /\ Return("ok")
  /\ UNCHANGED written

Succeed ==
  /\ main = "write"
  /\ written = Len(Files)
  /\ Return("ok")
  /\ UNCHANGED written

-----------------------------------------------------------------------------
\* Another goroutine fails or recovers nodes, repairs, or bytes rot.
ClusterChanges(h, a) ==
  /\ changes < MaxChanges
  /\ source[h] # a
  /\ source' = [source EXCEPT ![h] = a]
  /\ changes' = changes + 1
  /\ UNCHANGED <<feeder, pending, workerVars, closer, cancelled, mainVars>>

\* Everything has stopped: the one state with nothing left to do.
Stopped ==
  /\ main = "returned"
  /\ feeder = "closed"
  /\ closer = "closed"
  /\ \A w \in Worker : pc[w] = "done"

WorkerStep(w) == TakeJob(w) \/ Fetch(w) \/ Deliver(w) \/ Leave(w)

MainStep == EndCollect \/ WriteFile \/ WriteError \/ Succeed

Next ==
  \/ \E w \in Worker : TakeJob(w)
  \/ \E w \in Worker : Fetch(w)
  \/ \E w \in Worker : Deliver(w)
  \/ \E w \in Worker : Leave(w)
  \/ CloseJobs
  \/ CloseResults
  \/ EndCollect
  \/ WriteFile
  \/ WriteError
  \/ Succeed
  \/ \E h \in Chunk, a \in Answer : ClusterChanges(h, a)
  \/ Stopped /\ UNCHANGED vars

\* The Go scheduler runs every runnable goroutine.
Fairness == /\ \A w \in Worker : WF_vars(WorkerStep(w))
            /\ WF_vars(CloseJobs)
            /\ WF_vars(CloseResults)
            /\ WF_vars(MainStep)

Spec == Init /\ [][Next]_vars /\ Fairness

-----------------------------------------------------------------------------
InFlight(w) == pc[w] \in {"get", "send"}

\* The two selects on ctx.Done never lose a chunk of a restore that goes on:
\* until an error is received every unique chunk is with the feeder, with
\* exactly one worker, or fetched, and no chunk is handed out twice.
EveryChunkOnce ==
  /\ \A w \in Worker : InFlight(w) => job[w] \notin pending \cup fetched
  /\ \A v, w \in Worker : InFlight(v) /\ InFlight(w) /\ job[v] = job[w] => v = w
  /\ pending \cap fetched = {}
  /\ firstErr = "none" =>
       UniqueChunks = pending \cup fetched \cup {job[w] : w \in {v \in Worker : InFlight(v)}}

\* Restore writes no file before every chunk of the manifest has arrived and
\* passed its hash check; so the "missing chunk" branch cannot be taken.
VerifiedBeforeWriting ==
  /\ main = "write" \/ written > 0 => /\ fetched = UniqueChunks
                                     /\ firstErr = "none"
  /\ outcome # "missing"

\* ARCHITECTURE.md: a restore that cannot get its chunks "fails cleanly rather
\* than producing a corrupt file".  A fetch error is the first one received,
\* comes with an empty tree, and only "ok" comes with a complete one.
FailsCleanly ==
  /\ outcome \in {"integrity", "unavailable"} => written = 0 /\ outcome = firstErr
  /\ outcome = "ok" => written = Len(Files) /\ fetched = UniqueChunks
  /\ firstErr # "none" /\ main = "returned" => outcome = firstErr

\* Go panics on a send to a closed channel: results is closed only when no
\* worker can send any more, and the caller has an answer only after that.
NoSendAfterClose ==
  /\ closer = "closed" => \A w \in Worker : ~InFlight(w) /\ pc[w] # "select"
  /\ main # "collect" => closer = "closed"

\* Whatever fails and whenever, Restore returns and none of its goroutines is
\* left blocked on a channel.
StopsAndLeaksNothing == <>[]Stopped

\* If the cluster can serve every chunk all along, the restore does not fail
\* for want of a chunk.
HealthyClusterRestores ==
  [](\A h \in UniqueChunks : source[h] = "intact") => <>(outcome \in {"ok", "io"})

\* The restore as its caller sees it: the phase follows from the collector's
\* place and result.
Contract ==
  INSTANCE RestoreContract WITH
    FileCount <- Len(Files),
    phase <- CASE main = "collect" -> "fetching"
               [] main = "write" -> "writing"
               [] main = "returned" -> IF outcome = "ok" THEN "ok" ELSE "failed"

ImplementsContract == Contract!Spec

-----------------------------------------------------------------------------
(***************************************************************************)
(* The inductive invariant: where each goroutine may be, given the places  *)
(* of the others.  The four safety invariants above follow from it.        *)
(***************************************************************************)

\* jobs is closed early only because of the context, a worker leaves only
\* because of either, and results is closed only when all have left.
CloseOrder ==
  /\ feeder = "closed" => pending = {} \/ cancelled
  /\ \A w \in Worker : pc[w] = "done" => feeder = "closed" \/ cancelled
  /\ closer = "closed" => \A w \in Worker : pc[w] = "done"

\* The context is cancelled by the first error or by returning.
CancelCause == cancelled => firstErr # "none" \/ main = "returned"

\* How far the caller is, and what it can have learned and written by then.
CallerProgress ==
  /\ main = "collect" => written = 0 /\ outcome = "none"
  /\ main # "collect" => closer = "closed"
  /\ main = "write" => firstErr = "none" /\ fetched = UniqueChunks /\ outcome = "none"
  /\ main = "returned" => outcome # "none"
  /\ firstErr # "none" => written = 0
  /\ written > 0 => fetched = UniqueChunks

IndInv ==
  /\ TypeOK
  /\ EveryChunkOnce
  /\ VerifiedBeforeWriting
  /\ FailsCleanly
  /\ CloseOrder
  /\ CancelCause
  /\ CallerProgress
=============================================================================
