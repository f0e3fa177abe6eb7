----------------------------- MODULE RestoreView -----------------------------
(***************************************************************************)
(* The restore section of the web demo: useVault's node state, shared with *)
(* one mutable cluster, and FailureRestore's animation, which walks a      *)
(* restore plan with browser timers.                                       *)
(*                                                                         *)
(* shown is the React state of the last render: what handlers and queries  *)
(* close over.  queued is that state with the updates queued since then    *)
(* applied, in order, as the next render will.  A handler, a timer         *)
(* callback and an effect run to the end, one at a time.  Of React the     *)
(* module assumes what its documentation states: updates are rendered      *)
(* together and in order, at some later time, and the effects of a render  *)
(* run after it and before the next one.                                   *)
(***************************************************************************)
EXTENDS SimCluster, FiniteSets, Functions

CONSTANTS Unique,   \* uniqueHashes: the sorted chunk hashes of snapshot v2
          Store     \* the engine's store: hash -> bytes

ASSUME UniqueAssumption == /\ Unique \in Seq(Hash)
                           /\ \A i, j \in DOMAIN Unique :
                                Unique[i] = Unique[j] => i = j

ASSUME StoreAssumption == \A i \in DOMAIN Unique : Unique[i] \in DOMAIN Store

VARIABLES shown,      \* [down, phase, rows] as last rendered
          queued,     \* the same with the queued updates applied
          newDown,    \* setDown was called since the last render
          effectDue,  \* the effect on vault.down has yet to run
          up,         \* Cluster.up, written by sync
          timers      \* what timers.current holds and has not fired

vars == <<shown, queued, newDown, effectDue, up, timers>>

Total == Len(Unique)

PARALLEL == 4

\* The cluster after buildModel, which distributes v2 once and for all.
data == distribute(NoData, Store, {Unique[i] : i \in 1 .. Total})

\* sync: the cluster's flags as the down-set of the last render has them.
sync(down) == [id \in Ids |-> id \notin down]

-----------------------------------------------------------------------------
(* The plan, its rows and its timers.                                      *)

Phase == {"idle", "running", "done", "failed"}

plan(flags) == planRestore(flags, data, Unique)

AllAvailable(flags) == \A i \in 1 .. Total : plan(flags)[i].available

Row(p, s) == [hash |-> p.hash, node |-> p.node,
              available |-> p.available, state |-> s]

Outcome(p) == IF p.available THEN "verified" ELSE "unavailable"

\* The delay of fetch i: lanes start 30 ms apart, waves one step. 
FetchDelay(reduce, i) ==
  IF reduce THEN 0
  ELSE ((i - 1) \div PARALLEL) * 150 + ((i - 1) % PARALLEL) * 30

\* Mutation of SettleDelay: rounds the number of waves down, without slack.
SettleDelay_Floor(reduce) ==
  IF reduce THEN 0 ELSE (Total \div PARALLEL) * 150

SettleDelay(reduce) ==
  IF reduce THEN 0 ELSE ((Total + PARALLEL - 1) \div PARALLEL) * 150 + 200

\* Mutation of TimersOf: the restore fails only if no chunk at all is available.
TimersOf_FailsIfNone(reduce, flags) ==
  {[at |-> FetchDelay(reduce, i), seq |-> i, sets |-> Outcome(plan(flags)[i])] :
     i \in 1 .. Total}
  \cup
  {[at |-> SettleDelay(reduce), seq |-> Total + 1,
    sets |-> IF \E i \in 1 .. Total : plan(flags)[i].available
             THEN "done" ELSE "failed"]}

\* One timer per fetch and a last one for the verdict; seq is their order of
\* creation.
TimersOf(reduce, flags) ==
  {[at |-> FetchDelay(reduce, i), seq |-> i, sets |-> Outcome(plan(flags)[i])] :
     i \in 1 .. Total}
  \cup
  {[at |-> SettleDelay(reduce), seq |-> Total + 1,
    sets |-> IF AllAvailable(flags) THEN "done" ELSE "failed"]}

\* The browser fires timers by due time, and equal ones as they were created.
Earliest(t) == \A u \in timers : t.at < u.at \/ (t.at = u.at /\ t.seq <= u.seq)

\* setRows(prev => ...): a spread copy with entry i replaced.  Beyond the end
\* of prev there is nothing to spread, and the entry has a state only.
Answered(rows, i, s) ==
  [j \in DOMAIN rows \cup {i} |->
     IF j # i THEN rows[j]
     ELSE IF i \in DOMAIN rows THEN [rows[i] EXCEPT !.state = s]
     ELSE [state |-> s]]

-----------------------------------------------------------------------------
Init ==
  /\ shown = [down |-> {}, phase |-> "idle", rows |-> <<>>]
  /\ queued = shown
  /\ newDown = FALSE
  /\ effectDue = TRUE
  /\ up = AllUp
  /\ timers = {}

toggled(down, id) == IF id \in down THEN down \ {id} ELSE down \cup {id}

\* A click on a node's button.
toggleNode(id) ==
  /\ queued' = [queued EXCEPT !.down = toggled(@, id)]
  /\ newDown' = TRUE
  /\ UNCHANGED <<shown, effectDue, up, timers>>

\* Recover all: a new Set, hence a change for React even when none was down.
recoverAll ==
  /\ queued' = [queued EXCEPT !.down = {}]
  /\ newDown' = TRUE
  /\ UNCHANGED <<shown, effectDue, up, timers>>

\* The restore button is disabled while it reads "Restoring...".
restoreEnabled == shown.phase # "running"

\* A click on the restore button.
\* reduce is the visitor's reduced-motion preference.
runRestore(reduce) ==
  /\ restoreEnabled
  /\ LET flags == sync(shown.down)
     IN  /\ up' = flags
         /\ queued' = [queued EXCEPT
              !.phase = "running",
              !.rows = [i \in 1 .. Total |-> Row(plan(flags)[i], "pending")]]
         /\ timers' = TimersOf(reduce, flags)
  /\ UNCHANGED <<shown, newDown, effectDue>>

\* The browser calls back the timer that is due first.
TimerFires ==
  \E t \in timers :
    /\ Earliest(t)
    /\ timers' = timers \ {t}
    /\ queued' = IF t.seq <= Total
                 THEN [queued EXCEPT !.rows = Answered(@, t.seq, t.sets)]
                 ELSE [queued EXCEPT !.phase = t.sets]
    /\ UNCHANGED <<shown, newDown, effectDue, up>>

\* Mutation of Render: the effect depends on nothing and runs on mount only.
Render_NoEffect ==
  /\ ~effectDue
  /\ newDown \/ queued # shown
  /\ shown' = queued
  /\ up' = sync(queued.down)
  /\ newDown' = FALSE
  /\ UNCHANGED <<queued, effectDue, timers>>

\* React renders what is queued.  Rendering asks for the nodes' chunk counts
\* and the reachable chunks, which syncs the cluster with the new down-set.
Render ==
  /\ ~effectDue
  /\ newDown \/ queued # shown
  /\ shown' = queued
  /\ up' = sync(queued.down)
  /\ effectDue' = newDown
  /\ newDown' = FALSE
  /\ UNCHANGED <<queued, timers>>

\* Mutation of ResetEffect: the timers are not cleared.
ResetEffect_KeepsTimers ==
  /\ effectDue
  /\ queued' = [queued EXCEPT !.phase = "idle", !.rows = <<>>]
  /\ effectDue' = FALSE
  /\ UNCHANGED <<shown, newDown, up, timers>>

\* Mutation of ResetEffect: the phase is not reset.
ResetEffect_KeepsPhase ==
  /\ effectDue
  /\ timers' = {}
  /\ queued' = [queued EXCEPT !.rows = <<>>]
  /\ effectDue' = FALSE
  /\ UNCHANGED <<shown, newDown, up>>

\* The effect on vault.down, on the first render and on every change.
ResetEffect ==
  /\ effectDue
  /\ timers' = {}
  /\ queued' = [queued EXCEPT !.phase = "idle", !.rows = <<>>]
  /\ effectDue' = FALSE
  /\ UNCHANGED <<shown, newDown, up>>

Next ==
  \/ \E id \in Ids : toggleNode(id)
  \/ recoverAll
  \/ \E reduce \in BOOLEAN : runRestore(reduce)
  \/ TimerFires
  \/ Render
  \/ ResetEffect

\* The event loop runs due timers, renders and effects.
Fairness == WF_vars(TimerFires) /\ WF_vars(Render) /\ WF_vars(ResetEffect)

Spec == Init /\ [][Next]_vars /\ Fairness

-----------------------------------------------------------------------------
(* What the section displays, from the last render.                        *)

chunksUp == {i \in 1 .. Total : chunkAvailable(up, data, Unique[i])}

\* "chunk(s) have lost every replica: restore will fail cleanly".
lostWarning == chunksUp # 1 .. Total

verified == {i \in DOMAIN shown.rows : shown.rows[i].state = "verified"}

\* "(integrity confirmed)".  That the engine then rebuilds the tree of v2 is
\* RestoreReturnsTheTree of SimVault.
restoreValid == AllAvailable(sync(shown.down))

\* "Node failure survived. All chunks fetched from surviving replicas".
survivedBanner == shown.phase = "done"

\* "Restore aborted cleanly: at least one chunk lost every replica".
abortedBanner == shown.phase = "failed"

\* "fetched from node n, hash verified".
fetchedFrom(n) == {i \in verified : shown.rows[i].node = n}

\* "Nodes up".
nodesUp == NODES - Cardinality(shown.down)

\* "all replicas down: chunk unavailable".
crossed == {i \in DOMAIN shown.rows : shown.rows[i].state = "unavailable"}

-----------------------------------------------------------------------------
(* What the section before it displays: where the chunks are.              *)

\* The number on a node's tile and on its button.
nodeChunkCount(id) == Cardinality(DOMAIN data[id])

\* The tiles marked "(holds selected)" while chunk h is selected.
holdsSelected(h) == {id \in Ids : id \in placement(h)}

\* "Chunk copies".
chunkCopies == Total * REPLICAS

-----------------------------------------------------------------------------
(* Properties.                                                             *)

PlannedRow == [hash : Hash, node : Ids \cup {-1}, available : BOOLEAN,
               state : {"pending", "verified", "unavailable"}]

\* An empty log, or a row for every chunk.
Log == {<<>>} \cup [1 .. Total -> PlannedRow]

View == [down : SUBSET Ids, phase : Phase, rows : Log]

Timer == [at : Nat, seq : 1 .. Total + 1,
          sets : {"verified", "unavailable", "done", "failed"}]

\* The values of the variables.  In particular every row of the log is whole,
\* in every render: no timer of an earlier run answers a row of an emptied or
\* newer log (a row without hash makes HashChip throw, and the page go blank).
TypeOK ==
  /\ shown \in View
  /\ queued \in View
  /\ newDown \in BOOLEAN
  /\ effectDue \in BOOLEAN
  /\ up \in [Ids -> BOOLEAN]
  /\ timers \subseteq Timer

\* Nothing is under way that will replace what is displayed.
Settled == ~effectDue /\ ~newDown /\ queued = shown

\* A displayed verdict is right for the nodes that are displayed as down: under
\* "survived" every chunk's row is ticked, no chunk has lost every replica and
\* the integrity check agrees; under "aborted" the warning about lost chunks is
\* displayed too and some row is crossed out.
VerdictIsTrue ==
  Settled =>
    /\ survivedBanner => verified = 1 .. Total /\ ~lostWarning /\ restoreValid
    /\ abortedBanner => crossed # {} /\ lostWarning /\ ~restoreValid

\* The log speaks of the displayed nodes: a ticked row names the node that would
\* serve the chunk now, which is up and marked when the chunk is selected; a
\* crossed row has a chunk whose replicas are all on down nodes; and with as many
\* nodes down as the page says each chunk "can survive", none is lost.
LogMatchesCluster ==
  Settled =>
    /\ \A i \in DOMAIN shown.rows : shown.rows[i].hash = Unique[i]
    /\ \A i \in verified :
         \E n \in holdsSelected(Unique[i]) \ shown.down :
           i \in fetchedFrom(n) /\ n = get(up, data, Unique[i])
    /\ \A i \in crossed : holdsSelected(Unique[i]) \subseteq shown.down
    /\ nodesUp > NODES - REPLICAS => ~lostWarning

\* The tiles are right whichever chunk is selected: those marked have the chunk
\* and no other has, each chunk "has REPLICAS copies", and the numbers on the tiles
\* add up to the copies.
TilesAreTrue ==
  /\ \A i \in 1 .. Total :
       LET marked == holdsSelected(Unique[i])
       IN  /\ marked = {id \in Ids : Unique[i] \in DOMAIN data[id]}
           /\ Cardinality(marked) = REPLICAS
  /\ SumFunction([id \in Ids |-> nodeChunkCount(id)]) = chunkCopies

\* The verdict is the last word: no row is still being fetched when it is given
\* and no timer is left to change the log under it.
VerdictComesLast ==
  queued.phase \in {"done", "failed"} =>
    /\ timers = {}
    /\ \A i \in DOMAIN queued.rows : queued.rows[i].state # "pending"

\* useVault's two copies of the node state agree: the cluster that handlers and
\* queries consult has the down-set of the last render.
ClusterFollowsDown == up = sync(shown.down)

\* "Node failure survived" does not stay over a cluster that has since lost a
\* chunk, whatever the visitor clicks.
StaleVerdictGoes ==
  survivedBanner /\ ~restoreValid ~> ~(survivedBanner /\ ~restoreValid)

\* The section implements RestoreDialog.  A queued change of nodes, or its reset
\* effect, already counts as having taken the verdict away.
Dialog == INSTANCE RestoreDialog WITH
  Nodes      <- Ids,
  Survivable <- {d \in SUBSET Ids : AllAvailable(sync(d))},
  down       <- queued.down,
  verdict    <- IF newDown \/ effectDue THEN "idle" ELSE queued.phase

ImplementsDialog == Dialog!Spec
=============================================================================
