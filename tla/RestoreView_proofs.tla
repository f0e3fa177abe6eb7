------------------------- MODULE RestoreView_proofs -------------------------
(***************************************************************************)
(* Theorems about RestoreView, for every number of nodes, every            *)
(* replication factor, every list of chunks and every hash function.       *)
(***************************************************************************)
EXTENDS RestoreView, Numbers_proofs, FiniteSetTheorems, TLAPS

-----------------------------------------------------------------------------
(***************************************************************************)
(* The cluster the section is built over.                                  *)
(***************************************************************************)
LEMMA TotalIsLen ==
  /\ Total \in Nat
  /\ DOMAIN Unique = 1 .. Total
  /\ \A i \in 1 .. Total : Unique[i] \in Hash
BY UniqueAssumption DEF Total

\* Cluster.placement: REPLICAS distinct nodes.
LEMMA PlacementIsReplicas ==
  ASSUME NEW h \in Hash
  PROVE  /\ placement(h) \subseteq Ids
         /\ IsFiniteSet(placement(h))
         /\ Cardinality(placement(h)) = REPLICAS
<1>1. NODES \in Nat /\ REPLICAS \in 1 .. NODES /\ Fnv[h] \in Nat
  BY SizeAssumption, FnvAssumption
<1> QED BY <1>1, RingPlaces DEF placement, Ids

\* buildModel puts every chunk of v2 on the nodes of its placement set.
LEMMA DataIsPlaced ==
  ASSUME NEW i \in 1 .. Total, NEW id \in Ids
  PROVE  Unique[i] \in DOMAIN data[id] <=> id \in placement(Unique[i])
<1> DEFINE hashes == {Unique[j] : j \in 1 .. Total}
           sent == {h \in hashes : id \in placement(h)}
<1>1. DOMAIN NoData[id] = {}
  BY DEF NoData
<1>2. DOMAIN data[id] = DOMAIN NoData[id] \cup sent
  BY DEF data, distribute
<1> QED BY <1>1, <1>2

\* What get, chunkAvailable and the plan say of chunk i while exactly the nodes
\* of d are down: it is available if a node of its placement set is not in d, and
\* then the node planned for it is such a node.
LEMMA PlanFacts ==
  ASSUME NEW d \in SUBSET Ids, NEW i \in 1 .. Total
  PROVE  LET p == plan(sync(d))[i]
         IN  /\ p.hash = Unique[i]
             /\ p.node = get(sync(d), data, Unique[i])
             /\ p.node \in Ids \cup {-1}
             /\ p.available \in BOOLEAN
             /\ p.available <=> placement(Unique[i]) \ d # {}
             /\ p.available => p.node \in placement(Unique[i]) \ d
             /\ chunkAvailable(sync(d), data, Unique[i]) <=> placement(Unique[i]) \ d # {}
<1> DEFINE h == Unique[i]
           replicas == {id \in placement(h) : sync(d)[id] /\ h \in DOMAIN data[id]}
<1>1. h \in Hash /\ placement(h) \subseteq Ids /\ Ids \subseteq Nat
  BY TotalIsLen, PlacementIsReplicas, SizeAssumption DEF Ids
<1>2. replicas = placement(h) \ d
  BY <1>1, DataIsPlaced DEF sync
<1>3. get(sync(d), data, h) = IF replicas = {} THEN -1 ELSE Least(replicas)
  BY DEF get
<1>4. chunkAvailable(sync(d), data, h) <=> replicas # {}
  BY DEF chunkAvailable
<1> HIDE DEF replicas
<1>5. replicas # {} => Least(replicas) \in replicas
  BY <1>1, <1>2, LeastIn
<1> DEFINE node == get(sync(d), data, h)
           p == plan(sync(d))[i]
<1>6. p = [hash |-> h, node |-> node, available |-> node # -1]
  BY TotalIsLen DEF plan, planRestore
<1>7. p.hash = h /\ p.node = node /\ p.available = (node # -1)
  BY <1>6
<1>8. /\ node \in Ids \cup {-1}
      /\ node # -1 <=> replicas # {}
      /\ replicas # {} => node \in replicas
  <2>1. -1 \notin Ids
    BY <1>1
  <2>2. replicas \subseteq Ids
    BY <1>1, <1>2
  <2> HIDE DEF node, h
  <2>3. node = IF replicas = {} THEN -1 ELSE Least(replicas)
    BY <1>3 DEF node
  <2> QED BY <1>5, <2>1, <2>2, <2>3
<1>9. p.available \in BOOLEAN /\ (p.available <=> node # -1)
  BY <1>7
<1> HIDE DEF p, node
<1>10. /\ p.node \in Ids \cup {-1}
       /\ p.available <=> placement(h) \ d # {}
       /\ p.available => p.node \in placement(h) \ d
       /\ chunkAvailable(sync(d), data, h) <=> placement(h) \ d # {}
  BY <1>2, <1>4, <1>7, <1>8, <1>9
<1> QED BY <1>7, <1>9, <1>10 DEF p, node

-----------------------------------------------------------------------------
(***************************************************************************)
(* The inductive invariant.  What is queued belongs to one run of the      *)
(* restore, over the nodes that were down when it started, and those are   *)
(* the nodes displayed unless the reset effect is still to come.  Which    *)
(* rows of a run are pending is exactly which of its timers are left.      *)
(***************************************************************************)
Pending(i) == \E t \in timers : t.seq = i

RowsOf(d) ==
  [i \in 1 .. Total |->
     Row(plan(sync(d))[i], IF Pending(i) THEN "pending" ELSE Outcome(plan(sync(d))[i]))]

VerdictOf(d) == IF AllAvailable(sync(d)) THEN "done" ELSE "failed"

Idle == queued.phase = "idle" /\ queued.rows = <<>> /\ timers = {}

Running(d) ==
  /\ queued.phase = "running"
  /\ \E reduce \in BOOLEAN : timers \subseteq TimersOf(reduce, sync(d))
  /\ Pending(Total + 1)
  /\ queued.rows = RowsOf(d)

Ended(d) == queued.phase = VerdictOf(d) /\ timers = {} /\ queued.rows = RowsOf(d)

RunOf(d) == Idle \/ Running(d) \/ Ended(d)

RunInv == \E d \in SUBSET Ids : RunOf(d) /\ (effectDue \/ d = shown.down)

IInv ==
  /\ TypeOK
  /\ ClusterFollowsDown
  /\ newDown \/ queued.down = shown.down
  /\ RunInv

-----------------------------------------------------------------------------
(***************************************************************************)
(* Rows and timers.                                                        *)
(***************************************************************************)
LEMMA SyncType ==
  ASSUME NEW d
  PROVE  sync(d) \in [Ids -> BOOLEAN]
BY DEF sync

LEMMA RowType ==
  ASSUME NEW d \in SUBSET Ids, NEW i \in 1 .. Total,
         NEW s \in {"pending", "verified", "unavailable"}
  PROVE  Row(plan(sync(d))[i], s) \in PlannedRow
<1> DEFINE p == plan(sync(d))[i]
<1>1. p.hash \in Hash /\ p.node \in Ids \cup {-1} /\ p.available \in BOOLEAN
  BY PlanFacts, TotalIsLen
<1> HIDE DEF p
<1>2. Row(p, s) \in PlannedRow
  BY <1>1 DEF Row, PlannedRow
<1> QED BY <1>2 DEF p

\* The verdict's timer is due no earlier than any fetch's.
LEMMA DelayBounds ==
  ASSUME NEW reduce \in BOOLEAN, NEW i \in 1 .. Total
  PROVE  /\ FetchDelay(reduce, i) \in Nat
         /\ FetchDelay(reduce, i) <= SettleDelay(reduce)
<1>1. Total \in Nat
  BY TotalIsLen
<1> DEFINE a == (i - 1) \div 4
           b == (i - 1) % 4
           c == (Total + 4 - 1) \div 4
<1>2. a \in Nat /\ b \in 0 .. 3 /\ i - 1 = 4 * a + b
  BY <1>1
<1>3. c \in Nat /\ 4 * c >= Total
  BY <1>1
<1>4. FetchDelay(reduce, i) = (IF reduce THEN 0 ELSE a * 150 + b * 30)
  BY DEF FetchDelay, PARALLEL
<1>5. SettleDelay(reduce) = (IF reduce THEN 0 ELSE c * 150 + 200)
  BY DEF SettleDelay, PARALLEL
<1> HIDE DEF a, b, c
<1>6. a <= c
  BY <1>1, <1>2, <1>3
<1> QED BY <1>2, <1>3, <1>4, <1>5, <1>6

LEMMA SettleType ==
  ASSUME NEW reduce \in BOOLEAN
  PROVE  SettleDelay(reduce) \in Nat
BY TotalIsLen DEF SettleDelay, PARALLEL

\* One timer per row and one for the verdict, which no row's timer outlasts.
LEMMA TimerFacts ==
  ASSUME NEW d \in SUBSET Ids, NEW reduce \in BOOLEAN
  PROVE  LET T == TimersOf(reduce, sync(d))
         IN  /\ T \subseteq Timer
             /\ \A t \in T : t.seq \in 1 .. Total =>
                             t.sets = Outcome(plan(sync(d))[t.seq])
             /\ \A t \in T : t.seq = Total + 1 => t.sets = VerdictOf(d)
             /\ \A t, u \in T : t.seq = u.seq => t = u
             /\ \A t, u \in T : t.seq = Total + 1 => u.at <= t.at
             /\ \A i \in 1 .. Total + 1 : \E t \in T : t.seq = i
<1> DEFINE T == TimersOf(reduce, sync(d))
           fetch(i) == [at |-> FetchDelay(reduce, i), seq |-> i,
                        sets |-> Outcome(plan(sync(d))[i])]
           settle == [at |-> SettleDelay(reduce), seq |-> Total + 1,
                      sets |-> VerdictOf(d)]
<1>1. T = {fetch(i) : i \in 1 .. Total} \cup {settle}
  BY DEF TimersOf, VerdictOf
<1>2. \A i \in 1 .. Total : /\ fetch(i).at = FetchDelay(reduce, i)
                            /\ fetch(i).seq = i
                            /\ fetch(i).sets = Outcome(plan(sync(d))[i])
  OBVIOUS
<1>3. /\ settle.at = SettleDelay(reduce)
      /\ settle.seq = Total + 1
      /\ settle.sets = VerdictOf(d)
  OBVIOUS
<1>4. Total \in Nat
  BY TotalIsLen
<1>5. \A i \in 1 .. Total : fetch(i) \in Timer
  BY <1>4, DelayBounds DEF Timer, Outcome
<1>6. settle \in Timer
  BY <1>4, SettleType DEF Timer, VerdictOf
<1> HIDE DEF T, fetch, settle
<1>7. ASSUME NEW t \in T
      PROVE  \/ \E i \in 1 .. Total : t = fetch(i)
             \/ t = settle
  BY <1>1
<1>8. T \subseteq Timer
  BY <1>5, <1>6, <1>7
<1>9. \A t \in T : t.seq \in 1 .. Total => t.sets = Outcome(plan(sync(d))[t.seq])
  BY <1>2, <1>3, <1>4, <1>7
<1>10. \A t \in T : t.seq = Total + 1 => t = settle
  BY <1>2, <1>4, <1>7
<1>11. \A t, u \in T : t.seq = u.seq => t = u
  BY <1>2, <1>3, <1>4, <1>7
<1>12. \A u \in T : u.at <= settle.at
  <2>1. settle.at <= settle.at
    BY <1>3, SettleType
  <2>2. \A i \in 1 .. Total : fetch(i).at <= settle.at
    BY <1>2, <1>3, DelayBounds
  <2> QED BY <1>7, <2>1, <2>2
<1>13. \A i \in 1 .. Total + 1 : \E t \in T : t.seq = i
  <2>1. \A i \in 1 .. Total + 1 : i \in 1 .. Total \/ i = Total + 1
    BY <1>4
  <2>2. settle \in T /\ \A i \in 1 .. Total : fetch(i) \in T
    BY <1>1
  <2> QED BY <1>2, <1>3, <2>1, <2>2
<1>14. \A t, u \in T : t.seq = Total + 1 => u.at <= t.at
  BY <1>10, <1>12
<1>15. \A t \in T : t.seq = Total + 1 => t.sets = VerdictOf(d)
  BY <1>3, <1>10
<1> QED BY <1>8, <1>9, <1>11, <1>13, <1>14, <1>15 DEF T

-----------------------------------------------------------------------------
(***************************************************************************)
(* The invariant is inductive.                                             *)
(***************************************************************************)
LEMMA InitIInv == Init => IInv
<1> SUFFICES ASSUME Init
             PROVE  IInv
  OBVIOUS
<1> USE DEF Init
<1>1. shown \in View /\ queued \in View
  BY DEF View, Phase, Log
<1>2. ClusterFollowsDown
  BY DEF ClusterFollowsDown, sync, AllUp
<1>3. TypeOK
  BY <1>1, <1>2, SyncType DEF TypeOK, ClusterFollowsDown
<1>4. RunInv
  BY DEF RunInv, RunOf, Idle
<1> QED BY <1>2, <1>3, <1>4 DEF IInv

\* A change of the down-set leaves the run as it is.
LEMMA ChangeIInv ==
  ASSUME IInv, NEW d \in SUBSET Ids,
         queued' = [queued EXCEPT !.down = d],
         newDown' = TRUE,
         UNCHANGED <<shown, effectDue, up, timers>>
  PROVE  IInv'
<1>1. queued \in View /\ shown \in View
  BY DEF IInv, TypeOK
<1>2. /\ queued' \in View
      /\ queued'.phase = queued.phase
      /\ queued'.rows = queued.rows
  BY <1>1 DEF View
<1>3. TypeOK'
  BY <1>2 DEF IInv, TypeOK
<1>4. ClusterFollowsDown'
  BY DEF IInv, ClusterFollowsDown
<1>5. RunInv'
  <2>1. PICK e \in SUBSET Ids : RunOf(e) /\ (effectDue \/ e = shown.down)
    BY DEF IInv, RunInv
  <2>2. RowsOf(e)' = RowsOf(e) /\ (Pending(Total + 1)' <=> Pending(Total + 1))
    BY DEF RowsOf, Pending
  <2>3. RunOf(e)'
    BY <1>2, <2>1, <2>2 DEF RunOf, Idle, Running, Ended
  <2> QED BY <2>1, <2>3 DEF RunInv
<1> QED BY <1>3, <1>4, <1>5 DEF IInv

LEMMA ToggleIInv ==
  ASSUME IInv, NEW id \in Ids, toggleNode(id)
  PROVE  IInv'
<1>1. queued.down \in SUBSET Ids
  BY DEF IInv, TypeOK, View
<1>2. toggled(queued.down, id) \in SUBSET Ids
  BY <1>1 DEF toggled
<1>3. queued' = [queued EXCEPT !.down = toggled(queued.down, id)]
  BY DEF toggleNode
<1> QED BY <1>2, <1>3, ChangeIInv DEF toggleNode

LEMMA RecoverIInv == IInv /\ recoverAll => IInv'
<1> SUFFICES ASSUME IInv, recoverAll
             PROVE  IInv'
  OBVIOUS
<1>1. {} \in SUBSET Ids
  OBVIOUS
<1> QED BY <1>1, ChangeIInv DEF recoverAll

LEMMA RunRestoreIInv ==
  ASSUME IInv, NEW reduce \in BOOLEAN, runRestore(reduce)
  PROVE  IInv'
<1> DEFINE d == shown.down
           T == TimersOf(reduce, sync(d))
<1>1. queued \in View /\ shown \in View /\ d \in SUBSET Ids
  BY DEF IInv, TypeOK, View
<1>2. timers' = T /\ up' = sync(d) /\ UNCHANGED <<shown, newDown, effectDue>>
  BY DEF runRestore
<1>3. \A i \in 1 .. Total + 1 : Pending(i)'
  BY <1>1, <1>2, TimerFacts DEF Pending
<1>4. RowsOf(d)' = [i \in 1 .. Total |-> Row(plan(sync(d))[i], "pending")]
  <2>1. \A i \in 1 .. Total : i \in 1 .. Total + 1
    BY TotalIsLen
  <2> QED BY <1>2, <1>3, <2>1 DEF RowsOf
<1>5. queued' = [queued EXCEPT !.phase = "running", !.rows = RowsOf(d)']
  BY <1>4 DEF runRestore
<1>6. RowsOf(d)' \in Log
  <2>1. \A i \in 1 .. Total : Row(plan(sync(d))[i], "pending") \in PlannedRow
    BY <1>1, RowType
  <2> QED BY <1>4, <2>1 DEF Log
<1>7. /\ queued' \in View
      /\ queued'.phase = "running"
      /\ queued'.rows = RowsOf(d)'
      /\ queued'.down = queued.down
  <2> HIDE DEF d
  <2> QED BY <1>1, <1>5, <1>6 DEF View, Phase
<1>8. TypeOK'
  <2>1. T \subseteq Timer
    BY <1>1, TimerFacts
  <2> QED BY <1>1, <1>2, <1>7, <2>1, SyncType DEF IInv, TypeOK
<1>9. ClusterFollowsDown'
  BY <1>2 DEF ClusterFollowsDown
<1>10. RunInv'
  <2>1. Total + 1 \in 1 .. Total + 1
    BY TotalIsLen
  <2>2. Running(d)'
    BY <1>2, <1>3, <1>7, <2>1 DEF Running
  <2> QED BY <1>1, <1>2, <2>2 DEF RunInv, RunOf
<1> QED BY <1>2, <1>7, <1>8, <1>9, <1>10 DEF IInv

LEMMA RenderIInv == IInv /\ Render => IInv'
<1> SUFFICES ASSUME IInv, Render
             PROVE  IInv'
  OBVIOUS
<1>1. queued \in View /\ shown \in View
  BY DEF IInv, TypeOK
<1>2. /\ shown' = queued /\ UNCHANGED <<queued, timers>>
      /\ up' = sync(queued.down)
      /\ effectDue' = newDown /\ newDown' = FALSE /\ ~effectDue
  BY DEF Render
<1>3. TypeOK'
  BY <1>1, <1>2, SyncType DEF IInv, TypeOK
<1>4. ClusterFollowsDown'
  BY <1>2 DEF ClusterFollowsDown
<1>5. RunInv'
  <2>1. PICK d \in SUBSET Ids : RunOf(d) /\ d = shown.down
    BY <1>2 DEF IInv, RunInv
  <2>2. RowsOf(d)' = RowsOf(d) /\ (Pending(Total + 1)' <=> Pending(Total + 1))
    BY <1>2, <2>1 DEF RowsOf, Pending
  <2>3. RunOf(d)'
    BY <1>2, <2>1, <2>2 DEF RunOf, Idle, Running, Ended
  <2>4. newDown \/ d = queued.down
    BY <2>1 DEF IInv
  <2> QED BY <1>2, <2>3, <2>4 DEF RunInv
<1> QED BY <1>2, <1>3, <1>4, <1>5 DEF IInv

LEMMA ResetIInv == IInv /\ ResetEffect => IInv'
<1> SUFFICES ASSUME IInv, ResetEffect
             PROVE  IInv'
  OBVIOUS
<1>1. queued \in View /\ shown \in View
  BY DEF IInv, TypeOK
<1>2. /\ queued' \in View
      /\ queued'.phase = "idle"
      /\ queued'.rows = <<>>
      /\ queued'.down = queued.down
  BY <1>1 DEF ResetEffect, View, Phase, Log
<1>3. timers' = {} /\ UNCHANGED <<shown, newDown, up>>
  BY DEF ResetEffect
<1>4. TypeOK'
  BY <1>2, <1>3 DEF IInv, TypeOK, ResetEffect
<1>5. ClusterFollowsDown'
  BY <1>3 DEF IInv, ClusterFollowsDown
<1>6. RunInv'
  <2>1. shown'.down \in SUBSET Ids
    BY <1>1, <1>3 DEF View
  <2> QED BY <1>2, <1>3, <2>1 DEF RunInv, RunOf, Idle
<1> QED BY <1>2, <1>3, <1>4, <1>5, <1>6 DEF IInv

\* What a timer does to a run: a fetch answers its row, and the verdict's timer
\* finds that it is the last.
LEMMA TimerFiresRun ==
  ASSUME IInv, NEW t \in timers, Earliest(t), timers' = timers \ {t},
         queued' = IF t.seq <= Total
                   THEN [queued EXCEPT !.rows = Answered(@, t.seq, t.sets)]
                   ELSE [queued EXCEPT !.phase = t.sets],
         NEW d \in SUBSET Ids, RunOf(d)
  PROVE  /\ queued' \in View
         /\ queued'.down = queued.down
         /\ queued.phase = "running"
         /\ \/ Running(d)' /\ t.seq <= Total
            \/ Ended(d)' /\ ~(t.seq <= Total)
<1>1. queued \in View /\ Total \in Nat
  BY TotalIsLen DEF IInv, TypeOK
<1>2. Running(d)
  BY DEF RunOf, Idle, Ended
<1>3. PICK reduce \in BOOLEAN : timers \subseteq TimersOf(reduce, sync(d))
  BY <1>2 DEF Running
<1> DEFINE T == TimersOf(reduce, sync(d))
<1>4. /\ timers \subseteq T
      /\ T \subseteq Timer
      /\ \A u \in T : u.seq \in 1 .. Total => u.sets = Outcome(plan(sync(d))[u.seq])
      /\ \A u \in T : u.seq = Total + 1 => u.sets = VerdictOf(d)
      /\ \A u, v \in T : u.seq = v.seq => u = v
      /\ \A u, v \in T : u.seq = Total + 1 => v.at <= u.at
  BY <1>3, TimerFacts
<1> HIDE DEF T
<1>5. t \in Timer /\ t \in T /\ t.seq \in 1 .. Total + 1
  BY <1>4 DEF Timer
<1>6. \A i : Pending(i)' <=> Pending(i) /\ i # t.seq
  BY <1>4, <1>5 DEF Pending
<1>7. queued.rows = RowsOf(d) /\ queued.phase = "running" /\ Pending(Total + 1)
  BY <1>2 DEF Running
<1>8. CASE t.seq <= Total
  <2> DEFINE i == t.seq
             p == plan(sync(d))[i]
  <2>1. i \in 1 .. Total /\ t.sets = Outcome(p)
    BY <1>1, <1>4, <1>5, <1>8
  <2>2. Pending(i)
    BY DEF Pending
  <2>3. Answered(RowsOf(d), i, t.sets) = RowsOf(d)'
    <3>1. DOMAIN RowsOf(d) = 1 .. Total /\ DOMAIN RowsOf(d)' = 1 .. Total
      BY DEF RowsOf
    <3>2. DOMAIN RowsOf(d) \cup {i} = 1 .. Total
      BY <2>1, <3>1
    <3>3. RowsOf(d)[i] = Row(p, "pending") /\ RowsOf(d)'[i] = Row(p, Outcome(p))
      BY <1>6, <2>1, <2>2 DEF RowsOf
    <3>4. [RowsOf(d)[i] EXCEPT !.state = t.sets] = RowsOf(d)'[i]
      BY <2>1, <3>3 DEF Row
    <3>5. \A j \in 1 .. Total : j # i => RowsOf(d)[j] = RowsOf(d)'[j]
      BY <1>6 DEF RowsOf
    <3>6. RowsOf(d)' = [j \in 1 .. Total |-> RowsOf(d)'[j]]
      BY DEF RowsOf
    <3> DEFINE rows == RowsOf(d)
               next == RowsOf(d)'
    <3>7. Answered(rows, i, t.sets) =
            [j \in 1 .. Total |-> IF j # i THEN rows[j]
                                  ELSE [rows[i] EXCEPT !.state = t.sets]]
      BY <2>1, <3>1, <3>2 DEF Answered
    <3> HIDE DEF rows, next
    <3>8. \A j \in 1 .. Total :
            (IF j # i THEN rows[j] ELSE [rows[i] EXCEPT !.state = t.sets]) = next[j]
      BY <3>4, <3>5 DEF rows, next
    <3>9. Answered(rows, i, t.sets) = next
      BY <3>6, <3>7, <3>8 DEF next
    <3> QED BY <3>9 DEF rows, next
  <2>4. queued' = [queued EXCEPT !.rows = RowsOf(d)']
    BY <1>7, <1>8, <2>3
  <2>5. RowsOf(d)' \in Log
    <3>1. ASSUME NEW j \in 1 .. Total PROVE RowsOf(d)'[j] \in PlannedRow
      <4> DEFINE s == IF Pending(j)' THEN "pending" ELSE Outcome(plan(sync(d))[j])
      <4>1. RowsOf(d)'[j] = Row(plan(sync(d))[j], s)
        BY DEF RowsOf
      <4>2. s \in {"pending", "verified", "unavailable"}
        BY DEF Outcome
      <4> HIDE DEF s
      <4> QED BY <4>1, <4>2, RowType
    <3>2. RowsOf(d)' = [j \in 1 .. Total |-> RowsOf(d)'[j]]
      BY DEF RowsOf
    <3> QED BY <3>1, <3>2 DEF Log
  <2>6. /\ queued' \in View
        /\ queued'.phase = "running"
        /\ queued'.rows = RowsOf(d)'
        /\ queued'.down = queued.down
    BY <1>1, <1>7, <2>4, <2>5 DEF View
  <2>7. Running(d)'
    <3>1. timers' \subseteq TimersOf(reduce, sync(d))
      BY <1>3
    <3>2. Pending(Total + 1)'
      BY <1>1, <1>6, <1>7, <1>8, <1>5
    <3> QED BY <2>6, <3>1, <3>2 DEF Running
  <2> QED BY <1>7, <1>8, <2>6, <2>7
<1>9. CASE ~(t.seq <= Total)
  <2>1. t.seq = Total + 1
    BY <1>1, <1>5, <1>9
  <2>2. ASSUME NEW u \in timers PROVE u = t
    <3>1. u \in T /\ u \in Timer /\ u.at <= t.at
      BY <1>4, <1>5, <2>1
    <3>2. u.at \in Nat /\ t.at \in Nat /\ u.seq \in 1 .. Total + 1
      BY <1>5, <3>1 DEF Timer
    <3>3. t.at < u.at \/ (t.at = u.at /\ t.seq <= u.seq)
      BY DEF Earliest
    <3>4. u.seq = t.seq
      BY <1>1, <2>1, <3>1, <3>2, <3>3
    <3> QED BY <1>4, <1>5, <3>1, <3>4
  <2>3. timers' = {}
    BY <2>2
  <2>4. RowsOf(d)' = RowsOf(d)
    <3>1. \A i \in 1 .. Total : Pending(i)' <=> Pending(i)
      BY <1>1, <1>6, <2>1
    <3> QED BY <3>1 DEF RowsOf
  <2>5. /\ queued' = [queued EXCEPT !.phase = VerdictOf(d)]
        /\ VerdictOf(d) \in Phase
    BY <1>4, <1>5, <1>9, <2>1 DEF VerdictOf, Phase
  <2>6. /\ queued' \in View
        /\ queued'.phase = VerdictOf(d)
        /\ queued'.rows = queued.rows
        /\ queued'.down = queued.down
    BY <1>1, <2>5 DEF View
  <2>7. Ended(d)'
    <3>1. VerdictOf(d)' = VerdictOf(d)
      BY DEF VerdictOf
    <3> QED BY <1>7, <2>3, <2>4, <2>6, <3>1 DEF Ended
  <2> QED BY <1>7, <1>9, <2>6, <2>7
<1> QED BY <1>8, <1>9

LEMMA TimerFiresIInv == IInv /\ TimerFires => IInv'
<1> SUFFICES ASSUME IInv, TimerFires
             PROVE  IInv'
  OBVIOUS
<1>1. PICK t \in timers :
        /\ Earliest(t)
        /\ timers' = timers \ {t}
        /\ queued' = IF t.seq <= Total
                     THEN [queued EXCEPT !.rows = Answered(@, t.seq, t.sets)]
                     ELSE [queued EXCEPT !.phase = t.sets]
        /\ UNCHANGED <<shown, newDown, effectDue, up>>
  BY DEF TimerFires
<1>2. PICK d \in SUBSET Ids : RunOf(d) /\ (effectDue \/ d = shown.down)
  BY DEF IInv, RunInv
<1>3. /\ queued' \in View
      /\ queued'.down = queued.down
      /\ Running(d)' \/ Ended(d)'
  BY <1>1, <1>2, TimerFiresRun
<1>4. TypeOK' /\ ClusterFollowsDown'
  BY <1>1, <1>3 DEF IInv, TypeOK, ClusterFollowsDown
<1>5. RunInv'
  BY <1>1, <1>2, <1>3 DEF RunInv, RunOf
<1> QED BY <1>1, <1>3, <1>4, <1>5 DEF IInv

LEMMA NextIInv == IInv /\ [Next]_vars => IInv'
<1> SUFFICES ASSUME IInv, [Next]_vars
             PROVE  IInv'
  OBVIOUS
<1>1. ASSUME NEW id \in Ids, toggleNode(id) PROVE IInv'
  BY <1>1, ToggleIInv
<1>2. CASE recoverAll
  BY <1>2, RecoverIInv
<1>3. ASSUME NEW reduce \in BOOLEAN, runRestore(reduce) PROVE IInv'
  BY <1>3, RunRestoreIInv
<1>4. CASE TimerFires
  BY <1>4, TimerFiresIInv
<1>5. CASE Render
  BY <1>5, RenderIInv
<1>6. CASE ResetEffect
  BY <1>6, ResetIInv
<1>7. CASE UNCHANGED vars
  <2>1. UNCHANGED <<shown, queued, newDown, effectDue, up, timers>>
    BY <1>7 DEF vars
  <2>2. TypeOK' /\ ClusterFollowsDown' /\ (newDown \/ queued.down = shown.down)'
    BY <2>1 DEF IInv, TypeOK, ClusterFollowsDown
  <2>3. RunInv'
    BY <2>1 DEF IInv, RunInv, RunOf, Idle, Running, Ended, RowsOf, Pending, VerdictOf
  <2> QED BY <2>2, <2>3 DEF IInv
<1> QED BY <1>1, <1>2, <1>3, <1>4, <1>5, <1>6, <1>7 DEF Next

\* The inductive invariant of the restore section: what is queued belongs to one
\* run, with the rows and the verdict it still owes.
THEOREM InvariantHolds == Spec => []IInv
BY InitIInv, NextIInv, PTL DEF Spec

-----------------------------------------------------------------------------
(***************************************************************************)
(* Theorems.                                                               *)
(***************************************************************************)

\* The log is always empty or whole: no timer answers a row that is not there.
THEOREM TypeCorrect == Spec => []TypeOK
BY InvariantHolds, PTL DEF IInv

\* useVault's two copies of the node state agree after every handler, render,
\* effect and timer.
THEOREM CopiesAgree == Spec => []ClusterFollowsDown
BY InvariantHolds, PTL DEF IInv

LEMMA IInvComesLast == IInv => VerdictComesLast
<1> SUFFICES ASSUME IInv, queued.phase \in {"done", "failed"}
             PROVE  /\ timers = {}
                    /\ \A i \in DOMAIN queued.rows : queued.rows[i].state # "pending"
  BY DEF VerdictComesLast
<1>1. PICK d \in SUBSET Ids : Ended(d)
  BY DEF IInv, RunInv, RunOf, Idle, Running
<1>2. timers = {} /\ queued.rows = RowsOf(d)
  BY <1>1 DEF Ended
<1>3. \A i \in 1 .. Total : queued.rows[i] = Row(plan(sync(d))[i], Outcome(plan(sync(d))[i]))
  BY <1>2 DEF RowsOf, Pending
<1>4. DOMAIN queued.rows = 1 .. Total
  BY <1>2 DEF RowsOf
<1>5. \A p : Row(p, Outcome(p)).state # "pending"
  BY DEF Row, Outcome
<1> QED BY <1>2, <1>3, <1>4, <1>5

\* The verdict is given once every fetch is over, for any number of chunks and
\* with or without reduced motion.
THEOREM VerdictIsTheLastWord == Spec => []VerdictComesLast
BY InvariantHolds, IInvComesLast, PTL

\* What is displayed once settled is a run over the displayed nodes.
LEMMA SettledRun ==
  ASSUME IInv, Settled
  PROVE  /\ shown = queued
         /\ shown.down \in SUBSET Ids
         /\ up = sync(shown.down)
         /\ RunOf(shown.down)
<1>1. shown.down \in SUBSET Ids
  BY DEF IInv, TypeOK, View
<1> QED BY <1>1 DEF IInv, RunInv, Settled, ClusterFollowsDown

LEMMA IInvVerdictIsTrue == IInv => VerdictIsTrue
<1> SUFFICES ASSUME IInv, Settled
             PROVE  /\ survivedBanner => verified = 1 .. Total /\ ~lostWarning /\ restoreValid
                    /\ abortedBanner => crossed # {} /\ lostWarning /\ ~restoreValid
  BY DEF VerdictIsTrue
<1> DEFINE d == shown.down
           p(i) == plan(sync(d))[i]
<1>1. d \in SUBSET Ids /\ up = sync(d) /\ shown = queued /\ RunOf(d)
  BY SettledRun
<1>2. survivedBanner => Ended(d) /\ VerdictOf(d) = "done"
  BY <1>1 DEF survivedBanner, RunOf, Idle, Running, Ended
<1>3. abortedBanner => Ended(d) /\ VerdictOf(d) = "failed"
  BY <1>1 DEF abortedBanner, RunOf, Idle, Running, Ended
<1>4. restoreValid <=> VerdictOf(d) = "done"
  BY DEF restoreValid, VerdictOf
<1>5. restoreValid <=> \A i \in 1 .. Total : p(i).available
  BY DEF restoreValid, AllAvailable
<1>6. lostWarning <=> ~restoreValid
  <2>1. \A i \in 1 .. Total : chunkAvailable(up, data, Unique[i]) <=> p(i).available
    BY <1>1, PlanFacts
  <2> HIDE DEF p, d
  <2> QED BY <1>5, <2>1 DEF lostWarning, chunksUp
<1>7. ASSUME Ended(d)
      PROVE  /\ DOMAIN shown.rows = 1 .. Total
             /\ \A i \in 1 .. Total : shown.rows[i].state = Outcome(p(i))
  <2>1. shown.rows = [i \in 1 .. Total |-> Row(p(i), Outcome(p(i)))]
    BY <1>1, <1>7 DEF Ended, RowsOf, Pending
  <2>2. \A q : Row(q, Outcome(q)).state = Outcome(q)
    BY DEF Row
  <2> QED BY <2>1, <2>2
<1>8. ASSUME survivedBanner PROVE verified = 1 .. Total
  <2>1. \A i \in 1 .. Total : Outcome(p(i)) = "verified"
    BY <1>2, <1>4, <1>5, <1>8 DEF Outcome
  <2> HIDE DEF p, d
  <2> QED BY <1>2, <1>7, <1>8, <2>1 DEF verified
<1>9. ASSUME abortedBanner PROVE crossed # {}
  <2>1. \E i \in 1 .. Total : Outcome(p(i)) = "unavailable"
    BY <1>3, <1>4, <1>5, <1>9 DEF Outcome
  <2> HIDE DEF p, d
  <2> QED BY <1>3, <1>7, <1>9, <2>1 DEF crossed
<1> HIDE DEF d
<1> QED BY <1>2, <1>3, <1>4, <1>6, <1>8, <1>9

\* The banner agrees with the rows, with the warning about lost chunks and with
\* the integrity check, for the nodes displayed as down.
THEOREM BannerIsTrue == Spec => []VerdictIsTrue
BY InvariantHolds, IInvVerdictIsTrue, PTL

\* With fewer nodes down than a chunk has copies, every chunk is available.
LEMMA FewDownLoseNothing ==
  ASSUME NEW d \in SUBSET Ids, NODES - Cardinality(d) > NODES - REPLICAS,
         NEW i \in 1 .. Total
  PROVE  placement(Unique[i]) \ d # {}
<1> DEFINE P == placement(Unique[i])
<1>1. IsFiniteSet(P) /\ Cardinality(P) = REPLICAS
  BY TotalIsLen, PlacementIsReplicas
<1>2. IsFiniteSet(d)
  <2>1. IsFiniteSet(Ids)
    BY SizeAssumption, FS_Interval DEF Ids
  <2> QED BY <2>1, FS_Subset
<1>3. ASSUME P \subseteq d PROVE FALSE
  <2>1. Cardinality(P) <= Cardinality(d)
    BY <1>2, <1>3, FS_Subset
  <2>2. Cardinality(d) \in Nat
    BY <1>2, FS_CardinalityType
  <2> QED BY <1>1, <2>1, <2>2, SizeAssumption
<1> QED BY <1>3

LEMMA IInvLogMatches == IInv => LogMatchesCluster
<1> DEFINE d == shown.down
           p(i) == plan(sync(d))[i]
<1> SUFFICES ASSUME IInv, Settled
             PROVE  /\ \A i \in DOMAIN shown.rows : shown.rows[i].hash = Unique[i]
                    /\ \A i \in verified :
                         \E n \in holdsSelected(Unique[i]) \ d :
                           i \in fetchedFrom(n) /\ n = get(up, data, Unique[i])
                    /\ \A i \in crossed : holdsSelected(Unique[i]) \subseteq d
                    /\ nodesUp > NODES - REPLICAS => ~lostWarning
  BY DEF LogMatchesCluster
<1>1. d \in SUBSET Ids /\ up = sync(d) /\ shown = queued /\ RunOf(d)
  BY SettledRun
<1>2. \/ shown.rows = <<>>
      \/ shown.rows = RowsOf(d)
  BY <1>1 DEF RunOf, Idle, Running, Ended
<1>3. ASSUME NEW i \in DOMAIN shown.rows
      PROVE  /\ i \in 1 .. Total
             /\ shown.rows[i].hash = p(i).hash
             /\ shown.rows[i].node = p(i).node
             /\ shown.rows[i].state = "verified" => p(i).available
             /\ shown.rows[i].state = "unavailable" => ~p(i).available
  <2> DEFINE s == IF Pending(i) THEN "pending" ELSE Outcome(p(i))
  <2>1. shown.rows = RowsOf(d)
    BY <1>2, <1>3
  <2>2. i \in 1 .. Total /\ shown.rows[i] = Row(p(i), s)
    BY <1>3, <2>1 DEF RowsOf
  <2>3. \A q, v : Row(q, v).hash = q.hash /\ Row(q, v).node = q.node /\ Row(q, v).state = v
    BY DEF Row
  <2>4. /\ s = "verified" => p(i).available
        /\ s = "unavailable" => ~p(i).available
    BY DEF Outcome
  <2> HIDE DEF p, s
  <2> QED BY <2>2, <2>3, <2>4
<1>4. ASSUME NEW i \in 1 .. Total
      PROVE  /\ p(i).hash = Unique[i]
             /\ p(i).node = get(up, data, Unique[i])
             /\ p(i).available <=> placement(Unique[i]) \ d # {}
             /\ p(i).available => p(i).node \in placement(Unique[i]) \ d
             /\ chunkAvailable(up, data, Unique[i]) <=> placement(Unique[i]) \ d # {}
             /\ holdsSelected(Unique[i]) = placement(Unique[i])
  <2>1. placement(Unique[i]) \subseteq Ids
    BY TotalIsLen, PlacementIsReplicas
  <2> QED BY <1>1, <2>1, PlanFacts DEF holdsSelected
<1> HIDE DEF p
<1>5. \A i \in DOMAIN shown.rows : shown.rows[i].hash = Unique[i]
  BY <1>3, <1>4
<1>6. ASSUME NEW i \in verified
      PROVE  \E n \in holdsSelected(Unique[i]) \ d :
               i \in fetchedFrom(n) /\ n = get(up, data, Unique[i])
  <2>1. i \in DOMAIN shown.rows /\ shown.rows[i].state = "verified"
    BY DEF verified
  <2>2. /\ p(i).node \in holdsSelected(Unique[i]) \ d
        /\ shown.rows[i].node = p(i).node
        /\ p(i).node = get(up, data, Unique[i])
    BY <1>3, <1>4, <2>1
  <2> QED BY <2>2 DEF fetchedFrom
<1>7. ASSUME NEW i \in crossed PROVE holdsSelected(Unique[i]) \subseteq d
  BY <1>3, <1>4 DEF crossed
<1>8. ASSUME nodesUp > NODES - REPLICAS PROVE ~lostWarning
  <2>1. \A i \in 1 .. Total : placement(Unique[i]) \ d # {}
    BY <1>1, <1>8, FewDownLoseNothing DEF nodesUp
  <2> QED BY <1>4, <2>1 DEF lostWarning, chunksUp
<1> QED BY <1>5, <1>6, <1>7, <1>8

\* Every ticked row names the up node that serves the chunk, every crossed row a
\* chunk without one, and REPLICAS - 1 nodes down never lose a chunk.
THEOREM LogIsTrue == Spec => []LogMatchesCluster
BY InvariantHolds, IInvLogMatches, PTL

-----------------------------------------------------------------------------
(***************************************************************************)
(* The section takes no step that RestoreDialog does not allow.            *)
(***************************************************************************)
Shown == IF newDown \/ effectDue THEN "idle" ELSE queued.phase

LEMMA DialogInit == Init => Dialog!Init
BY DEF Init, Dialog!Init

\* Flipping a node is a change of nodes, which hides the verdict.
LEMMA ChangeIsChange ==
  ASSUME NEW d \in SUBSET Ids, queued \in View,
         queued' = [queued EXCEPT !.down = d], newDown' = TRUE
  PROVE  Dialog!Change
<1>1. queued'.down = d
  BY DEF View
<1> QED BY <1>1 DEF Dialog!Change

LEMMA DialogStep == IInv /\ [Next]_vars => [Dialog!Next]_(Dialog!vars)
<1> SUFFICES ASSUME IInv, [Next]_vars
             PROVE  Dialog!Next \/ UNCHANGED Dialog!vars
  OBVIOUS
<1> DEFINE quiet == queued'.down = queued.down /\ Shown' = Shown
<1>0. quiet => UNCHANGED Dialog!vars
  BY DEF Dialog!vars, Shown
<1>1. queued \in View /\ queued.down \in SUBSET Ids
  BY DEF IInv, TypeOK, View
<1>2. ASSUME NEW id \in Ids, toggleNode(id) PROVE Dialog!Next
  <2>1. toggled(queued.down, id) \in SUBSET Ids
    BY <1>1 DEF toggled
  <2> QED BY <1>1, <1>2, <2>1, ChangeIsChange DEF toggleNode, Dialog!Next
<1>3. CASE recoverAll
  <2>1. {} \in SUBSET Ids
    OBVIOUS
  <2> QED BY <1>1, <1>3, <2>1, ChangeIsChange DEF recoverAll, Dialog!Next
<1>4. ASSUME NEW reduce \in BOOLEAN, runRestore(reduce)
      PROVE  quiet \/ Dialog!Next
  <2>1. /\ queued'.down = queued.down /\ queued'.phase = "running"
        /\ UNCHANGED <<newDown, effectDue>>
    BY <1>1, <1>4 DEF runRestore, View
  <2>2. CASE Shown' = Shown
    BY <2>1, <2>2
  <2>3. CASE Shown' # Shown
    <3>1. ~(newDown \/ effectDue) /\ queued.phase # "running"
      BY <2>1, <2>3 DEF Shown
    <3>2. Dialog!Begin
      BY <2>1, <3>1 DEF Dialog!Begin
    <3> QED BY <3>2 DEF Dialog!Next
  <2> QED BY <2>2, <2>3
<1>5. CASE TimerFires
  <2>1. PICK t \in timers :
          /\ Earliest(t)
          /\ timers' = timers \ {t}
          /\ queued' = IF t.seq <= Total
                       THEN [queued EXCEPT !.rows = Answered(@, t.seq, t.sets)]
                       ELSE [queued EXCEPT !.phase = t.sets]
          /\ UNCHANGED <<shown, newDown, effectDue, up>>
    BY <1>5 DEF TimerFires
  <2>2. PICK d \in SUBSET Ids : RunOf(d) /\ (effectDue \/ d = shown.down)
    BY DEF IInv, RunInv
  <2>3. /\ queued'.down = queued.down
        /\ queued.phase = "running"
        /\ Running(d)' \/ Ended(d)'
    BY <2>1, <2>2, TimerFiresRun
  <2>4. CASE newDown \/ effectDue
    BY <1>0, <2>1, <2>3, <2>4 DEF Shown
  <2>5. CASE ~(newDown \/ effectDue) /\ Running(d)'
    <3>1. queued'.phase = "running"
      BY <2>5 DEF Running
    <3> QED BY <1>0, <2>1, <2>3, <2>5, <3>1 DEF Shown
  <2>6. CASE ~(newDown \/ effectDue) /\ Ended(d)'
    <3>1. d = queued.down
      BY <2>2, <2>6 DEF IInv
    <3>2. queued'.phase = VerdictOf(d)
      BY <2>6 DEF Ended, VerdictOf
    <3>3. d \in {e \in SUBSET Ids : AllAvailable(sync(e))} <=> AllAvailable(sync(d))
      OBVIOUS
    <3>4. Dialog!End
      BY <2>1, <2>3, <2>6, <3>1, <3>2, <3>3 DEF Dialog!End, VerdictOf
    <3> QED BY <3>4 DEF Dialog!Next
  <2> QED BY <2>3, <2>4, <2>5, <2>6
<1>6. CASE Render
  BY <1>0, <1>6 DEF Render, Shown
<1>7. CASE ResetEffect
  <2>1. queued'.down = queued.down /\ queued'.phase = "idle"
    BY <1>1, <1>7 DEF ResetEffect, View
  <2> QED BY <1>0, <1>7, <2>1 DEF ResetEffect, Shown
<1>8. CASE UNCHANGED vars
  BY <1>0, <1>8 DEF vars, Shown
<1> HIDE DEF quiet
<1>9. ASSUME Next PROVE quiet \/ Dialog!Next \/ UNCHANGED Dialog!vars
  BY <1>2, <1>3, <1>4, <1>5, <1>6, <1>7, <1>9 DEF Next, quiet
<1> QED BY <1>0, <1>8, <1>9 DEF quiet

\* The safety part of ImplementsDialog: a verdict ends a restore that was begun,
\* it is the right one for the nodes down, and a change to them takes it away.
THEOREM ImplementsDialogSteps == Spec => Dialog!Init /\ [][Dialog!Next]_(Dialog!vars)
<1>1. Spec => []IInv
  BY InvariantHolds
<1> QED BY <1>1, DialogInit, DialogStep, PTL DEF Spec
=============================================================================
