--------------------------- MODULE RestoreDialog ----------------------------
(***************************************************************************)
(* What the restore section of the web demo promises its visitor: a        *)
(* verdict answers the restore that was started and the nodes that are     *)
(* down, and a change to the nodes takes the verdict away.                 *)
(***************************************************************************)
EXTENDS Integers

CONSTANTS Nodes,        \* node ids
          Survivable    \* the down-sets that leave every chunk a replica

VARIABLES down, verdict \* "idle", "running", "done" or "failed"

vars == <<down, verdict>>

Init == down = {} /\ verdict = "idle"

Change == /\ down' \in SUBSET Nodes
          /\ verdict' = "idle"

Begin == /\ verdict # "running"
         /\ verdict' = "running"
         /\ UNCHANGED down

End == /\ verdict = "running"
       /\ verdict' = IF down \in Survivable THEN "done" ELSE "failed"
       /\ UNCHANGED down

Next == Change \/ Begin \/ End

\* A restore that is left alone comes to its verdict.
Spec == Init /\ [][Next]_vars /\ WF_vars(End)
=============================================================================
