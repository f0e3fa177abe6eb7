-------------------------- MODULE RestoreContract --------------------------
(***************************************************************************)
(* What distribute.Restore promises its caller, whatever its goroutines do *)
(* inside: nothing is written while chunks are still being fetched, a      *)
(* restore that gives up in that phase leaves no file behind, files then   *)
(* appear in manifest order, and success means all of them.                *)
(***************************************************************************)
EXTENDS Naturals

CONSTANT FileCount

VARIABLES phase,     \* "fetching", "writing", "ok" or "failed"
          written    \* how many files are in the output tree

vars == <<phase, written>>

Init == phase = "fetching" /\ written = 0

GiveUp == /\ phase = "fetching"
          /\ phase' = "failed"
          /\ UNCHANGED written

AllVerified == /\ phase = "fetching"
               /\ phase' = "writing"
               /\ UNCHANGED written

WriteNext == /\ phase = "writing"
             /\ written < FileCount
             /\ written' = written + 1
             /\ UNCHANGED phase

WriteFails == /\ phase = "writing"
              /\ written < FileCount
              /\ phase' = "failed"
              /\ UNCHANGED written

Succeed == /\ phase = "writing"
           /\ written = FileCount
           /\ phase' = "ok"
           /\ UNCHANGED written

Next == GiveUp \/ AllVerified \/ WriteNext \/ WriteFails \/ Succeed

\* The caller gets an answer.
Spec == Init /\ [][Next]_vars /\ WF_vars(Next)
=============================================================================
