--------------------------- MODULE ResumableSteps ---------------------------
(***************************************************************************)
(* What an installer made of named steps promises, whatever happens to the  *)
(* processes that run it and to the ledger they share:                      *)
(*   - the steps are performed in the order of the flow;                    *)
(*   - the ledger names a beginning of the flow, never a step that was not  *)
(*     performed (it may lag behind, and it may lose everything it held);   *)
(*   - an installation reports success only when every step was performed.  *)
(* v2/skbloom/steps.py and v2/skwire/stages.py make this promise.           *)
(***************************************************************************)
EXTENDS Naturals, Sequences

CONSTANT Flow       \* the names of the steps, in order

VARIABLES
    performed,  \* how many steps of the flow were performed at least once
    ledger,     \* how many the ledger names
    complete    \* the last run to end reported success

vars == <<performed, ledger, complete>>

Init == performed = 0 /\ ledger = 0 /\ complete = FALSE

Perform ==
    /\ performed < Len(Flow)
    /\ performed' = performed + 1
    /\ UNCHANGED <<ledger, complete>>

\* A save, by a process that may be behind the others, or a loss.
Save ==
    /\ ledger' \in 0 .. performed
    /\ UNCHANGED <<performed, complete>>

Begin == complete' = FALSE /\ UNCHANGED <<performed, ledger>>

Report ==
    /\ performed = Len(Flow)
    /\ complete' = TRUE
    /\ UNCHANGED <<performed, ledger>>

Next == Perform \/ Save \/ Begin \/ Report

Spec == Init /\ [][Next]_vars
=============================================================================
