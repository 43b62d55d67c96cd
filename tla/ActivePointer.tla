---------------------------- MODULE ActivePointer ----------------------------
(***************************************************************************)
(* What installation promises about active.json, whatever is interrupted:  *)
(* one generation is current; it changes in a single step, to a generation *)
(* that was never current before, and only once the previous change has    *)
(* been completed (its environment observed and its record COMMITTED).     *)
(* Generations are numbered; 0 stands for "none".                          *)
(***************************************************************************)
EXTENDS Naturals

CONSTANT Generations    \* a set of positive numbers

VARIABLES
    current,    \* the generation active.json names
    settled,    \* its installation is complete
    used        \* generations that are or were current

apVars == <<current, settled, used>>

APInit == current = 0 /\ settled = TRUE /\ used = {}

Switch(g) ==
    /\ settled /\ g \notin used
    /\ current' = g
    /\ settled' = FALSE
    /\ used' = used \cup {g}

Settle ==
    /\ ~settled
    /\ settled' = TRUE
    /\ UNCHANGED <<current, used>>

APNext == Settle \/ \E g \in Generations : Switch(g)

APSpec == APInit /\ [][APNext]_apVars
=============================================================================
