------------------------------ MODULE MCSleep ------------------------------
(***************************************************************************)
(* What processes sleep for: timers (Timer) and keys (Stdin).  The two     *)
(* share no state, so a behaviour of both is an interleaving of one of     *)
(* each; part says which one a behaviour shows.                            *)
(***************************************************************************)
EXTENDS Timer, Stdin, TLC

CONSTANTS p1, p2, p3

VARIABLE part

ASSUME KeyBounds == StdinAssumption

MCInit == part \in {"timer", "keys"} /\ Init /\ stdin_device_init

MCNext == \/ part = "timer" /\ Next /\ UNCHANGED <<part, keyVars>>
          \/ part = "keys" /\ KeysNext /\ UNCHANGED <<part, vars>>

MCSpec == MCInit /\ [][MCNext]_<<part, vars, keyVars>>

Symmetric == Permutations(Proc)
=============================================================================
