----------------------------- MODULE AcquireMC -----------------------------
(***************************************************************************)
(* Acquire for TLC, and what the documentation says of it that the code    *)
(* does not do.                                                            *)
(***************************************************************************)
EXTENDS Acquire, TLC

\* Two processes started with the same configuration are interchangeable.
ProcSymmetry == Permutations(Procs)

\* "make stop-switch  # creates data/STOP; all registration attempts halt"
\* (README.en.md:325): no further attempt is begun while the file exists.
StopHaltsAttempts ==
    [][\A p \in Procs : call'[p].attempt > call[p].attempt => ~stop]_vars
=============================================================================
