----------------------------- MODULE MCCompasso -----------------------------
(***************************************************************************)
(* Instances of Compasso for TLC.                                          *)
(***************************************************************************)
EXTENDS Compasso, TLC

\* Exchanges are interchangeable.
Exchanges == Permutations(Slot)

\* Bound: the clicks come when the agent has stored its first document, and what the
\* person does is explored apart from what the network does.
ClicksAfterPolicy == (control.rev > 1 => localPolicy.rev = 1) /\ (moves = 0 \/ faults = 0)
=============================================================================
