------------------------------ MODULE MCDaemon ------------------------------
(***************************************************************************)
(* Instances of Daemon for TLC: a week of two days of four units.          *)
(***************************************************************************)
EXTENDS Daemon, TLC

Weekly == 0 :> 2 @@ 1 :> 1

On(days, start, end) == [days |-> days, start |-> start, end |-> end, enabled |-> TRUE]

\* No routine, and a night that ends on the next day.
Nights == { {}, {On({0}, 3, 1)} }

\* A whole day, saved with the hour at which the parent happened to set it.
WholeDay == { {On({1}, 2, 2)} }

NoRoutines == { {} }

\* Bound: a failed call of the store, a new document, a bonus, a pause and a session
\* that is switched away are explored apart, and failing unlocks without the first three.
OneOfAKind ==
  LET stored == failures + (rules.rev - 1) + MapThenSumSet(LAMBDA d : bonus[d], Date)
      paused == control = "paused"
      away   == desk # None /\ ~ desk.active
  IN /\ stored <= 1 /\ (stored = 0 \/ since.unlocked)
     /\ paused => stored = 0 /\ ~ away
     /\ away => stored = 0
=============================================================================
