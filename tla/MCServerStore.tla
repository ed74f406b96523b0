--------------------------- MODULE MCServerStore ---------------------------
(***************************************************************************)
(* The instance of ServerStore for TLC.                                    *)
(***************************************************************************)
EXTENDS ServerStore, TLC

\* A device that knows nothing yet or that has the second revision of everything,
\* with any date, counter and session and at most one event and one receipt.
SomeReports ==
  { [policyRev |-> p, controlRev |-> p, stateRev |-> p, wantState |-> FALSE, day |-> d,
     used |-> u, session |-> x, locked |-> FALSE, events |-> e, acks |-> a] :
      p \in {0, 2}, d \in Day, u \in 0..1, x \in Session,
      e \in {{}} \cup {{f} : f \in Event}, a \in {{}} \cup {{c} : c \in Op} }

\* Bound: a second edit, such as the removal of the routine that the first one saved, is
\* explored apart from the commands.
EditsOrCommands == policyRev <= 2 \/ \A c \in Op : command[c] = "unused"

\* Dates are interchangeable: the server never orders them.
Dates == Permutations(Day)
=============================================================================
