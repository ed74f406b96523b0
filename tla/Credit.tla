------------------------------- MODULE Credit -------------------------------
(***************************************************************************)
(* What the system promises about granted time, whatever is lost, repeated *)
(* or restarted in between: a bonus is granted once, each side books it at *)
(* most once and never books it again or elsewhere, and the side that      *)
(* granted it stops asking only when both have it.                         *)
(*                                                                         *)
(* There are no messages here.  Compasso implements this specification.    *)
(***************************************************************************)
CONSTANTS
  RemoteBonus,   \* granted on the web page
  LocalBonus,    \* granted at the computer
  Day,           \* dates for which a bonus may count
  None           \* not booked

Bonus == RemoteBonus \cup LocalBonus

VARIABLES
  granted,    \* bonuses that somebody granted
  computer,   \* the date each bonus counts for on the computer
  server,     \* and on the server
  settled     \* bonuses whose grantor knows that the other side has them

vars == <<granted, computer, server, settled>>

Init ==
  /\ granted = {} /\ settled = {}
  /\ computer = [b \in Bonus |-> None]
  /\ server = [b \in Bonus |-> None]

\* A bonus of the page has no date yet: each side books it when it hears of it.
GrantOnPage(b) ==
  /\ b \in RemoteBonus \ granted
  /\ granted' = granted \cup {b}
  /\ UNCHANGED <<computer, server, settled>>

GrantAtComputer(b) ==
  /\ b \in LocalBonus \ granted
  /\ granted' = granted \cup {b}
  /\ \E d \in Day : computer' = [computer EXCEPT ![b] = d]
  /\ UNCHANGED <<server, settled>>

BookAtComputer(b) ==
  /\ b \in granted \cap RemoteBonus
  /\ computer[b] = None
  /\ \E d \in Day : computer' = [computer EXCEPT ![b] = d]
  /\ UNCHANGED <<granted, server, settled>>

\* One heartbeat may book several bonuses and settle those of the page; a
\* bonus of the computer counts for the date on which it was granted.
Receive ==
  /\ server' \in [Bonus -> Day \cup {None}]
  /\ \A b \in Bonus : server'[b] # server[b] =>
       b \in granted /\ server[b] = None /\ (b \in LocalBonus => server'[b] = computer[b])
  /\ \E known \in SUBSET (RemoteBonus \ settled) :
       /\ \A b \in known : computer[b] # None /\ server'[b] # None
       /\ settled' = settled \cup known
  /\ UNCHANGED <<granted, computer>>

\* The computer learns that the server has a bonus.
Acknowledge(b) ==
  /\ b \in LocalBonus \ settled
  /\ server[b] # None
  /\ settled' = settled \cup {b}
  /\ UNCHANGED <<granted, computer, server>>

Next ==
  \/ \E b \in Bonus : GrantOnPage(b) \/ GrantAtComputer(b) \/ BookAtComputer(b) \/ Acknowledge(b)
  \/ Receive

Spec == Init /\ [][Next]_vars
=============================================================================
