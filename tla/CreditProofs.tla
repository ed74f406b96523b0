---------------------------- MODULE CreditProofs ----------------------------
(***************************************************************************)
(* What the promise of Credit comes to, for any bonuses and dates: whoever *)
(* implements it books every bonus for good, a bonus of the computer on    *)
(* the same date on both sides, and settles none that a side lacks.        *)
(***************************************************************************)
EXTENDS Credit, TLAPS

\* What is booked was granted, and what is settled is booked on both sides.
SettledIsBooked ==
  /\ \A b \in Bonus : computer[b] # None \/ server[b] # None => b \in granted
  /\ \A b \in settled : b \in Bonus /\ computer[b] # None /\ server[b] # None

\* A bonus of the computer counts for one date.
SameDate == \A b \in LocalBonus : server[b] # None => server[b] = computer[b]

\* A step that books, moves or forgets nothing that was booked or settled.
KeepsBookings ==
  /\ \A b \in Bonus : computer[b] # None => computer'[b] = computer[b]
  /\ \A b \in Bonus : server[b] # None => server'[b] = server[b]
  /\ granted \subseteq granted' /\ settled \subseteq settled'

BookedForGood == [][KeepsBookings]_vars

CreditInv ==
  /\ computer \in [Bonus -> Day \cup {None}] /\ server \in [Bonus -> Day \cup {None}]
  /\ SettledIsBooked
  /\ SameDate

-----------------------------------------------------------------------------

LEMMA CreditInit == Init => CreditInv
  BY DEF Init, CreditInv, SettledIsBooked, SameDate, Bonus

LEMMA GrantOnPageKeeps ==
  ASSUME CreditInv, NEW b \in Bonus, GrantOnPage(b)
  PROVE  CreditInv' /\ KeepsBookings
  BY DEF CreditInv, SettledIsBooked, SameDate, KeepsBookings, GrantOnPage

\* A bonus that nobody granted is booked nowhere, so that its grant overwrites nothing.
LEMMA GrantAtComputerKeeps ==
  ASSUME CreditInv, NEW b \in Bonus, GrantAtComputer(b)
  PROVE  CreditInv' /\ KeepsBookings
<1>1. PICK d \in Day : computer' = [computer EXCEPT ![b] = d] BY DEF GrantAtComputer
<1>2. b \in LocalBonus /\ b \notin granted /\ granted' = granted \cup {b}
      /\ server' = server /\ settled' = settled
  BY DEF GrantAtComputer
<1>3. computer[b] = None /\ server[b] = None BY <1>2 DEF CreditInv, SettledIsBooked
<1>4. \A c \in Bonus : c # b => computer'[c] = computer[c] BY <1>1 DEF CreditInv
<1>5. KeepsBookings BY <1>2, <1>3, <1>4 DEF KeepsBookings
<1>6. computer' \in [Bonus -> Day \cup {None}] BY <1>1 DEF CreditInv
<1>7. SettledIsBooked' BY <1>2, <1>3, <1>4 DEF CreditInv, SettledIsBooked
<1>8. SameDate' BY <1>2, <1>3, <1>4 DEF CreditInv, SameDate, Bonus
<1>9. QED BY <1>2, <1>5, <1>6, <1>7, <1>8 DEF CreditInv

LEMMA BookAtComputerKeeps ==
  ASSUME CreditInv, NEW b \in Bonus, BookAtComputer(b)
  PROVE  CreditInv' /\ KeepsBookings
<1>1. PICK d \in Day : computer' = [computer EXCEPT ![b] = d] BY DEF BookAtComputer
<1>2. b \in granted /\ computer[b] = None /\ granted' = granted /\ server' = server
      /\ settled' = settled
  BY DEF BookAtComputer
<1>3. \A c \in Bonus : c # b => computer'[c] = computer[c] BY <1>1 DEF CreditInv
<1>4. KeepsBookings BY <1>2, <1>3 DEF KeepsBookings
<1>5. computer' \in [Bonus -> Day \cup {None}] BY <1>1 DEF CreditInv
<1>6. SettledIsBooked' BY <1>2, <1>3 DEF CreditInv, SettledIsBooked
<1>7. SameDate' BY <1>2, <1>3 DEF CreditInv, SameDate, Bonus
<1>8. QED BY <1>2, <1>4, <1>5, <1>6, <1>7 DEF CreditInv

LEMMA ReceiveKeeps == ASSUME CreditInv, Receive PROVE CreditInv' /\ KeepsBookings
<1>1. /\ server' \in [Bonus -> Day \cup {None}] /\ granted' = granted /\ computer' = computer
      /\ \A b \in Bonus : server'[b] # server[b] =>
           b \in granted /\ server[b] = None /\ (b \in LocalBonus => server'[b] = computer[b])
  BY DEF Receive
<1>2. PICK known \in SUBSET (RemoteBonus \ settled) :
        /\ \A b \in known : computer[b] # None /\ server'[b] # None
        /\ settled' = settled \cup known
  BY DEF Receive
<1>3. KeepsBookings BY <1>1, <1>2 DEF KeepsBookings
<1>4. SettledIsBooked' BY <1>1, <1>2 DEF CreditInv, SettledIsBooked, Bonus
<1>5. SameDate' BY <1>1 DEF CreditInv, SameDate, Bonus
<1>6. QED BY <1>1, <1>3, <1>4, <1>5 DEF CreditInv

LEMMA AcknowledgeKeeps ==
  ASSUME CreditInv, NEW b \in Bonus, Acknowledge(b)
  PROVE  CreditInv' /\ KeepsBookings
  BY DEF CreditInv, SettledIsBooked, SameDate, KeepsBookings, Acknowledge, Bonus

LEMMA CreditStep == CreditInv /\ [Next]_vars => CreditInv' /\ [KeepsBookings]_vars
<1> SUFFICES ASSUME CreditInv, [Next]_vars PROVE CreditInv' /\ [KeepsBookings]_vars
  OBVIOUS
<1>1. CASE UNCHANGED vars
  BY <1>1 DEF vars, CreditInv, SettledIsBooked, SameDate
<1>2. CASE Receive BY <1>2, ReceiveKeeps
<1>3. ASSUME NEW b \in Bonus,
             GrantOnPage(b) \/ GrantAtComputer(b) \/ BookAtComputer(b) \/ Acknowledge(b)
      PROVE  CreditInv' /\ KeepsBookings
  BY <1>3, GrantOnPageKeeps, GrantAtComputerKeeps, BookAtComputerKeeps, AcknowledgeKeeps
<1>4. QED BY <1>1, <1>2, <1>3 DEF Next

\* Booked bonuses were granted, settled ones are booked on both sides, and a bonus that was
\* granted at the computer counts there and on the server for one date.
THEOREM CreditInvariant == Spec => []CreditInv
  BY CreditInit, CreditStep, PTL DEF Spec

\* No step moves a bonus to another date, takes it back or asks for it again.
THEOREM BookingsStay == Spec => BookedForGood
  BY CreditInit, CreditStep, PTL DEF Spec, BookedForGood

=============================================================================
