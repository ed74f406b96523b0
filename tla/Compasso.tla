------------------------------ MODULE Compasso ------------------------------
(***************************************************************************)
(* One device: its agent, the server's store and handlers, and the network *)
(* between them.  A heartbeat that its agent gives up on is not recalled:  *)
(* its handler may still run, over the newer data of a later heartbeat,    *)
(* and its answer is dropped.                                              *)
(***************************************************************************)
EXTENDS Integers, FiniteSets

CONSTANTS
  Slot, Day, Session, RemoteBonus, LocalBonus, ControlOp, Quota, Routines, MaxRevision,
  CleanupDue, None,     \* as in ServerStore
  Checkpoint, MaxUsage, \* as in Agent
  MaxFaults,            \* bound on timeouts and crashes of the agent
  MaxMoves              \* bound on what the person and the calendar do

VARIABLES
  policyRev, quota, routines, control, command, kind, ledger, usage, activity, device,
  stage, request, response,
  localPolicy, anchor, localUsage, event, localLedger, applied, effect, remote, seen,
  phase, sent, answer, step, view, tracker, last, overdue, day, session, locked,
  current,  \* the exchange that the agent is waiting for, or None
  faults,   \* timeouts and crashes so far
  moves     \* logins, logouts, screen locks and midnights so far

Op == RemoteBonus \cup ControlOp

\* The identifiers are apart, the numbers are numbers, and no quota is larger than
\* a day; None is not one of the values.
ASSUME SystemAssumption ==
  /\ IsFiniteSet(RemoteBonus \cup LocalBonus) /\ IsFiniteSet(Day)
  /\ Day \subseteq Nat /\ ControlOp \subseteq Nat /\ Quota \subseteq Nat
  /\ \E q \in Quota \cup {0} : \A p \in Quota : p <= q
  /\ RemoteBonus \cap LocalBonus = {} /\ ControlOp \cap (RemoteBonus \cup LocalBonus) = {}
  /\ MaxRevision \in Nat /\ CleanupDue \in BOOLEAN
  /\ Checkpoint \in Nat \ {0} /\ MaxUsage \in Nat
  /\ None \notin Day \cup Session \cup Routines \cup Slot

\* The environment of each part is the other one: no other reports, no other answers.
Server == INSTANCE ServerStore WITH Reports <- {}
Agent  == INSTANCE Agent WITH Answers <- {}

serverVars == <<policyRev, quota, routines, control, command, kind, ledger, usage, activity,
                device, stage, request, response>>
agentVars  == <<localPolicy, anchor, localUsage, event, localLedger, applied, effect, remote,
                seen, phase, sent, answer, step, view, tracker, last, overdue, day, session,
                locked>>
vars == <<serverVars, agentVars, current, faults, moves>>

Init ==
  /\ Server!Init /\ Agent!Init
  /\ current = None /\ faults = 0 /\ moves = 0

-----------------------------------------------------------------------------
SendHeartbeat(s) ==
  /\ Agent!Send
  /\ Server!Arrive(s, Agent!NextRequest)
  /\ current' = s
  /\ UNCHANGED <<faults, moves>>

\* What goes over the network: neither the revision that the transaction read nor
\* the quota from which the balance was computed.
AnswerOf(r) ==
  [control |-> r.control, hasPolicy |-> r.hasPolicy, policy |-> r.policy,
   hasState |-> r.hasState,
   state |-> [rev |-> r.state.rev, remaining |-> r.state.remaining, usage |-> r.state.usage],
   commands |-> r.commands]

\* The answer reaches the agent, and the exchange is over.
DeliverAnswer(s) ==
  /\ current = s /\ stage[s] = "answered"
  /\ Agent!Receive(AnswerOf(response[s]))
  /\ Server!Abandon(s)
  /\ current' = None
  /\ UNCHANGED <<faults, moves>>

\* The agent stops waiting; the request may have been lost or may live on.
Interrupted ==
  /\ faults < MaxFaults
  /\ faults' = faults + 1
  /\ current' = None
  /\ UNCHANGED moves
  /\ \/ UNCHANGED serverVars
     \/ current # None /\ Server!Abandon(current)

Timeout == Agent!Fail /\ Interrupted
Crash   == Agent!Crash /\ Interrupted

\* An exchange nobody waits for ends unnoticed.
DropOrphan(s) ==
  /\ current # s
  /\ Server!Abandon(s)
  /\ UNCHANGED <<agentVars, current, faults, moves>>

ServerStep(A) == A /\ UNCHANGED <<agentVars, current, faults, moves>>
AgentStep(A)  == A /\ UNCHANGED <<serverVars, current, faults, moves>>

Move ==
  /\ moves < MaxMoves
  /\ moves' = moves + 1
  /\ Agent!Environment
  /\ UNCHANGED <<serverVars, current, faults>>

ApplyAnswer ==
  \/ AgentStep(Agent!Apply)
  \/ \E c \in ControlOp : AgentStep(Agent!StageControlEffect(c, kind[c]))

Next ==
  \/ ServerStep(Server!Administer)
  \/ \E s \in Slot :
       \/ SendHeartbeat(s) \/ DeliverAnswer(s) \/ DropOrphan(s)
       \/ ServerStep(Server!Handle(s))
  \/ ApplyAnswer
  \/ AgentStep(Agent!Cycle) \/ AgentStep(Agent!AbortCycle)
  \/ \E b \in LocalBonus : AgentStep(Agent!AddBonusWithEvent(b))
  \/ Move
  \/ Timeout \/ Crash

Spec == Init /\ [][Next]_vars

-----------------------------------------------------------------------------
(* Properties *)

\* The server closes a bonus only when the computer holds it durably: an
\* acknowledgement is built from applied_command, written with the bonus row.
AckedBonusIsDurable ==
  \A b \in RemoteBonus : command[b] = "acked" => localLedger[b] # None

\* The two ledgers never hold different amounts of a local bonus: the server has
\* it on the day it was granted, and a bonus it does not have is still pending.
LocalBonusIsReportedOnce ==
  \A b \in LocalBonus :
    /\ ledger[b] # None => ledger[b] = localLedger[b]
    /\ localLedger[b] # None /\ ledger[b] = None => event[b] = "pending"

LocalBonusOf(d) == Cardinality({ b \in LocalBonus : localLedger[b] = d })
RemoteBonusOf(d) == Cardinality({ b \in RemoteBonus : ledger[b] = d })
MaxQuota == CHOOSE q \in Quota \cup {0} : \A p \in Quota : p <= q

\* Granted time is in the confirmed balance, once: a bonus given at the computer
\* while an answer is in flight is neither erased by that answer nor counted
\* both by it and by the pending event, whatever was repeated or timed out.
BalanceCountsLocalBonusOnce ==
  anchor # None =>
    LET base == MaxQuota + RemoteBonusOf(anchor.day) - anchor.usage IN
    /\ anchor.remaining >= LocalBonusOf(anchor.day) - anchor.usage
    /\ anchor.remaining <= Server!MaxOf(0, base) + LocalBonusOf(anchor.day)

\* A computer that reports the newest revision has the newest content, and the
\* page never shows as applied a revision that is not durable on the computer; no
\* revision of the computer is ahead of the server, which would refuse it for ever.
PolicyIsWhatWasReported ==
  /\ device.applied <= localPolicy.rev
  /\ localPolicy.rev <= policyRev /\ (anchor # None => anchor.rev <= policyRev)
  /\ localPolicy.rev = policyRev =>
       localPolicy.quota = quota /\ localPolicy.routines = routines /\ localPolicy.days = routines

\* The control state the agent enforces is one the administrator asked for, and
\* a staged effect is never that of an older click than the state it came with.
HeldControlIsDesired ==
  /\ remote.rev <= control.rev
  /\ remote.online /\ remote.rev = control.rev =>
       remote.paused = control.paused /\ remote.blocked = control.blocked
  /\ effect # None => effect.rev <= effect.id /\ effect.id <= control.rev

\* A bonus that the server has closed is in the balance of its day, once the
\* agent holds the newest anchor: agent/README.md says that the acknowledgement
\* means that the authorized balance is already durable.
AckedBonusIsInBalance ==
  \A b \in RemoteBonus :
    command[b] = "acked" /\ anchor # None /\ anchor.day = ledger[b] /\ anchor.rev = policyRev =>
      anchor.remaining >= LocalBonusOf(anchor.day) + 1 - anchor.usage

-----------------------------------------------------------------------------
(* Refinement: granted time, without the messages. *)

Granted ==
  { b \in RemoteBonus : command[b] # "unused" } \cup { b \in LocalBonus : event[b] # "none" }
Settled ==
  { b \in RemoteBonus : command[b] = "acked" } \cup { b \in LocalBonus : event[b] = "sent" }

Ledgers == INSTANCE Credit
  WITH granted <- Granted, computer <- localLedger, server <- ledger, settled <- Settled

\* Whatever is lost, repeated or restarted, the two ledgers behave like Credit:
\* every bonus is granted and booked once, and settled when both sides have it.
ImplementsCredit == Ledgers!Spec

-----------------------------------------------------------------------------
(* Liveness.  The agent's loops and the server's handlers keep running, and the *)
(* network loses no more than MaxFaults exchanges.                              *)

\* Every exchange goes on, on the server and on the network.
ExchangeStep(s) == ServerStep(Server!Handle(s)) \/ DeliverAnswer(s) \/ DropOrphan(s)

Fairness ==
  /\ WF_vars(\E s \in Slot : SendHeartbeat(s))
  /\ \A s \in Slot : WF_vars(ExchangeStep(s))
  /\ WF_vars(ApplyAnswer)

FairSpec == Spec /\ Fairness

\* A bonus granted on the page is eventually on the computer, known to be, and
\* the computer no longer acknowledges it: the receipt has ended the repetition.
GrantedBonusIsSettled ==
  \A b \in RemoteBonus :
    command[b] = "pending" ~> command[b] = "acked" /\ localLedger[b] # None /\ b \notin applied

\* A bonus granted at the computer eventually reaches the server's ledger.
LocalBonusIsReported == \A b \in LocalBonus : event[b] = "pending" ~> ledger[b] # None
=============================================================================
