------------------------------- MODULE MCAgent -------------------------------
(***************************************************************************)
(* Instances of Agent for TLC: small sets of answers.                      *)
(***************************************************************************)
EXTENDS Agent, TLC

NoState == [rev |-> 0, remaining |-> 0, usage |-> 0]
NoDocument == [rev |-> 0, quota |-> 0, routines |-> None, days |-> None]

\* An answer under the first control state, with a policy of quota 1 (or none),
\* a balance (or none) and commands.
AnswerOf(p, st, c) ==
  [control |-> [rev |-> 1, paused |-> FALSE, blocked |-> FALSE],
   hasPolicy |-> p # 0, policy |-> IF p = 0 THEN NoDocument ELSE [NoDocument EXCEPT !.rev = p, !.quota = 1],
   hasState |-> st # NoState, state |-> st, commands |-> c]

\* Balances of a server that has seen less or more usage than the agent, and
\* documents older or newer than the agent's, with offers that may be repeated.
SomeAnswers ==
  { AnswerOf(1, st, {}) : st \in [rev : {1}, remaining : {1}, usage : 0..1] }
  \cup { AnswerOf(p, NoState, {}) : p \in {0, 2} } \cup { AnswerOf(0, NoState, {c}) : c \in Op }

\* Bound: usage under the first policy on a screen that is not locked, and offers
\* and newer policies for a computer that nobody uses, are explored apart.
UsageOrOffers ==
  \/ /\ ~ locked /\ effect = None /\ applied = {} /\ localPolicy.rev <= 1
     /\ answer # None => answer.commands = {} /\ answer.policy.rev <= 1
     /\ localUsage[2] <= 1 /\ (tracker # None /\ tracker.day = 2 => tracker.seconds <= 1)
  \/ /\ session = None /\ seen.session = None /\ view.session = None /\ last = NoLast
     /\ anchor = None /\ day = 1 /\ localUsage[1] = 0
=============================================================================
