--------------------------- MODULE HeartbeatLoop ---------------------------
(***************************************************************************)
(* Client.Run of agent/syncclient: when the next heartbeat starts.         *)
(*                                                                         *)
(* Time passes in seconds.  An attempt may end at any time up to its       *)
(* deadline; the next one starts as soon as its delay is over (Second      *)
(* waits for neither).  The answer's commands are one bit.                 *)
(***************************************************************************)
EXTENDS Integers

CONSTANTS
  Interval,        \* HeartbeatInterval, in seconds (3 in the code)
  ServerIntervals, \* NextHeartbeatSeconds that the server may send
  Slowest,         \* MaximumHeartbeatInterval, in seconds (600 in the code)
  AttemptTimeout   \* deadline of an attempt, in seconds (HTTPTimeout)

ASSUME HeartbeatLoopAssumption ==
  /\ {Interval, Slowest, AttemptTimeout} \subseteq Nat \ {0} /\ Interval <= Slowest
  /\ ServerIntervals \subseteq Int

VARIABLES
  delay,    \* seconds until the next attempt
  took,     \* seconds that the attempt has taken so far, or NotUnderWay
  normal,   \* normalInterval
  backoff,  \* wait after the next failure
  online,   \* the last attempt succeeded
  first,    \* no attempt has ended yet
  fast,     \* fastFollowUp: the next attempt is the accelerated one
  sinceLast, sincePrev \* history: seconds since the last start and the one before, at most
                       \* Longest
loopVars == <<delay, took, normal, backoff, online, first, fast, sinceLast, sincePrev>>

-----------------------------------------------------------------------------
NotUnderWay == -1
UnderWay == took # NotUnderWay

SmallerOf(a, b) == IF a <= b THEN a ELSE b
GreaterOf(a, b) == IF a >= b THEN a ELSE b

\* Longer than any time between two starts; bound of the history.
Longest == AttemptTimeout + Slowest + 1

\* Mutant: whatever the server says is the interval.
NextIntervalUnchecked(seconds) == seconds

\* nextHeartbeatInterval; the bounds are MinimumHeartbeatInterval and Slowest.
NextInterval(seconds) == IF seconds \in 1..Slowest THEN seconds ELSE Interval

\* initialHeartbeatBackoff of an interval of at least a second.
InitialBackoff == 1

\* What a new process starts with.
LoopInit ==
  /\ delay = 0 /\ took = NotUnderWay
  /\ normal = Interval /\ backoff = InitialBackoff
  /\ online = FALSE /\ first = TRUE /\ fast = FALSE
  /\ sinceLast = Longest /\ sincePrev = Longest

LoopReset ==
  /\ delay' = 0 /\ took' = NotUnderWay
  /\ normal' = Interval /\ backoff' = InitialBackoff
  /\ online' = FALSE /\ first' = TRUE /\ fast' = FALSE
  /\ sinceLast' = Longest /\ sincePrev' = Longest

Attempt ==
  /\ ~ UnderWay /\ delay = 0
  /\ took' = 0
  /\ sincePrev' = sinceLast /\ sinceLast' = 0
  /\ UNCHANGED <<delay, normal, backoff, online, first, fast>>

\* Mutant: every answer with commands is followed up at once.
FollowsUpAlways(commands) == commands

\* One accelerated attempt at most in sequence.
FollowsUp(commands) == commands /\ ~ fast

Succeed(commands, seconds) ==
  /\ UnderWay
  /\ took' = NotUnderWay
  /\ online' = TRUE /\ first' = FALSE
  /\ normal' = NextInterval(seconds) /\ backoff' = InitialBackoff
  /\ fast' = FollowsUp(commands)
  /\ delay' = IF FollowsUp(commands) THEN 0 ELSE normal'
  /\ UNCHANGED <<sinceLast, sincePrev>>

\* Mutant: the wait doubles without end.
DoubledForEver == 2 * backoff

\* Never longer than the normal interval.
Doubled == SmallerOf(2 * backoff, normal)

\* The wait counts from the start of the failed attempt.
Fail ==
  /\ UnderWay
  /\ took' = NotUnderWay
  /\ online' = FALSE /\ first' = FALSE /\ fast' = FALSE
  /\ delay' = GreaterOf(backoff - took, 0)
  /\ backoff' = Doubled
  /\ UNCHANGED <<normal, sinceLast, sincePrev>>

Second ==
  /\ \/ UnderWay /\ took < AttemptTimeout /\ took' = took + 1 /\ UNCHANGED delay
     \/ ~ UnderWay /\ delay > 0 /\ delay' = delay - 1 /\ UNCHANGED took
  /\ sinceLast' = SmallerOf(sinceLast + 1, Longest)
  /\ sincePrev' = SmallerOf(sincePrev + 1, Longest)
  /\ UNCHANGED <<normal, backoff, online, first, fast>>
=============================================================================
