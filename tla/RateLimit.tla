------------------------------ MODULE RateLimit ------------------------------
(***************************************************************************)
(* The sliding-window rate limit of one rule and one identity: SLIDING_     *)
(* WINDOW, the Lua script that counts and checks in Redis, and hit(), which *)
(* reads the clock before it runs the script.  A hit may reach Redis after  *)
(* later ones, with a time of up to MaxDelay ago.                           *)
(*                                                                          *)
(* Redis holds one counter per window, under a key that expires.  Windows   *)
(* are named by how many windows ago they began: 0 is the current one.      *)
(***************************************************************************)
EXTENDS Integers

CONSTANTS
  Limit,     \* rule.limit
  Window,    \* rule.window_seconds, in ticks of the clock
  MaxDelay,  \* how old the time of a hit may be when the script runs
  FailOpen   \* settings.rate_limit_fail_open

ASSUME RuleAssumption == Limit \in Nat \ {0} /\ Window \in Nat \ {0}
ASSUME MaxDelayAssumption == MaxDelay \in Nat /\ MaxDelay < Window
ASSUME FailOpenAssumption == FailOpen \in BOOLEAN

VARIABLES
  offset,    \* how long ago the current window began
  count,     \* the counters in Redis, 0 without a key
  ttl,       \* how long their keys will live, 0 without one
  admitted,  \* how many hits of a window were really counted and let through
  tried,     \* whether the client has tried since the clock last moved
  passed     \* whether its last attempt was let through

vars == <<offset, count, ttl, admitted, tried, passed>>

Windows == 0..2

TypeOK ==
  /\ offset \in 0..(Window - 1)
  /\ count \in [Windows -> Nat]
  /\ ttl \in [Windows -> 0..2 * Window]
  /\ admitted \in [Windows -> Nat]
  /\ tried \in BOOLEAN /\ passed \in BOOLEAN

Init ==
  /\ offset \in 0..(Window - 1)
  /\ count = [k \in Windows |-> 0]
  /\ ttl = [k \in Windows |-> 0]
  /\ admitted = [k \in Windows |-> 0]
  /\ tried = FALSE /\ passed = FALSE
-----------------------------------------------------------------------------
\* Bug: keys never expire.
AgedOn(k) == ttl[k] - 1

\* Redis drops a key whose time has come.
Aged(k) == IF ttl[k] = 0 THEN 0 ELSE ttl[k] - 1
Left(k) == IF Aged(k) = 0 THEN 0 ELSE count[k]

\* The values of a new window and of those before it, which are one older now.
Shift(f, new) == [k \in Windows |-> IF k = 0 THEN new ELSE f[k - 1]]

\* Time passes; a client that keeps trying has tried before.
Tick ==
  LET left == [k \in Windows |-> Left(k)]
      aged == [k \in Windows |-> Aged(k)]
  IN
  /\ tried
  /\ tried' = FALSE
  /\ offset' = (offset + 1) % Window
  /\ IF offset = Window - 1
     THEN /\ count' = Shift(left, 0)
          /\ ttl' = Shift(aged, 0)
          /\ admitted' = Shift(admitted, 0)
     ELSE /\ count' = left
          /\ ttl' = aged
          /\ UNCHANGED admitted
  /\ UNCHANGED passed

\* The window of a hit that is d old, and how far into it the hit is.
WindowOf(d) == IF d <= offset THEN 0 ELSE 1
Into(d) == (offset - d) % Window

\* estimated, in hits times Window: the previous window counts for the part of
\* it that a window ending at the hit still covers.
Estimated(f, k, into) == f[k + 1] * (Window - into) + f[k] * Window

\* Bug: refused only above the limit.
RefusedAbove(d) == Estimated(count, WindowOf(d), Into(d)) > Limit * Window

Refused(d) == Estimated(count, WindowOf(d), Into(d)) >= Limit * Window

\* Bug: the key expires with its window.
AdmitShort(d) ==
  /\ ~ Refused(d)
  /\ count' = [count EXCEPT ![WindowOf(d)] = @ + 1]
  /\ ttl' = [ttl EXCEPT ![WindowOf(d)] = Window]
  /\ admitted' = [admitted EXCEPT ![WindowOf(d)] = @ + 1]
  /\ tried' = TRUE /\ passed' = TRUE
  /\ UNCHANGED offset

\* INCR and PEXPIRE.
Admit(d) ==
  /\ ~ Refused(d)
  /\ count' = [count EXCEPT ![WindowOf(d)] = @ + 1]
  /\ ttl' = [ttl EXCEPT ![WindowOf(d)] = 2 * Window]
  /\ admitted' = [admitted EXCEPT ![WindowOf(d)] = @ + 1]
  /\ tried' = TRUE /\ passed' = TRUE
  /\ UNCHANGED offset

\* Bug: a refused attempt counts as well.
RefuseCounting(d) ==
  /\ Refused(d)
  /\ count' = [count EXCEPT ![WindowOf(d)] = IF @ < Limit THEN @ + 1 ELSE @]
  /\ ttl' = [ttl EXCEPT ![WindowOf(d)] = 2 * Window]
  /\ tried' = TRUE /\ passed' = FALSE
  /\ UNCHANGED <<offset, admitted>>

\* A refused attempt leaves Redis as it is.
Refuse(d) ==
  /\ Refused(d)
  /\ tried' = TRUE /\ passed' = FALSE
  /\ UNCHANGED <<offset, count, ttl, admitted>>

\* Redis is down: nothing is counted.
Unavailable ==
  /\ tried' = TRUE /\ passed' = FailOpen
  /\ UNCHANGED <<offset, count, ttl, admitted>>

Hit == \E d \in 0..MaxDelay : Admit(d) \/ Refuse(d)

Next == Tick \/ Hit \/ Unavailable

Spec == Init /\ [][Next]_vars

\* Time goes on, and the client tries again before the clock moves on.
FairSpec == Spec /\ WF_vars(Tick) /\ WF_vars(~ tried /\ Hit)
-----------------------------------------------------------------------------
\* No window ever lets more than the limit through, however late hits arrive at
\* the script: no key is forgotten while hits of its window may still come.
WindowLimit == \A k \in Windows : admitted[k] <= Limit

\* A hit is let through only if the hits that were really admitted, the previous
\* window weighted by what is left of it, are below the limit: the counter of
\* the previous window never expires too early.  A hit that is itself from the
\* previous window may find the one before that gone.
NothingForgotten ==
  [][\A d \in 0..MaxDelay :
       Admit(d) /\ d <= offset => Estimated(admitted, 0, Into(d)) < Limit * Window]_vars

\* A client that keeps trying is let through again and again, unless Redis keeps
\* being down: attempts that are refused do not prolong the wait.
AdmittedAgain == []<>passed \/ []<><<Unavailable>>_vars
=============================================================================
