--------------------------- MODULE RateLimitProofs ---------------------------
(***************************************************************************)
(* The rate limit for any limit, window and delay of hits: no window lets   *)
(* more than the limit through.  The script sees only the counters; what    *)
(* ties them to the hits really admitted is that the key of a window lives  *)
(* as long as hits of it may come and for all of the next window.           *)
(***************************************************************************)
EXTENDS RateLimit, TLAPS

\* The counters of the two windows hits count in are right, and the key of one
\* that is not zero lives until the end of the window after it.
Counted ==
  /\ \A k \in {0, 1} : count[k] = admitted[k]
  /\ count[0] > 0 => ttl[0] >= 2 * Window - offset
  /\ count[1] > 0 => ttl[1] >= Window - offset

RateInv == TypeOK /\ Counted /\ WindowLimit

\* A number of hits at the limit is at the limit in hits times Window as well.
LEMMA AtTheLimit ==
  ASSUME NEW p \in Nat, NEW w \in Nat, NEW c \in Nat, c >= Limit
  PROVE  p * w + c * Window >= Limit * Window
<1>1. p * w \in Nat
  OBVIOUS
<1>2. PICK e \in Nat : c = Limit + e
  BY RuleAssumption
<1>3. c * Window = Limit * Window + e * Window
  BY <1>2, RuleAssumption
<1>4. e * Window \in Nat /\ Limit * Window \in Nat
  BY RuleAssumption
<1> QED BY <1>1, <1>3, <1>4

\* Where a hit counts, and how far into that window it is.
LEMMA HitWindow ==
  ASSUME TypeOK, NEW d \in 0..MaxDelay
  PROVE  WindowOf(d) \in {0, 1} /\ Into(d) \in 0..(Window - 1)
BY RuleAssumption, MaxDelayAssumption DEF WindowOf, Into, TypeOK

\* A hit that is not refused finds less than the limit in its window.
LEMMA AdmittedBelow ==
  ASSUME TypeOK, NEW d \in 0..MaxDelay, ~ Refused(d)
  PROVE  count[WindowOf(d)] < Limit
<1> DEFINE k == WindowOf(d)
<1>1. /\ k \in Windows /\ k + 1 \in Windows /\ Window - Into(d) \in Nat
  BY HitWindow, RuleAssumption DEF Windows
<1>2. count[k] \in Nat /\ count[k + 1] \in Nat
  BY <1>1 DEF TypeOK
<1>3. count[k] >= Limit => Refused(d)
  BY <1>1, <1>2, AtTheLimit DEF Refused, Estimated
<1> QED BY <1>2, <1>3, RuleAssumption

\* Before the first hit there are no counters.
LEMMA InitRateInv == Init => RateInv
<1> SUFFICES ASSUME Init PROVE RateInv
  OBVIOUS
<1>1. TypeOK
  <2>1. 0 \in Nat /\ 0 \in 0..2 * Window
    BY RuleAssumption
  <2>2. /\ count \in [Windows -> Nat] /\ admitted \in [Windows -> Nat]
        /\ ttl \in [Windows -> 0..2 * Window]
    BY <2>1 DEF Init
  <2> QED BY <2>2 DEF Init, TypeOK
<1>2. \A k \in Windows : count[k] = 0 /\ admitted[k] = 0
  BY DEF Init
<1>3. Counted /\ WindowLimit
  BY <1>2, RuleAssumption DEF Counted, WindowLimit, Windows
<1> QED BY <1>1, <1>3 DEF RateInv

\* Admitting a hit counts it and prolongs its key.
LEMMA AdmitRateInv ==
  ASSUME RateInv, NEW d \in 0..MaxDelay, Admit(d)
  PROVE  RateInv'
<1> DEFINE k == WindowOf(d)
<1>1. k \in {0, 1} /\ k \in Windows /\ count[k] < Limit
  BY HitWindow, AdmittedBelow DEF RateInv, Admit, Windows
<1>2. /\ count' = [count EXCEPT ![k] = @ + 1]
      /\ ttl' = [ttl EXCEPT ![k] = 2 * Window]
      /\ admitted' = [admitted EXCEPT ![k] = @ + 1]
      /\ offset' = offset /\ tried' = TRUE /\ passed' = TRUE
  BY DEF Admit
<1>3. TypeOK'
  BY <1>1, <1>2, RuleAssumption DEF RateInv, TypeOK
<1>4. \A j \in Windows :
        /\ count'[j] = IF j = k THEN count[j] + 1 ELSE count[j]
        /\ ttl'[j] = IF j = k THEN 2 * Window ELSE ttl[j]
        /\ admitted'[j] = IF j = k THEN admitted[j] + 1 ELSE admitted[j]
  BY <1>2 DEF RateInv, TypeOK
<1>5. offset \in 0..(Window - 1) /\ 0 \in Windows /\ 1 \in Windows
  BY DEF RateInv, TypeOK, Windows
<1>6. Counted'
  BY <1>1, <1>2, <1>4, <1>5, RuleAssumption DEF RateInv, Counted
<1>7. WindowLimit'
  BY <1>1, <1>4, RuleAssumption DEF RateInv, Counted, WindowLimit, TypeOK
<1> QED BY <1>3, <1>6, <1>7 DEF RateInv

\* Time takes a tick off every key; at the end of a window the counters of the
\* two last ones are still there.
LEMMA TickRateInv == ASSUME RateInv, Tick PROVE RateInv'
<1> DEFINE left == [k \in Windows |-> Left(k)]
           aged == [k \in Windows |-> Aged(k)]
<1>1. /\ offset \in 0..(Window - 1) /\ Window \in Nat \ {0} /\ Limit \in Nat
      /\ \A k \in Windows : count[k] \in Nat /\ ttl[k] \in 0..2 * Window /\ admitted[k] \in Nat
      /\ \A k \in Windows : admitted[k] <= Limit
  BY RuleAssumption DEF RateInv, TypeOK, WindowLimit
<1>2. \A k \in Windows : aged[k] \in 0..2 * Window /\ left[k] \in Nat
  BY <1>1 DEF Aged, Left
<1>3. /\ left[0] = admitted[0]
      /\ offset # Window - 1 => left[1] = admitted[1]
      /\ left[0] > 0 => aged[0] >= 2 * Window - (offset + 1)
      /\ left[1] > 0 => aged[1] >= Window - (offset + 1)
      /\ 0 \in Windows /\ 1 \in Windows /\ 2 \in Windows
  <2>1. 0 \in Windows /\ 1 \in Windows /\ 2 \in Windows
    BY DEF Windows
  <2>2. \A k \in Windows :
          /\ aged[k] = IF ttl[k] = 0 THEN 0 ELSE ttl[k] - 1
          /\ left[k] = IF aged[k] = 0 THEN 0 ELSE count[k]
    BY DEF Left, Aged
  <2>3. count[0] > 0 => ttl[0] >= Window + 1 /\ aged[0] = ttl[0] - 1
    BY <1>1, <2>1, <2>2 DEF RateInv, Counted
  <2>4. left[0] = admitted[0] /\ (left[0] > 0 => aged[0] >= 2 * Window - (offset + 1))
    BY <1>1, <2>1, <2>2, <2>3 DEF RateInv, Counted
  <2>5. left[1] > 0 => aged[1] >= Window - (offset + 1)
    BY <1>1, <2>1, <2>2 DEF RateInv, Counted
  <2>6. offset # Window - 1 => left[1] = admitted[1]
    BY <1>1, <2>1, <2>2 DEF RateInv, Counted
  <2> QED BY <2>1, <2>4, <2>5, <2>6
<1>4. CASE offset = Window - 1
  <2>1. offset' = 0
    BY <1>1, <1>4 DEF Tick
  <2>2. /\ count' = Shift(left, 0) /\ ttl' = Shift(aged, 0)
        /\ admitted' = Shift(admitted, 0)
        /\ tried' = FALSE /\ passed' = passed
    BY <1>4 DEF Tick
  <2>3. /\ count'[0] = 0 /\ count'[1] = left[0] /\ count'[2] = left[1]
        /\ ttl'[0] = 0 /\ ttl'[1] = aged[0] /\ ttl'[2] = aged[1]
        /\ admitted'[0] = 0 /\ admitted'[1] = admitted[0] /\ admitted'[2] = admitted[1]
    BY <2>2 DEF Shift, Windows
  <2>4. TypeOK'
    <3>1. /\ DOMAIN count' = Windows /\ DOMAIN ttl' = Windows /\ DOMAIN admitted' = Windows
          /\ count' = [k \in Windows |-> count'[k]] /\ ttl' = [k \in Windows |-> ttl'[k]]
          /\ admitted' = [k \in Windows |-> admitted'[k]]
      BY <2>2 DEF Shift
    <3>2. \A k \in Windows :
            count'[k] \in Nat /\ ttl'[k] \in 0..2 * Window /\ admitted'[k] \in Nat
      BY <1>1, <1>2, <1>3, <2>3 DEF Windows
    <3>3. /\ count' \in [Windows -> Nat] /\ admitted' \in [Windows -> Nat]
          /\ ttl' \in [Windows -> 0..2 * Window]
      BY <3>1, <3>2
    <3>4. offset' \in 0..(Window - 1)
      BY <1>1, <2>1
    <3>5. tried' \in BOOLEAN /\ passed' \in BOOLEAN
      <4>1. passed \in BOOLEAN /\ tried' = FALSE /\ passed' = passed
        BY <2>2 DEF RateInv, TypeOK
      <4> QED BY <4>1
    <3> QED BY <3>3, <3>4, <3>5 DEF TypeOK
  <2>5. Counted'
    BY <1>1, <1>3, <1>4, <2>1, <2>3 DEF Counted
  <2>6. WindowLimit'
    BY <1>1, <1>3, <2>3 DEF WindowLimit, Windows
  <2> QED BY <2>4, <2>5, <2>6 DEF RateInv
<1>5. CASE offset # Window - 1
  <2>1. offset' = offset + 1 /\ offset' \in 0..(Window - 1)
    BY <1>1, <1>5 DEF Tick
  <2>2. /\ count' = left /\ ttl' = aged /\ admitted' = admitted
        /\ tried' = FALSE /\ passed' = passed
    BY <1>5 DEF Tick
  <2>3. TypeOK'
    BY <1>1, <1>2, <2>1, <2>2 DEF RateInv, TypeOK
  <2>4. Counted'
    BY <1>1, <1>2, <1>3, <2>1, <2>2 DEF Counted
  <2>5. WindowLimit'
    BY <1>1, <2>2 DEF WindowLimit
  <2> QED BY <2>3, <2>4, <2>5 DEF RateInv
<1> QED BY <1>4, <1>5

\* The inductive invariant is kept by every step.
LEMMA NextRateInv == RateInv /\ [Next]_vars => RateInv'
<1> SUFFICES ASSUME RateInv, [Next]_vars PROVE RateInv'
  OBVIOUS
<1>1. ASSUME NEW d \in 0..MaxDelay, Refuse(d) PROVE RateInv'
  BY <1>1 DEF Refuse, RateInv, TypeOK, Counted, WindowLimit
<1>2. CASE Unavailable
  BY <1>2, FailOpenAssumption DEF Unavailable, RateInv, TypeOK, Counted, WindowLimit
<1>3. CASE UNCHANGED vars
  BY <1>3 DEF vars, RateInv, TypeOK, Counted, WindowLimit
<1> QED BY TickRateInv, AdmitRateInv, <1>1, <1>2, <1>3 DEF Next, Hit

\* Counters, keys and time hold values of their types.
THEOREM TypeCorrect == Spec => []TypeOK
<1>1. RateInv => TypeOK
  BY DEF RateInv
<1> QED BY InitRateInv, NextRateInv, <1>1, PTL DEF Spec

\* Whatever the limit, the window and the delay of hits (below a window), no
\* window lets more hits through than the limit.
THEOREM LimitHolds == Spec => []WindowLimit
<1>1. RateInv => WindowLimit
  BY DEF RateInv
<1> QED BY InitRateInv, NextRateInv, <1>1, PTL DEF Spec

\* No hit of the current window is let through on counters that forgot hits of
\* this window or the one before.
THEOREM NoneForgotten == Spec => NothingForgotten
<1> DEFINE Remembers == \A d \in 0..MaxDelay :
             Admit(d) /\ d <= offset => Estimated(admitted, 0, Into(d)) < Limit * Window
<1>1. RateInv => Remembers
  <2> SUFFICES ASSUME RateInv, NEW d \in 0..MaxDelay, Admit(d), d <= offset
               PROVE  Estimated(admitted, 0, Into(d)) < Limit * Window
    OBVIOUS
  <2>1. WindowOf(d) = 0
    BY DEF WindowOf
  <2>2. Estimated(count, 0, Into(d)) = Estimated(admitted, 0, Into(d))
    BY DEF Estimated, RateInv, Counted
  <2>3. Window - Into(d) \in Nat /\ count[0] \in Nat /\ count[1] \in Nat
    BY HitWindow, RuleAssumption DEF RateInv, TypeOK, Windows
  <2>4. Estimated(count, 0, Into(d)) \in Nat /\ Limit * Window \in Nat
    BY <2>3, RuleAssumption DEF Estimated
  <2> QED BY <2>1, <2>2, <2>4 DEF Admit, Refused
<1>2. NothingForgotten <=> [][Remembers]_vars
  BY PTL DEF NothingForgotten
<1> QED BY InitRateInv, NextRateInv, <1>1, <1>2, PTL DEF Spec
=============================================================================
