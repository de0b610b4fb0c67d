------------------------------ MODULE Backoff -------------------------------
(***************************************************************************)
(* The back-off policy the repository takes from cenkalti/backoff (v4), as *)
(* worker uses it: an exponential interval without randomisation, and its  *)
(* stop once MaxElapsedTime has passed.                                    *)
(***************************************************************************)
EXTENDS Integers

CONSTANTS
  InitialInterval,
  MaxInterval,
  MaxElapsedTime    \* 0: the policy never gives up

ASSUME BackoffAssumption ==
  /\ InitialInterval \in Nat \ {0}
  /\ MaxInterval \in Nat
  /\ InitialInterval <= MaxInterval
  /\ MaxElapsedTime \in Nat

Stop == -1

(* incrementCurrentInterval: the interval doubles up to MaxInterval.       *)
Grow(current) == IF 2 * current >= MaxInterval THEN MaxInterval ELSE 2 * current

(* NextBackOff: the interval to wait for, or Stop when waiting it out      *)
(* would pass MaxElapsedTime.                                              *)
NextBackOff(current, elapsed) ==
  IF MaxElapsedTime # 0 /\ elapsed + current > MaxElapsedTime THEN Stop ELSE current
=============================================================================
