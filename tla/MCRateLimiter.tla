---------------------------- MODULE MCRateLimiter ----------------------------
(* Instances of RateLimiter: one family, and two that do not refill alike.    *)
EXTENDS RateLimiter

(* Two tokens refilled over three ticks.                                      *)
OneFamily == {"burst"}
OneCapacity == [f \in OneFamily |-> 2]
OnePer == [f \in OneFamily |-> 3]

(* One token in three ticks next to two tokens in two.                        *)
TwoFamilies == {"sessions", "burst"}
TwoCapacity == [f \in TwoFamilies |-> IF f = "sessions" THEN 1 ELSE 2]
TwoPer == [f \in TwoFamilies |-> IF f = "sessions" THEN 3 ELSE 2]

(* One token in five ticks next to two in four.                               *)
SlowPer == [f \in TwoFamilies |-> IF f = "sessions" THEN 5 ELSE 4]
=============================================================================
