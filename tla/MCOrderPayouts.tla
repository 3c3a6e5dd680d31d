--------------------------- MODULE MCOrderPayouts ---------------------------
(* Amounts in tenths of a cent.                                            *)
EXTENDS OrderPayouts, TLC

\* 1.5, 1.2 and 1.4 cents: the first payout alone is rounded up, and once it is
\* confirmed the next payment's are all rounded down.
MCOwed == <<15, 12, 14>>

\* Two shares of 62.4 cents; of an order of 2.50 the store has 1.252 left.
MCOwedDown == <<624, 624>>

MCSymmetry == Permutations(Payments)
=============================================================================
