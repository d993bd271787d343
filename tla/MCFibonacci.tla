---------------------------- MODULE MCFibonacci -----------------------------
(***************************************************************************)
(* Instances for TLC of the reading of a series: pivots, swings and the    *)
(* life of its Fibonaccis.                                                 *)
(***************************************************************************)
EXTENDS FibonacciLifecycle

Candle(low, high, close) == [low |-> low, high |-> high, close |-> close]

\* Rising extremes, and a candle wide enough to be both a high and a low pivot
\* and to go beyond both ends of an impulse.
Outside ==
    {Candle(0, 1, 1), Candle(1, 2, 2), Candle(2, 3, 2), Candle(0, 4, 3)}

Half == <<1, 2>>

=============================================================================
