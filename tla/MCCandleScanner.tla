-------------------------- MODULE MCCandleScanner ---------------------------
(***************************************************************************)
(* Small instances of CandleScanner for TLC.                               *)
(***************************************************************************)
EXTENDS CandleScanner, TLC

CONSTANTS a, b,           \* scanners
          s1, s2,         \* series
          binance, kraken \* sources

\* Two scanners and one series of a source without a horizon.
OneTarget == <<s1>>
AllKraken == [s \in Series |-> kraken]
AllBinance == [s \in Series |-> binance]
OnePerRequest == [source \in Sources |-> 1]
ThreePerRequest == [source \in Sources |-> 3]
TwoPerRequest == [source \in Sources |-> 2]
NoHorizon == [source \in Sources |-> 0]

OneTick == <<1>>

\* Two series of one source that serves only its last two closed candles.
TwoTargets == <<s1, s2>>
TwoCandleHorizon == [source \in Sources |-> 2]
ThenTwoTicks == <<1, 2>>

ScannerSymmetry == Permutations(Scanners)

=============================================================================
