-------------------------- MODULE MCHistoricalLoad --------------------------
(* Instances of HistoricalLoad for TLC.                                    *)
EXTENDS HistoricalLoad

(* A source that grows.                                                    *)
Growing == <<1, 2>>
=============================================================================
