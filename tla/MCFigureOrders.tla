---------------------------- MODULE MCFigureOrders ----------------------------
(* Instances of FigureOrders for TLC.                                        *)
EXTENDS FigureOrders, TLC

CONSTANTS StockPerModel, PricePerModel  \* the same for every model

MCStock == [m \in Models |-> StockPerModel]
MCPrice == [m \in Models |-> PricePerModel]

Symmetry == Permutations(Vouchers) \cup Permutations(Models)
=============================================================================
