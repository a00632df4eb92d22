---------------------------- MODULE MCCellAudit ----------------------------
(* Instances of CellAudit for TLC: a cell of two pairs. *)
EXTENDS CellAudit

CONSTANTS a, b

TwoPairs == <<a, b>>
OneByOne == {<<"PROD">>, <<"EVAL">>}
=============================================================================
