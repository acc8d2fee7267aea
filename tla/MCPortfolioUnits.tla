--------------------------- MODULE MCPortfolioUnits ---------------------------
(***************************************************************************)
(* One request at a time and three units: merging a unit into the unit it  *)
(* is under.                                                               *)
(***************************************************************************)
EXTENDS PortfolioUnits
=============================================================================
