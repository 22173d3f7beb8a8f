--------------------------- MODULE MCHplbaModule ---------------------------
(***************************************************************************)
(* Small platforms: a bridge with one PNP id, one with two, and a device   *)
(* of an unknown chipset.                                                  *)
(***************************************************************************)
EXTENDS HplbaModule, TLC

CONSTANTS h1, h2, h3

MCPnpIds     == (h1 :> {4}) @@ (h2 :> {2, 4}) @@ (h3 :> {2})
MCFunctionId == (h1 :> "apollo") @@ (h2 :> "mercury") @@ (h3 :> "unknown")
=============================================================================
