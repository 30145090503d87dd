-------------------------- MODULE MCExchangeRoute --------------------------
(* Instances of ExchangeRoute for TLC.                                     *)
EXTENDS ExchangeRoute, TLC

CONSTANTS r1, r2, x1, x2

\* Roll sites of two exchanges, of one, and one that is not yet managed.
FirstManaged ==
    {(r1 :> x1) @@ (r2 :> home) : home \in {x1, x2, "unused"}}
=============================================================================
