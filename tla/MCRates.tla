------------------------------ MODULE MCRates ------------------------------
(***************************************************************************)
(* An instance of Rates for TLC: the provider and the fallback table list  *)
(* two currencies in opposite orders, so that a refresh and a seed can     *)
(* wait for each other, and the provider lists one that a seed from the    *)
(* table leaves without a row, for the jobs after it to insert.            *)
(***************************************************************************)
EXTENDS Rates

CONSTANTS cny, jpy, krw, admin

Alphabetical == <<cny, jpy, krw>>
Reversed == <<jpy, cny>>

=============================================================================
