----------------------------- MODULE MCRequests -----------------------------
(***************************************************************************)
(* Every request on the inputs of MCLocation, MCDetails, MCCfi, MCSymbols. *)
(***************************************************************************)
EXTENDS Requests, MCLocation, MCDetails, MCCfi, MCSymbols
=============================================================================
