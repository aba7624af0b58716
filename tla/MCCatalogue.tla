---------------------------- MODULE MCCatalogue -----------------------------
(* Small instances of Catalogue for TLC. *)
EXTENDS Catalogue, TLC

CONSTANTS oneInHundred, oneInTen

SizeOf == [h \in Hashes |-> h]
TwoWindows == {[since |-> 0, until |-> MaxClock], [since |-> 0, until |-> 0]}
ListOrFilter == {Walkers, Requests}
TwoRates == {oneInHundred, oneInTen}
=============================================================================
