-------------------------------- MODULE MCWeb --------------------------------
(* An instance of WebClient for TLC: one user, one repository to select.     *)
EXTENDS WebClient

CONSTANTS lib, ann

MCRepo == {lib}
MCUser == {ann}
==============================================================================
