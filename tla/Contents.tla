------------------------------ MODULE Contents ------------------------------
(***************************************************************************)
(* What files contain, as far as the storage modules tell contents apart,  *)
(* and the absence of a file.                                              *)
(***************************************************************************)
CONSTANTS Content, None

ASSUME NoneIsNoContent == None \notin Content

Maybe == Content \cup {None}
=============================================================================
