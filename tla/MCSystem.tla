------------------------------ MODULE MCSystem ------------------------------
(***************************************************************************)
(* Small instances of System.                                              *)
(***************************************************************************)
EXTENDS System, TLC

CONSTANTS good, raw, padded

MCImages == {good, raw, padded}
MCKind == good :> "good" @@ raw :> "raw" @@ padded :> "padded"
MCLen == good :> 1 @@ raw :> 2 @@ padded :> 1
MCSlots == {0, 1}
MCAbsent == {7}
=============================================================================
