----------------------------- MODULE MCPropertyPath -----------------------------
(***************************************************************************)
(* Model of PropertyPath for TLC: a version of two characters and a        *)
(* checksum whose four bytes differ, so that their order shows.            *)
(***************************************************************************)
EXTENDS PropertyPath

(* Inside, at and outside the limits of both ends. *)
MCNumbers == {-1, 20, 48, 255, 256, 1024, 1025}

MCVersion == <<118, 49>>
MCChecksum == <<239, 190, 173, 222>>

================================================================================
