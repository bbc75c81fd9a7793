------------------------------ MODULE MCOutPath ------------------------------
(* The instances of OutPath that TLC checks. *)
EXTENDS OutPath, TLC

CONSTANTS f1, f2, i1, i2

(* Two hidg files; only the interface of the first may have an OUT endpoint. *)
HidgIface == (f1 :> i1) @@ (f2 :> i2)
=============================================================================
