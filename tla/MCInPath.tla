------------------------------- MODULE MCInPath -------------------------------
(* The instances of InPath that TLC checks. *)
EXTENDS InPath, TLC

CONSTANTS e1, e2, e3, j1, i1, i2, i3

(* Two HID interfaces, as of a keyboard with a mouse. *)
HidIfaceOf == (e1 :> i1) @@ (e2 :> i2)
(* One HID interface and one of another class. *)
MixedIfaceOf == (e1 :> i1) @@ (e3 :> i3)
=============================================================================
