----------------------------- MODULE MCLifecycle -----------------------------
(* The instances of Lifecycle that TLC checks. *)
EXTENDS Lifecycle, TLC

CONSTANTS r1, r2, a, b

(* Two runs for different devices, and a single run. *)
Differ == (r1 :> a) @@ (r2 :> b)
Single == r1 :> a
=============================================================================
