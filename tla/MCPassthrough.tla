---------------------------- MODULE MCPassthrough ----------------------------
(* The instance of Passthrough that TLC checks: a keyboard with LEDs, whose *)
(* interface 0 has an OUT endpoint.                                        *)
EXTENDS Passthrough

Ifaces == [e \in Endpoint |-> 0]
=============================================================================
