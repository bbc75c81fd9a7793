------------------------------ MODULE MCIpcRecv ------------------------------
(* The instances of IpcRecv that TLC checks: the sockets are strings, named *)
(* after the flags of the program.                                         *)
EXTENDS IpcRecv

Uds  == {"uds"}
Udp  == {"udp"}
Both == {"uds", "udp"}
=============================================================================
