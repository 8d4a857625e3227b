------------------------------- MODULE MCBind -------------------------------
(* Instantiation of Bind for TLC.                                          *)
EXTENDS Bind

\* Another program holds port 4660 for IPv6 and port 40001 for IPv4.
MCForeign == [f \in Families |-> IF f = "V6" THEN {4660} ELSE {40001}]

=============================================================================
