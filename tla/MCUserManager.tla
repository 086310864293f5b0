--------------------------- MODULE MCUserManager ---------------------------
(* Instances of UserManager for TLC.                                       *)
EXTENDS UserManager

CONSTANTS A, B, t1, t2, t3

\* Two topics on two servers and one the contact server does not know.
TwoServers == [t \in Topics |-> CASE t = t1 -> A [] t = t2 -> B [] OTHER -> None]
=============================================================================
