------------------------- MODULE MCRegistrationQueue -------------------------
(* Values for the constants of RegistrationQueue, for TLC.                 *)
EXTENDS RegistrationQueue

TwoClaims   == 1..2
ThreeClaims == 1..3

OwnAccounts == [c \in Claims |-> c]
\* The last claim is a second one of the first account.
SharedAccount == [c \in Claims |-> IF \A d \in Claims : d <= c THEN 1 ELSE c]
================================================================================
