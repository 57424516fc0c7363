----------------------- MODULE MCUnobtrusiveValidation -----------------------
EXTENDS UnobtrusiveValidation
(* Two fields the server is asked about; the value of mail rides with name.     *)
(* "w" passes the local rules of name and not those of mail.                     *)
MCAccepted == [f \in Field |-> IF f = "name" THEN {"v", "w"} ELSE {"v"}]
MCRides == [f \in Field |-> IF f = "name" THEN {"mail"} ELSE {}]
=============================================================================
