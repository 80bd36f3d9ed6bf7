---------------------- MODULE MCFailoverServiceTracker ----------------------
(* FailoverServiceTracker with clients under every discipline.             *)
EXTENDS FailoverServiceTracker

AnyLiberties == SUBSET {"overlap", "restart", "borrow"}
=============================================================================
