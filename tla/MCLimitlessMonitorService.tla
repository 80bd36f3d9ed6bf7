---------------------- MODULE MCLimitlessMonitorService ----------------------
(* Small instances of LimitlessMonitorService for TLC.                     *)
EXTENDS LimitlessMonitorService
=============================================================================
