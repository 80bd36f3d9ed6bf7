-------------------------- MODULE MCFailoverService --------------------------
(* Small instances of FailoverService for TLC.                             *)
EXTENDS FailoverService

(* Every mode and every strategy, in some combination.                     *)
SomeConfigurations ==
    {<<"STRICT_WRITER", "ROUND_ROBIN">>, <<"STRICT_READER", "ROUND_ROBIN">>,
     <<"STRICT_READER", "HIGHEST_WEIGHT">>, <<"READER_OR_WRITER", "RANDOM">>}
=============================================================================
