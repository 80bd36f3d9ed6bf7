-------------------------------- MODULE Logger --------------------------------
(***************************************************************************)
(* The logger (src/src/util/logger_wrapper.cc and the functions of         *)
(* rds_logger_service.cc that call it).  Every operation holds             *)
(* logger_mutex from beginning to end, so that each is one action; the     *)
(* flags of glog and its two functions, which abort the process when they  *)
(* are called in the wrong state, are external.                            *)
(***************************************************************************)
EXTENDS Integers, FiniteSets

CONSTANTS
    LogUsers,     \* threads that use the logger
    Directories,  \* log locations
    Unusable      \* those that create_directory throws for

ASSUME LoggerAssumption == IsFiniteSet(LogUsers) /\ Unusable \subseteq Directories

VARIABLES
    logger_init_count,
    glog_initialized,  \* what LoggerWrapper takes the state of glog for
    glog,              \* the state it is in: down, up or aborted
    minloglevel,       \* FLAGS_minloglevel
    logtostderr,       \* FLAGS_logtostderr
    wants,             \* user -> what it has called: none, minimal or full
    thrown             \* Initialize has failed

logVars == <<logger_init_count, glog_initialized, glog, minloglevel,
             logtostderr, wants, thrown>>

LoggerInit ==
    /\ logger_init_count = 0 /\ glog_initialized = FALSE /\ glog = "down"
    /\ minloglevel = 0 /\ logtostderr = FALSE
    /\ wants = [u \in LogUsers |-> "none"] /\ thrown = FALSE

InitGoogleLogging(state) == IF state = "down" THEN "up" ELSE "aborted"
ShutdownGoogleLogging(state) == IF state = "up" THEN "down" ELSE "aborted"

(* The first user replaces what InitializeMinimal set up.  A caller that    *)
(* survives the exception may take itself for a user or not.               *)
InitializeFirst(u, dir) ==
    /\ logger_init_count = 0
    /\ logtostderr' = FALSE /\ minloglevel' = 0
    /\ LET closed == IF glog_initialized THEN ShutdownGoogleLogging(glog) ELSE glog
       IN IF dir \in Unusable
          THEN /\ glog' = closed /\ thrown' = TRUE
               /\ wants' \in {wants, [wants EXCEPT ![u] = "full"]}
               /\ UNCHANGED glog_initialized
          ELSE /\ glog' = InitGoogleLogging(closed) /\ glog_initialized' = TRUE
               /\ wants' = [wants EXCEPT ![u] = "full"] /\ UNCHANGED thrown

Initialize(u, dir) ==
    /\ glog # "aborted" /\ wants[u] = "none"
    /\ logger_init_count' = logger_init_count + 1
    /\ \/ InitializeFirst(u, dir)
       \/ /\ logger_init_count > 0
          /\ wants' = [wants EXCEPT ![u] = "full"]
          /\ UNCHANGED <<glog_initialized, glog, minloglevel, logtostderr, thrown>>

InitializeMinimal(u) ==
    /\ glog # "aborted" /\ wants[u] = "none"
    /\ wants' = [wants EXCEPT ![u] = "minimal"]
    /\ IF glog_initialized
       THEN UNCHANGED <<glog_initialized, glog, minloglevel, logtostderr>>
       ELSE /\ minloglevel' = 4 /\ logtostderr' = TRUE
            /\ glog' = InitGoogleLogging(glog) /\ glog_initialized' = TRUE
    /\ UNCHANGED <<logger_init_count, thrown>>

(* Mutant of Shutdown: it does not count.                                  *)
ShutdownAtOnce(u) ==
    /\ glog # "aborted" /\ wants[u] = "full"
    /\ wants' = [wants EXCEPT ![u] = "none"]
    /\ logger_init_count' = 0
    /\ glog' = ShutdownGoogleLogging(glog) /\ glog_initialized' = FALSE
    /\ minloglevel' = 4
    /\ UNCHANGED <<logtostderr, thrown>>

Shutdown(u) ==
    /\ glog # "aborted" /\ wants[u] = "full"
    /\ wants' = [wants EXCEPT ![u] = "none"]
    /\ logger_init_count' = IF logger_init_count > 0 THEN logger_init_count - 1 ELSE 0
    /\ IF logger_init_count = 1
       THEN /\ glog' = ShutdownGoogleLogging(glog) /\ glog_initialized' = FALSE
            /\ minloglevel' = 4
       ELSE UNCHANGED <<glog, glog_initialized, minloglevel>>
    /\ UNCHANGED <<logtostderr, thrown>>

(* One that called InitializeMinimal ends without a call.                  *)
Leave(u) ==
    /\ wants[u] = "minimal"
    /\ wants' = [wants EXCEPT ![u] = "none"]
    /\ UNCHANGED <<logger_init_count, glog_initialized, glog, minloglevel,
                   logtostderr, thrown>>

Start(u) == InitializeMinimal(u) \/ \E dir \in Directories : Initialize(u, dir)
End(u)   == Shutdown(u) \/ Leave(u)

LoggerNext == \E u \in LogUsers : Start(u) \/ End(u)

LoggerSpec == LoggerInit /\ [][LoggerNext]_logVars

-----------------------------------------------------------------------------
Full == {u \in LogUsers : wants[u] = "full"}

(* glog is never initialised or shut down in the wrong state; the messages *)
(* of the users go to the log as long as there is one, and nothing is      *)
(* written where no user asked for it but some thread has.                 *)
LogFollowsUsers ==
    ~thrown =>
        /\ glog = IF glog_initialized THEN "up" ELSE "down"
        /\ Full # {} => glog = "up" /\ minloglevel = 0 /\ ~logtostderr
        /\ Full = {} /\ (\E u \in LogUsers : wants[u] = "minimal") => minloglevel = 4

-----------------------------------------------------------------------------
(* What the code does not see to; TLC refutes it.  A log location that     *)
(* cannot be created leaves a counted user and a logger that is down but   *)
(* taken for initialised: the next shutdown aborts the process.            *)
NeverAborts == glog # "aborted"
=============================================================================
