SPECIFICATION Spec
CONSTANTS
    Threads = {t1}
    Liberties = {{"restart"}}
INVARIANT
    StartedServiceIsUsable

CHECK_DEADLOCK FALSE
