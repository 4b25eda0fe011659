\* Two tabs on one Panda.
SPECIFICATION SessionSpec
CONSTANTS
    t1 = t1
    t2 = t2
    Tab = {t1, t2}
    Watching = {t1}
    MaxSim = 2
    MaxClicks = 2
    MaxFailures = 1
\* MaxSim bounds the starts, and an idle page may stay idle.
CHECK_DEADLOCK FALSE
INVARIANTS
    SessionTypeOK
    OneActor
    OneRunning
    RestAgrees
PROPERTIES
    PageMeetsActor
