\* Two scripts at a time.
SPECIFICATION Spec
CONSTANTS
    Scripts = {1, 2}
    Daemons = {1, 2, 3}
    Commands = {"start", "stop", "restart", "run"}
INVARIANT OneBroker
\* Everything may have ended.
CHECK_DEADLOCK FALSE
