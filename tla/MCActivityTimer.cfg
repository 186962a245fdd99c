SPECIFICATION FairSpec
CONSTANTS
    none = none
    main = main
    up = up
    down = down
    extra = extra
    Creator = main
    Callers = {up, down, extra}
INVARIANTS TypeOK  OneClock
PROPERTIES QuietEnds TimerStops
CHECK_DEADLOCK FALSE
