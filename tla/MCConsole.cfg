SPECIFICATION ConsoleSpec
CONSTANTS
    Tasks = {t1, t2, t3}
    None = None
    MaxProcesses = 3
    MaxKeys = 2
CHECK_DEADLOCK FALSE
INVARIANTS TypeOK ListIntact ProcessTable KeyboardOwned PanicOnlyWhenEmpty KeysFollowFocus
PROPERTIES FailedLoadHarmless ImplementsQueue ShellGetsKeys NoStarvation
