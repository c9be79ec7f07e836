SPECIFICATION ConsoleSpec
CONSTANTS
    Tasks = {t1, t2, t3}
    None = None
    MaxProcesses = 3
    MaxKeys = 1
CHECK_DEADLOCK FALSE
INVARIANT FreedTasksAreRemoved
