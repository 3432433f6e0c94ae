CONSTANTS
    t1 = t1  t2 = t2  t3 = t3
    Tasks = {t1, t2, t3}
    Projects = {p}
    Workers = {w}
    UI = ui
    Inbox = inbox
    None = none
    First <- MCFirst
    Root = t1
    MaxWrites = 3
SPECIFICATION Spec
INVARIANT SuccessIsWritten
CHECK_DEADLOCK FALSE
