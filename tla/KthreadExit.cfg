\* The constants of Kernel.cfg; kthread.c's thread when rmmod has returned.
CONSTANTS
    Tests = {1, 2}
    Names = {"ann", "bob"}
    Nodes = {n1, n2, n3}
    my_list = my_list
    Writers = {w1}
    Procs = {p1, p2, p3}
    BUFSIZ = 4
    BUFFER_SIZE = 2
    SizeT = 16
    MapProcs = {p1, p2}
    MAX_PAGES = 2
    DefUsers = {u1, u2}
    Tasks = {t1}
    Cpus = {c1, c2}
    Pages = {g1, g2}
    NumLists = 2
    MaxCount = 1
SPECIFICATION Spec
INVARIANTS
    ThreadEndsFirst
CHECK_DEADLOCK FALSE
