CONSTANTS
    Thread = {t1, t2}
    Callback = {c1, c2, c3}
    Main = Main
    None = None
SPECIFICATION Spec
INVARIANTS NothingForgotten
PROPERTIES Refines DrainComplete AllRun
CHECK_DEADLOCK FALSE
