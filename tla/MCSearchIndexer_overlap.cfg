\* Two runs at once: an operator's reindex while another one is still filling its index.
CONSTANTS
    Runs = {r1, r2}
    Pages = 1
    MaxVersion = 3
    MaxBody = 1
    MaxLaunches = 3
SPECIFICATION Spec
INVARIANT SearchStaysUp
CHECK_DEADLOCK FALSE
