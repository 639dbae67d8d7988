SPECIFICATION Spec
CONSTANTS
    f1 = f1
    f2 = f2
    Files = {f1, f2}
    Home <- HomeOwn
    Workers = {w1, w2}
    Edits = {"write"}
    Qualities = {"good"}
    Disciplines = {"started"}
    MaxEdits = 2
    None = None
SYMMETRY WorkerSymmetry
INVARIANT Reloaded
CHECK_DEADLOCK FALSE
