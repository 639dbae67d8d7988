SPECIFICATION FairSpec
CONSTANTS
    f1 = f1
    f2 = f2
    Files = {f1, f2}
    Home <- HomeOwn
    Workers = {w1, w2}
    Edits = {"write", "create", "movein", "save", "remove", "rename"}
    Qualities = {"good"}
    Disciplines = {"none", "calm"}
    MaxEdits = 2
    None = None
CHECK_DEADLOCK FALSE
INVARIANTS CalmFollowed
PROPERTIES NoRegress Drains
