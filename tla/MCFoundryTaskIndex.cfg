\* Two creations, two branches, one pull request, one later change, one failing call.
SPECIFICATION Spec
CONSTANTS
    c1 = c1
    c2 = c2
    v1 = v1
    main = main
    other = other
    None = None
    Creations = {c1, c2}
    Virtual = {v1}
    Branches = {main, other}
    Wishes <- Wanted
    Changing = {c1}
    MaxTouches = 1
    MaxPulls = 1
    MaxFailures = 1
INVARIANTS OneTaskPerBranch OpenedWithBranch ListedAsIs
PROPERTIES EventuallyListed
CHECK_DEADLOCK FALSE
