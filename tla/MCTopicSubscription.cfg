\* Two listeners, three subscriptions between them, two failures or changes.
SPECIFICATION Spec
CONSTANTS
    Listeners = {l1, l2}
    None = None
    Asked = Asked
    MaxSubscribes = 3
    MaxTrouble = 2
INVARIANTS SettledIsCurrent
PROPERTIES TornDownUnused GivenUpIsDisposed Served
CHECK_DEADLOCK FALSE
