SPECIFICATION ImportSpec
CONSTANTS
    n1 = n1
    n2 = n2
    v1 = v1
    v2 = v2
    none = none
    f1 = f1
    f2 = f2
    k1 = k1
    s1 = s1
    None = None
    Ids = {1, 2}
    Names = {n1, n2}
    NewNames = {n1}
    Values = {v1, v2, none}
    RemoteValues = {v2}
    PrivateValues = {v1}
    Placeholder = none
    Folders = {f1, f2}
    Keeps = {k1}
    SettingKeys = {s1}
    Documents <- TwoDocuments
    InitialDatabases <- AnyDatabase
    Refs <- AllRefs
    MaxStamp = 3
    EditsUntil = 2
    MaxFiles = 3
    MaxTokens = 1
CHECK_DEADLOCK FALSE
INVARIANTS
  ImportIsSafe
  ConfirmedOnce
PROPERTIES
  ImportRestoresTheExport
