SPECIFICATION FolderSpec
CONSTANTS
    Names = {"a b", "a_b"}
    BaseOf <- Base
    FileOrder <- TopFiles
    MaxCopies = 1
    Settings <- SomeSettings
    AtFirst <- HandMade
    Editors <- Admins
    Readers <- Reader
    GroupsOf <- OpsOf
    AdminUsers <- AdminList
    CodeEditors <- EditorList
    MaxEdits = 2
    MaxCrashes = 1
    Conf = "conf"
    Runners = {"r1", "r2"}
    Logs = {"l1", "l2"}
    OldDisks <- Disks
    NewRunners <- New
    MaxStops = 3
    MaxLosses = 1
INVARIANTS ScriptsSound LoadFinds UpgradeSound
PROPERTIES StartEnds ImplementsRegistry
CHECK_DEADLOCK FALSE
