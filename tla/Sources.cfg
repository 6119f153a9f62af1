CONSTANTS
    NoOne = NoOne
    Unsupported = Unsupported
    Actor = {gui, request}
    Editing = {gui}
    Running = {request}
    ProjectFile = "project"
    Path <- MCPath
    Inside <- MCPath
    Identifier <- MCIdentifier
    ScriptId <- MCScriptId
    ScriptTemplate <- MCScriptTemplate
    MaxElements = 4
    WriteOrder <- MCWriteOrder
    NodePaths <- MCNodePaths
    ScriptPaths <- MCScriptPaths
    NodeId <- MCNodeId
    InitialFiles <- MCInitialFiles
    Rewrites <- MCRewrites
    FormIds = {"b"}
    FormTemplates = {"reticulum.python.backbone"}
    FormCommands = {"default"}
    ScriptTexts = {"edited"}
    MaxSaves = 2
    MaxFaults = 2
    MaxCrashes = 1
SPECIFICATION Spec
CHECK_DEADLOCK FALSE
INVARIANTS
    LoadableWhenFree
    DiskMatchesSources
PROPERTIES
    CustomFilesKept
    FailedSaveRestores
    GuestTakesEdits
    NoLostUpdate
