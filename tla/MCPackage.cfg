SPECIFICATION Spec
CONSTANTS
    app = app
    lib = lib
    Names = {app, lib}
    Versions = {1, 2}
    Depends <- Needs
    Archived <- InArchives
    VersionControlled <- InGit
    Existing <- OfUser
    SelfReplace = FALSE
INVARIANTS
    RecordBacked
    NoLitter
    PrerequisitesConfigured
