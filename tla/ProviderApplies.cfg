SPECIFICATION FairSpec
CONSTANTS
    parent = parent
    child = child
    app = app
    appsConfig = appsConfig
    docker = docker
    catalog = catalog
    path = path
    Plain = {parent, child}
    Apps = {app}
    Settings = {appsConfig}
    Paths = {path}
    Parent <- ParentOf
    Parts <- PartsOf
    Direct = {catalog}
    Families <- TwoFamilies
    Values = {v, w}
    None = None
    MaxAttempts = 2
    MaxEdits = 2
    MaxFaults = 2
INVARIANTS IInv
PROPERTIES InStateExists ForgottenIsGone Converges
