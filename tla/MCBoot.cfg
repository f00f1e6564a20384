SPECIFICATION Spec
CONSTANTS
    sub = sub  repo = repo  tmp = tmp  top = top
    data = data  lib = lib  site = site
    App = App  None = None  Relative = Relative
    Dirs = {sub, repo, tmp, top, data, lib, site, App}
    Prefix = {lib, site}
    Walks <- MCWalks
    Environments <- MCEnvironments
    MaxLaunches = 2
INVARIANTS
    RefusedBeforeWriting
    ClientOverrulesOnlyNoKey
    TasksStartLast
    WritesAreWarned
    OneDatabasePerEnvFile
