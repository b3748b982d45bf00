\* One update by the installer, among at most three saves by two requests.
SPECIFICATION ConfigSpec
CONSTANTS
    Savers = {c1, c2}
    Files <- MCFiles
    Edits <- MCEdits
    Posts <- MCPosts
    Template <- MCTemplate
    MaxSaves = 3
INVARIANTS
    InstallMerges
CHECK_DEADLOCK FALSE
