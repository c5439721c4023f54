CONSTANTS
    PsTables <- MCPsTables
    Logs <- MCLogs
SPECIFICATION Spec
INVARIANT FreshModuleEachWindow
