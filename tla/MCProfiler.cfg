CONSTANTS
    PsTables <- MCPsTables
    Logs <- MCLogs
SPECIFICATION Spec
INVARIANT FreshSample
PROPERTY SamplerSpec
