CONSTANTS
    Nodes = {"p1", "p2", "p3"}
    Key <- MCKey
    Iterators = {"i1", "i2"}
    Buffers = {"src", "dst"}
    Direct = {"dst"}
    Preset <- MCPreset
    MinSize <- MCMinSize
    MaxSize <- MCMaxSize
    CBUF_CHUNK = 2
    Letter = {"x"}
    MaxWrite = 3
    Inputs <- MCInputs
    MAX_RANGE = 4
    HostIterators = {"i1"}
    MaxHosts = 4
    WordBits = 4
    ByteBits = 2
    Sizes = {4, 6}
    Others <- MCOthers
SPECIFICATION Spec
INVARIANTS EachOnce HostsKept SearchesAgree
PROPERTY IsStream
CHECK_DEADLOCK FALSE
