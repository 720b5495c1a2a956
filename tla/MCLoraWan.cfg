SPECIFICATION BenchSpec
CONSTANTS
    Parts = {"frames", "devices", "gateways", "stream", "codings"}
    Conns = {c1, c2, c3}
    None = None
    server_socket = 3
    FdLimit = 5
    MaxMsgs = 2
    Address = {1, 2}
    GwSocket = {3, 4, 5}
    Rssi <- Strengths
    Fixed <- TwoDevices
    Preset <- TwoDevices
    MaxDev = 3
    Device = {1, 2}
    Socket = {4, 5}
    AppSize = {20, 239}
    Index = 256
    Counter = 2
    MaxSent = 4
    XorByte <- Xor
    AES <- ToyAES
    InvAES <- ToyInvAES
INVARIANTS
    CounterOnce
    GatewaysServed
    DecodedIsCoded
PROPERTIES
    DevicesRouted
SYMMETRY Symmetry
CHECK_DEADLOCK FALSE
