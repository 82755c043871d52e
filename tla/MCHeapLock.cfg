SPECIFICATION KernelSpec
CONSTANTS
    RSDP_V1 = 2
    SDT_HEADER = 2
    RESET_END = 4
    PORT_MAX = 7
    Machines <- KernelOnly
    Commands = {"echo", "tg-serial", "ls", "mkdir", "alloc!", "bp", "panic", "reboot", "shutdown"}
    Firmwares <- MCFirmwares
CHECK_DEADLOCK FALSE
INVARIANT HeapLockSafe
