SPECIFICATION Spec
CONSTANTS
  ALT_MAX_FD = 6
  console = "/dev/jtag_uart_0"
  null = "/dev/null"
  FileSystems <- OneFileSystem
  NoDev = "none"
INVARIANT
  PoolIsWhatIsOpen
PROPERTY
  LockKeepsOthersOut
