CONSTANTS
  Pool = {1, 2, 3, 4, 5, 6, 7, 8, 9, 10}
  a1 = a1
  UserSpaces = {a1}
  Kernel = Kernel
  ENTRIES = 4
  PAGE_SIZE = 2
  PPages <- MCPPages
  Requests <- MCRequests
  Touched = {3, 4}
  APIC_VADDR = 192
  APIC_BASE_ADDR = 200
  BootPml4 = 50
  BootPdp = 51
  MAX_CREATED = 3
  NotPresent = NotPresent
  Junk = Junk
SPECIFICATION Spec
INVARIANTS
  EveryTableAccounted
  TlbFresh
  KernelHalfShared
PROPERTY RefinesAddressSpace
