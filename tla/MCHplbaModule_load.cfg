\* The driver inserted and removed twice; every call may fail.
SPECIFICATION ModuleSpec
CONSTANTS
  h1 = h1
  h2 = h2
  h3 = h3
  Handles = {h1, h2, h3}
  PnpIds <- MCPnpIds
  FunctionId <- MCFunctionId
  OldKernel = TRUE
  Faults = {"class", "interface", "csr", "acpi_device", "pci_id", "kmalloc", "device_add"}
  MaxLoads = 2
INVARIANTS OneDevicePerBridge AllFound NothingLeft
CHECK_DEADLOCK FALSE
