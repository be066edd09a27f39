CONSTANTS
  Extensions <- MCExtensions
  Any = "*"
  Unknown = "unknown"
  NoExtension = "none"
  Payloads = {"none", "small", "big"}
  Nothing = "none"
  Names = {"", "n"}
  Calls = {c1}
  Services <- MCServices
  VendorOf <- MCVendorOf
  Configurations <- MCConfigurations
  Jobs <- MCJobs
  SizeOf <- MCSizeOf
SPECIFICATION Spec
CHECK_DEADLOCK FALSE
INVARIANT WaitsForClamav
