CONSTANTS
  Extensions <- MCExtensions
  Any = "*"
  Unknown = "unknown"
  NoExtension = "none"
  Payloads = {"none", "small", "big"}
  Nothing = "none"
  Names = {"", "n"}
  Calls = {c1}
  Services <- MCServices
  VendorOf <- MCVendorOf
  Configurations <- MCConfigurations
  Jobs <- MCJobs
  SizeOf <- MCSizeOf
SPECIFICATION FairSpec
CHECK_DEADLOCK FALSE
INVARIANTS TypeOK PolicyRespected VerdictHonoured PassesUnchanged
PROPERTIES KeepsServiceContract Ends
