CONSTANTS
  D11 = D11
  NoDist = NoDist
  NoQual = NoQual
  Bad = Bad
  Packages <- MCPackages
  UpstreamsOf <- MCUpstreamsOf
  Vulns <- MCVulns
  Distros <- MCDistros
  NoDistro <- NoDist
  NoQualifier <- NoQual
  Malformed <- Bad
  ProviderCanFail = FALSE

SPECIFICATION UpSpec

INVARIANT IndirectSearchedByInstalled

CHECK_DEADLOCK FALSE
