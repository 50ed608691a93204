CONSTANTS
  D11 = D11
  D12 = D12
  NoDist = NoDist
  NoQual = NoQual
  Bad = Bad
  Packages <- MCPackages
  Vulns <- MCVulns
  Distros <- MCDistros
  NoDistro <- NoDist
  NoQualifier <- NoQual
  Malformed <- Bad
  ProviderCanFail = TRUE

SPECIFICATION Spec

INVARIANTS
  TypeOK
  MatchesExact

\* The scan ends once every package has been matched.
CHECK_DEADLOCK FALSE
