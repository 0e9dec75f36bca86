SPECIFICATION Spec
CONSTANTS
  Configs <- MCConfigs
  Retries = 3
  MaxResets = 2
INVARIANTS
  DnsIsOptional
