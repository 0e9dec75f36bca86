SPECIFICATION FairSpec
CONSTANTS
  Configs <- MCConfigs
  Retries = 3
  MaxResets = 2
INVARIANTS
  TypeOK
  ServesComplete
PROPERTIES
  FileDecides
  BootsWhateverTheLan
