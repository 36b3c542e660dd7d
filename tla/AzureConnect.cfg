SPECIFICATION FairSpec
INVARIANTS
  TypeOK
  ReadyIsSubscribed
  OneClient
PROPERTIES
  ProvisionedOnce
  Reconnects
