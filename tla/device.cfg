\* A release image; namespaces with and without a version; resets, reflashes
\* and flash failures.
CONSTANTS
  Texts <- AllTexts
  Kconfig <- ReleaseImage
  Mac = "qesp-010203"
  Absent = Absent
  WritesMayFail = TRUE
  MaxRetry = 2
  Namespaces <- AllNamespaces
  MaxFaults = 3
SPECIFICATION Spec
INVARIANTS
  TypeOK
  BootsRepeatable
  ProvisionedKept
  NeverAbandoned
  AddressHonest
PROPERTIES
  BootEnds
  Recovers
