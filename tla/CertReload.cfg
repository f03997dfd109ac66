\* Two rotations, the second of which can meet the reload of the first, and one
\* crash, so that a process with other files on disk follows one that served.
SPECIFICATION FairSpec
CONSTANTS
  MaxRotations = 2
  MaxCrashes = 1
INVARIANTS
  TypeOK
  LoadedIsNotified
PROPERTIES
  ImplementsServingCertificate
  RotationServed
