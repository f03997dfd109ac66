SPECIFICATION Spec
CONSTANTS
  Tenants = {"dev", "prod"}
  Objects <- MCObjects
  Shapes = {"two", "empty", "off", "broken"}
  SpecOf <- MCSpecOf
  MaxChanges = 1
INVARIANTS
  TypeOK
  NotInstalledIsTrue
PROPERTIES
  SelectsDeclaredTenant
  LoadingEnds
  OnlyOneIsSelected
