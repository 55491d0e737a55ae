SPECIFICATION Spec
CONSTANTS
  Controller = {c1, c2}
  Attempts = 2
  MaxFaults = 2
  MaxWrites = 2
INVARIANTS TypeOK OneOffice OfficesInOrder VersionCountsWrites
PROPERTY OfficeIsFilled
