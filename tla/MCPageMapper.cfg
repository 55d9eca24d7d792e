CONSTANTS
  Frames = {0, 1, 2, 3, 4}
  Lengths = {1}
  Refused = Refused
  Width = 2
  Root = 0
  Pages = {5, 12}
  Devices = {5}
  Ranges <- MCRanges
  Flags <- MCFlags
  Contents <- MCContents
  Nowhere = Nowhere
SPECIFICATION Spec
INVARIANTS
  TypeOK
  TablesFormATree
  NoFrameLost
  StaleOnlyIfStray
  IdentityRangeIsMapped
PROPERTY SpaceSpec
