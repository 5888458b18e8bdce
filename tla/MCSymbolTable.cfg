CONSTANTS
  Names <- MCNames
  InitSize = 2
  Junk = Junk
SPECIFICATION Spec
INVARIANT TypeOK
INVARIANT SearchTree
INVARIANT HeightBalanced
PROPERTY ImplementsInterning
