SPECIFICATION Spec
CONSTANTS
  Children <- MCChildren
  Parents <- MCParents
  Docs <- MCDocs
  DocOf <- MCDocOf
  ParentOf <- MCParentOf
  PrevOf <- MCPrevOf
  NextOf <- MCNextOf
  LenOf <- MCLenOf
  At <- MCAt
  ChildrenOf <- MCChildrenOf
  Scopes <- MCScopes
  Sep = 1
  RrfK = 1
  Window = 1
  Strategies = {"child-only", "parent", "neighbors", "parent+neighbors"}
  Budgets = {4, 9}
  DenseK = 2
  LexicalK = 2
  InputK = 3
  AnchorK = 2
  MaxBlocks = 2
  MaxHandles = 2
INVARIANTS EvidenceIsSound AnswerIsSound
