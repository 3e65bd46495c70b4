CONSTANTS
  Size = 8
  Node <- MCNode
  KeyOf <- MCKeyOf
  ValOf <- MCValOf
  NULL = NULL
  PlistHead = PlistHead
SPECIFICATION Spec
INVARIANTS RedBlack NoLoops WalksAgree AugmentedIsMax
PROPERTIES TreeImplementsList PlistImplementsList OperationsReturn
