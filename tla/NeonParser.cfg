CONSTANTS
    Tags = {"OBJECT", "SUMMARY"}
    AttrLists <- MCAttrLists
    MaxNodes = 7
    MaxDepth = 3
SPECIFICATION Spec
INVARIANT TypeOK
INVARIANT OpenPathIsAlive
INVARIANT TreeIsDocument
INVARIANT ListIsWhole
CHECK_DEADLOCK FALSE
