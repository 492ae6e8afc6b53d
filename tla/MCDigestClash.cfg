CONSTANTS
    Chars <- MCChars
    MaxIdLen = 2
    Nodes <- MCNodes
SPECIFICATION Spec
INVARIANT
    UniqueInstanceNames
