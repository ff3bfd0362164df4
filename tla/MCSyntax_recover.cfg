SPECIFICATION SyntaxSpec
CONSTANT Files <- TreeFiles
INVARIANT EveryDeclarationTried
