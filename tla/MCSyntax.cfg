SPECIFICATION FairSyntaxSpec
CONSTANT Files <- MCFiles
INVARIANTS OpenIsLast LinesInOrder SpansPoint SyntaxTypeOK DroppedOrReported SectionsNest TablesFit
PROPERTY ParseEnds
