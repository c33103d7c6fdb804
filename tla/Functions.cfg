SPECIFICATION FairSpec
CONSTANT Functions <- SomeFunctions
INVARIANTS TypeOK EveryBlockCloses
PROPERTIES ClosedBlocksStay ImplementsPromise Termination
