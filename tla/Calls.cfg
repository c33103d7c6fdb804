SPECIFICATION FairSpec
CONSTANT Programs <- MCPrograms
INVARIANTS TypeOK GroupsAgree CallHasItsType
PROPERTIES ImplementsCallBinding Termination
