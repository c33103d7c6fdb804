SPECIFICATION Spec
CONSTANTS
  Bits <- MCBits
  Programs <- MCPrograms
INVARIANTS TypeOK TypesAsMeant AcceptsWellTyped
PROPERTY ImplementsNumberMeaning
