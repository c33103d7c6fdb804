SPECIFICATION Spec
CONSTANTS
  Bits <- MCBits
  Programs <- Sums
INVARIANT WidthsArePromoted
