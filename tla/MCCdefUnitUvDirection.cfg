\* spec.md 4.2 says that for 4:2:0 chroma luma direction 0 maps to 7.
CONSTANTS
  SkipPatterns <- MCSkipPatterns
  PrimaryStrengths <- MCPrimaryStrengths
  SecondaryStrengths <- MCSecondaryStrengths
  Variances <- MCVariances
  Damping = 6

SPECIFICATION Spec

INVARIANT ChromaDirectionAsSpecified

\* One block is computed and the step is not repeated.
CHECK_DEADLOCK FALSE
