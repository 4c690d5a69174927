\* Every combination of unit index, skip pattern, strengths, variance,
\* direction, chroma subsampling and plane count for one 8x8 block.
CONSTANTS
  SkipPatterns <- MCSkipPatterns
  PrimaryStrengths <- MCPrimaryStrengths
  SecondaryStrengths <- MCSecondaryStrengths
  Variances <- MCVariances
  Damping = 6

SPECIFICATION Spec

INVARIANT TypeOK
INVARIANT NoUninitializedDirection
INVARIANT LumaPrimaryWithinConfigured

\* One block is computed and the step is not repeated.
CHECK_DEADLOCK FALSE
