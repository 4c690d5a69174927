\* Both directions, every frame size from 1 to 200 pixels, luma and
\* subsampled chroma.
CONSTANTS
  LargeValue = LargeValue
  Large <- LargeValue
  Sizes <- MCSizes
  Subsampling = {0, 1}

SPECIFICATION Spec

INVARIANT BorderMatchesAvailability

\* One call of PrepareCdefBlock per behaviour.
CHECK_DEADLOCK FALSE
