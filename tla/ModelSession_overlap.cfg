SPECIFICATION SessionSpec
CONSTANTS
  Handlers = {h1, h2, h3, h4}
  Parallel = 2
  MaxRequests = 3
  MaxInput = 4
  MaxOutput = 3
  MaxUsd = 7
  PriceIn = 1
  PriceOut = 2
  Sizes = {1, 2}
  Asks = {1, 4}
  Fan = 1
  Slack = 1
  LossyStreams = FALSE
SYMMETRY Symmetry
INVARIANT CutsOffExactly
CHECK_DEADLOCK FALSE
