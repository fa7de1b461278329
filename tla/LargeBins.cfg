\* Four chunks of sizes from one bin that differ in every bit of the key, with
\* one from the bin above and one far above.
CONSTANTS
    MaxChunks = 4
    Sizes = {256, 260, 264, 280, 288, 304, 320, 1024}
    Searches = {256, 264, 272, 288, 296, 304, 312, 328, 2000}
SPECIFICATION Spec
INVARIANT FindsBestFit
INVARIANT AllLinked
CHECK_DEADLOCK FALSE
