SPECIFICATION Spec
CONSTANTS
    Bits = {0, 1}
    PortBits = 2
    MaxPort = 3
    NoPort <- NegativeOne
    MaxIndexed = 2
    LeafSize = 1
    MaxDepth = 2
    Descriptions <- SomeDescriptions
    Batches <- SomeBatches
    MaxId = 3
INVARIANTS IInv LookupsAgree
PROPERTIES CleanupKeepsAnswers
