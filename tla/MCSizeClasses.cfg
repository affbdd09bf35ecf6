SPECIFICATION Spec
CONSTANT PageSizes <- RealPageSizes
INVARIANTS TypeOK SmallestClass SpansFit
