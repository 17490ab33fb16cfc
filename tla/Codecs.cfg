CONSTANT MAX_BLOCK_SIZE = 130
SPECIFICATION Spec
CHECK_DEADLOCK FALSE
INVARIANT ExecutesAsDefined
INVARIANT NormalizedTablesAgree
INVARIANT SequencesRoundTrip
INVARIANT HuffmanTablesAgree
INVARIANT StreamVerdictsAgree
INVARIANT LiteralsRoundTrip
INVARIANT ParsesDecode
INVARIANT LongMatchesHold
