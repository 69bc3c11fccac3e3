\* Two lines cooked before a reader comes: does one read stop at the first?
SPECIFICATION LdiscSpec
CONSTANTS
    LDISC_BUFFER_SIZE = 4
    Letters <- TwoLetters
    Counts <- SomeBytes
INVARIANTS
    ReadStopsAtNewline
