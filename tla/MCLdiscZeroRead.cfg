\* The same with reads of no bytes: ldisc_read may be asked for nothing.
SPECIFICATION LdiscSpec
CONSTANTS
    LDISC_BUFFER_SIZE = 4
    Letters <- TwoLetters
    Counts <- AnyBytes
PROPERTIES
    ReadTakesWhatItReturns
