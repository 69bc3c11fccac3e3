\* The line discipline alone: keys and reads in every order on a buffer of
\* four characters, reads of no byte up to five bytes.
SPECIFICATION LdiscSpec
CONSTANTS
    LDISC_BUFFER_SIZE = 4
    Letters <- TwoLetters
    Counts <- AnyBytes
INVARIANTS
    LdiscTypeOK
    RawLineIsRaw
PROPERTIES
    KeepsTypedOrder
