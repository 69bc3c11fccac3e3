\* The line discipline against the terminal its comments describe: reads of
\* one to five bytes on a buffer of four characters.
SPECIFICATION LdiscSpec
CONSTANTS
    LDISC_BUFFER_SIZE = 4
    Letters <- TwoLetters
    Counts <- SomeBytes
PROPERTIES
    ImplementsLineBuffer
