SPECIFICATION OutputSpec
CONSTANTS
    flush = flush
    main = main
    cleaner = cleaner
    s1 = s1
    s2 = s2
    End = End
    Producers = {flush, main}
    Owner = flush
    Disposers = {cleaner}
    Subscribers = {s1, s2}
    Readers = {s1, s2}
    MaxPushes = 3
    Texts <- SomeTexts
    MaxRead = 3
INVARIANTS OutputInOrder ClosedOnce TerminalWhole
PROPERTIES OutputEnds
CHECK_DEADLOCK FALSE
