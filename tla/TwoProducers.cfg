SPECIFICATION Spec
CONSTANTS
    i1 = i1
    i2 = i2
    i3 = i3
    i4 = i4
    NoItem = NoItem
    Items <- MCItems
    Size <- MCSize
    Batches <- MCBatches
    WordSize <- MCWord
    Producers = {main, watcher}
    Consumers = {w1, w2}
INVARIANTS
    QuiescentAgreement
PROPERTIES
    ImplementsCounted
CHECK_DEADLOCK FALSE
