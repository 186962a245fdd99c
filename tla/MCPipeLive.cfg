SPECIFICATION FairSpec
CONSTANTS
    w1 = w1
    w2 = w2
    r1 = r1
    r2 = r2
    Writers = {w1, w2}
    Readers = {r1}
    Limit = 1
    DiscardOverflow = FALSE
    Payloads <- MCPayloads
    MaxPayload = 2
    MaxWrites = 3
PROPERTIES ImplementsByteStream WritesReturn AllDelivered
