SPECIFICATION Spec
CONSTANTS
    m1 = m1  m2 = m2  t1 = t1  t2 = t2
    NoMessage = NoMessage  NoTopic = NoTopic
    Ids = {1}
    Messages = {m1, m2}
    Topics = {}
    TopicOf <- NotRetained
    Empty = {}
    Expiring = {}
    Malformed = {}
    Versions = {4, 5}
    MaxInflight = 1
    MaxReceive = 1
    MaxRetained = 0
    MaxAttachments = 3
INVARIANTS
    AcceptedOnce
    CompletedDelivered
    NoOrphanDelivery
SYMMETRY Interchangeable
