SPECIFICATION Spec
CONSTANTS
    m1 = m1  m2 = m2  t1 = t1  t2 = t2
    NoMessage = NoMessage  NoTopic = NoTopic
    Ids = {1, 2}
    Messages = {m1, m2}
    Topics = {t1, t2}
    TopicOf <- RetainedTopic
    Empty = {m2}
    Expiring = {m1}
    Malformed = {}
    Versions = {5}
    MaxInflight = 2
    MaxReceive = 2
    MaxRetained = 2
    MaxAttachments = 2
INVARIANTS
    AcceptedOnce
    CompletedDelivered
    RetainedPromise
    
