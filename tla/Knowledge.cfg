SPECIFICATION KnowledgeSpec
CONSTANTS
    c1 = c1
    c2 = c2
    t1 = t1
    t2 = t2
    t3 = t3
    global = global
    event = event
    r1 = r1
    r2 = r2
    p1 = p1
    d1 = d1
    d2 = d2
    slug = slug
    intro = intro
    rules = rules
    doc1 = doc1
    doc2 = doc2
    doc3 = doc3
    doc4 = doc4
    general = general
    events = events
    NoText = NoText
    NoSeed = NoSeed
    NoSnapshot = NoSnapshot
    NoEntry = NoEntry
    None = None
CHECK_DEADLOCK FALSE
INVARIANTS
    PartsTyped 
PROPERTIES
    AnswersAreCurrent IndexIsTold NamingIsSound EditsAreKept
