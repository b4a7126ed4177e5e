SPECIFICATION TextSpec
CONSTANTS
    Py_None = Py_None
    h1 = h1
    q1 = q1
    l1 = l1
    Handlers = {h1, q1}
    Queues = {q1}
    Listening = {l1}
    Formatters <- MCFormatters
    Calls <- MCCalls
    Rewrites <- MCRewrites
    Hash <- MCHash
    Stem <- MCStem
INVARIANTS
    TextTypeOK
    TextIsOwn
    QueuedArrivesOnce
