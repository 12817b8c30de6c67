SPECIFICATION FairSpec
CONSTANTS
  e1 = e1  e2 = e2  t1 = t1  t2 = t2  g1 = g1  g2 = g2  j1 = j1  j2 = j2
  Events = {e1}
  Topics = {t1}
  TopicOf <- MCTopicOf
  Groups = {g1, g2}
  Consumers = {}
  Jobs = {j1}
  MaxCopies = 2
PROPERTIES EveryRowIsPublished
\* Every message may have been consumed and every row deleted.
CHECK_DEADLOCK FALSE
