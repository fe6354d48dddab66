SPECIFICATION FairSpec
CONSTANTS
  t1 = t1
  t2 = t2
  t3 = t3
  Thread <- MCThread
  hash_thread_id <- MCHash
  INITIAL_IMPLICIT_PRODUCER_HASH_SIZE = 2
  MallocMayFail = TRUE
  invalid = invalid
INVARIANTS TypeOK NeverFull OneProducer OnTheList
PROPERTIES SameProducer CallsReturn
