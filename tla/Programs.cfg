SPECIFICATION FairSpec
CONSTANTS
  NumProc = 5
  Sigs = {0, 16, 18, 20, 31}
  FreeSigs = {16, 31}
  Eax = {7}
  Scenarios = {"spawner", "test_send_recv_fail", "sender_1", "sender_2",
    "receiver_3", "sender_4", "gets_preempted", "sleeping",
    "test_syssighandler", "test_syskill", "test_syssigwait",
    "test_stack_sigtramp", "root", "handling"}
INVARIANTS
  HandlersNest
  NestingBounded
  SignalsAreDelivered
  ResultsAsPromised
  QueuesSound
  AllStoppedAtReturn
PROPERTY
  TestsEnd
CHECK_DEADLOCK FALSE
