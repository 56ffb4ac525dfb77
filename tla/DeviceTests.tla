---------------------------- MODULE DeviceTests ----------------------------
(***************************************************************************)
(* The kernel of Keyboard, built without or with the device tests of       *)
(* src/c/init.c.  Each test is a process of its own, which test_device()   *)
(* creates when the one before has stopped.                                *)
(*                                                                         *)
(* A test is a sequence of calls with what it asserts of them: the result, *)
(* and the characters that were read.  A test whose assertion fails loops  *)
(* for ever.  Strings have the length of the driver's buffer, as they do   *)
(* in the code.                                                            *)
(***************************************************************************)
EXTENDS Keyboard

VARIABLE at   \* the next call of test_device, or 0 in a kernel without tests

testVars == <<vars, at>>

Call(op, n, c, want, chars) == [op |-> op, n |-> n, c |-> c, want |-> want, chars |-> chars]

Anything == {}

Opens(dv, want)     == Call("open", dv, 0, {want}, <<>>)
Closes(fd, want)    == Call("close", fd, 0, {want}, <<>>)
Writes(fd)          == Call("write", fd, 0, {-1}, <<>>)
Controls(fd)        == Call("control", fd, 0, {-1}, <<>>)
SetsEof(fd, c)      == Call("ioctl", fd, c, {0}, <<>>)
Inserts(c)          == Call("insert", 0, c, Anything, <<>>)
Reads(len, chars)   == Call("read", len, 0, {Len(chars)}, chars)
Waits(len)          == Call("wait", len, 0, 0 .. len, <<>>)
CreatesIdle         == Call("create", 2, 0, Anything, <<>>)
Kills               == Call("kill", 2, 0, Anything, <<>>)
Exits               == Call("exit", 1, 0, Anything, <<>>)
Starts              == Call("start", 1, 0, Anything, <<>>)

Letter(i)    == 96 + i                          \* "abc..."
Exclamation  == 33                              \* '!'
TEST_STR_SIZE == BufLen + 1                     \* more than the driver holds
SHORT_BUF_SIZE == (BufLen + 1) \div 2           \* less than that

Letters(n)     == [i \in 1 .. n |-> Letter(i)]
InsertsAll(s)  == [i \in DOMAIN s |-> Inserts(s[i])]

test_sysopen ==
  <<Opens(-1, -1), Opens(NumDevice, -1), Opens(0, 0), Opens(0, -1), Opens(1, -1),
    Closes(0, 0), Opens(1, 0), Closes(0, 0)>>

test_sysclose ==
  <<Closes(0, -1), Closes(-1, -1), Closes(NumFd, -1), Opens(0, 0), Closes(0, 0),
    Closes(0, -1), Opens(1, 0), Closes(0, 0)>>

test_syswrite ==
  <<Writes(-1), Writes(NumFd), Writes(0), Opens(0, 0), Writes(0), Closes(0, 0)>>

test_sysioctl ==
  <<Controls(0), Opens(0, 0), Controls(0), SetsEof(0, Exclamation)>>
  \o InsertsAll(Letters(BufLen - 1) \o <<Exclamation>>)
  \o <<Reads(TEST_STR_SIZE, Letters(BufLen - 1)), Reads(TEST_STR_SIZE, <<>>),
       Closes(0, 0)>>

test_nonblocking_sysread ==
  <<Opens(0, 0)>> \o InsertsAll(Letters(BufLen))
  \o <<Reads(SHORT_BUF_SIZE, Letters(SHORT_BUF_SIZE)), Closes(0, 0)>>

test_blocking_sysread == <<CreatesIdle, Opens(1, 0), Waits(TEST_STR_SIZE), Kills>>

test_sysread_eof ==
  <<Opens(0, 0)>> \o InsertsAll(Letters(BufLen - 1) \o <<DEFAULT_EOF>>)
  \o <<Reads(TEST_STR_SIZE, Letters(BufLen - 1)), Reads(TEST_STR_SIZE, <<>>)>>

Test(s) == <<Starts>> \o s \o <<Exits>>

test_device ==
  Test(test_sysopen) \o Test(test_sysclose) \o Test(test_syswrite)
  \o Test(test_sysioctl) \o Test(test_nonblocking_sysread)
  \o Test(test_blocking_sysread) \o Test(test_sysread_eof)

-----------------------------------------------------------------------------

\* create() by test_device(), after dispatch() has returned because every
\* process has stopped.
Start ==
  /\ \A p \in Procs : state[p] = "STOPPED"
  /\ state' = [state EXCEPT ![1] = "READY"]
  /\ opened_dv' = [opened_dv EXCEPT ![1] = [fd \in Fds |-> None]]
  /\ irc' = [irc EXCEPT ![1] = 0]
  /\ UNCHANGED <<ringVars, reqVars, statusVars, controller, halted>>

\* test_insert_char() puts a character into the ring, as a key would.
test_insert_char(c) ==
  /\ size < BufLen
  /\ kb_buf' = [kb_buf EXCEPT ![(head + size) % BufLen] = c]
  /\ size' = size + 1
  /\ eof_in_buf' = (eof_in_buf \/ c = eof)
  /\ UNCHANGED <<procVars, head, reqVars, owner, eof, eof_reached, controller,
                 halted>>

\* The test goes on to its next call.
Performs(c) ==
  \/ c.op = "start" /\ Start
  \/ c.op = "open" /\ (OpenFails(1, c.n) \/ \E fd \in Fds : Open(1, c.n, fd))
  \/ c.op = "close" /\ (CloseFails(1, c.n) \/ Close(1, c.n))
  \/ c.op = "write" /\ Write(1)
  \/ c.op = "control" /\ IoctlFails(1)
  \/ c.op = "ioctl" /\ Ioctl(1, c.n, c.c)
  \/ c.op = "insert" /\ Calls(1) /\ test_insert_char(c.c)
  \/ /\ c.op \in {"read", "wait"}
     /\ \/ ReadBlocks(1, 0, c.n) \/ ReadAfterEof(1, 0, c.n)
        \/ ReadReturns(1, 0, c.n) \/ ReadAborts(1, 0, c.n)
  \/ c.op = "create" /\ Create(1, c.n)
  \/ c.op = "kill" /\ Calls(1) /\ UNCHANGED vars
  \/ c.op = "exit" /\ Stop(1)

\* What the test asserts of the call before.
Asserted ==
  LET c == test_device[at - 1]
  IN  /\ c.want # Anything => irc[1] \in c.want
      /\ c.op = "read" => text = c.chars

Tests ==
  /\ at \in DOMAIN test_device
  /\ at > 1 => Asserted
  /\ Performs(test_device[at])
  /\ at' = at + 1

\* The idle process of test_blocking_sysread() stops when it is killed.
IdleStops ==
  /\ \E i \in 1 .. at - 1 : test_device[i].op = "kill"
  /\ Stop(2)
  /\ UNCHANGED at

\* Whoever runs the tests types when asked to, key after key.
Asked == state[1] = "READING" /\ controller = <<>>

TypesKey == (at = 0 \/ Asked) /\ Typing /\ UNCHANGED at

Interrupts == keyboard_lower /\ UNCHANGED at

FreeProgram == at = 0 /\ (\E p \in Procs : Requested(p)) /\ UNCHANGED at

TestedInit ==
  /\ Init
  /\ \/ at = 0
     \/ at = 1 /\ \A p \in Procs : state[p] = "STOPPED"

TestedNext == FreeProgram \/ Tests \/ IdleStops \/ TypesKey \/ Interrupts

TestedSpec == TestedInit /\ [][TestedNext]_testVars

\* Somebody keeps typing, and the controller keeps interrupting.
FairSpec == TestedSpec /\ WF_testVars(TypesKey) /\ WF_testVars(Interrupts)

-----------------------------------------------------------------------------

\* Every device test passes: each call returns what the test asserts although
\* interrupts come between the calls, a read blocks only where the test expects
\* it to, and neither the end of input nor the characters of one test reach the
\* next.
DeviceTestsPass ==
  at > 1 =>
    IF state[1] = "READING" THEN test_device[at - 1].op = "wait" ELSE Asserted

=============================================================================
