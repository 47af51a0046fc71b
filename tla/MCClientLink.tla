----------------------------- MODULE MCClientLink -----------------------------
(* Instances of ClientLink for TLC.                                         *)
EXTENDS ClientLink

CONSTANTS h1, h2   \* model values

(* The client, its calls, and the faults.                                   *)
Case(ipc, retry, new, limited, callers, threads, call, crash, restart, alarm) ==
  [ipc |-> ipc, retry |-> retry, new |-> new, limited |-> limited,
   callers |-> callers, threads |-> threads, call |-> call, crash |-> crash,
   restart |-> restart, alarm |-> alarm]

OneRestart   == Case("tcp", TRUE,  0, FALSE, 1, FALSE, 2, 1, 1, 0)
AsyncNewHost == Case("tcp", FALSE, 1, FALSE, 2, FALSE, 2, 1, 0, 0)
TwoCrash     == Case("tcp", TRUE,  0, FALSE, 2, TRUE,  2, 1, 0, 0)
TwoNoRetry   == Case("tcp", FALSE, 0, FALSE, 2, TRUE,  3, 1, 1, 0)
TwoAlarm     == Case("tcp", TRUE,  0, FALSE, 2, TRUE,  2, 0, 0, 1)
OneLimited   == Case("tcp", TRUE,  0, TRUE,  1, FALSE, 2, 0, 0, 1)
ShmRestart   == Case("shm", TRUE,  0, FALSE, 1, FALSE, 2, 1, 1, 0)
ShmAlarm     == Case("shm", TRUE,  0, FALSE, 1, FALSE, 2, 0, 0, 1)
ShmNoRetry   == Case("shm", FALSE, 0, FALSE, 1, FALSE, 2, 1, 0, 0)
ShmNewHost   == Case("shm", FALSE, 1, TRUE,  1, FALSE, 2, 1, 0, 0)

MCCases == {OneRestart, TwoCrash, AsyncNewHost, TwoNoRetry, TwoAlarm, OneLimited,
            ShmRestart, ShmAlarm, ShmNoRetry, ShmNewHost}

(* For the properties that do not hold.                                     *)
MCRestart  == {OneRestart}
MCNewHost  == {AsyncNewHost}
MCTwoCrash == {TwoCrash}
MCShmCrash == {Case("shm", TRUE, 0, FALSE, 1, FALSE, 1, 1, 0, 0)}
MCShmAlarm == {ShmAlarm}
=============================================================================
