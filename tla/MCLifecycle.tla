---------------------------- MODULE MCLifecycle ----------------------------
EXTENDS Lifecycle, TLC

Perms == Permutations(Slots \ {init})

Program(calls, sent, waits) ==
    [calls |-> {"fork", "exit"} \cup calls, sent |-> sent, waits |-> waits,
     slots |-> 3]

JobControl == Program({"wait4", "kill"}, {SIGHUP, SIGSTOP, SIGCONT}, {-1})
StopAndDie == Program({"wait4", "kill"}, {SIGSTOP, SIGPROF}, {3})
PauseAndKill == Program({"pause", "kill"}, {SIGKILL, SIGSTOP}, {})
Reaping == Program({"wait4", "sigaction"}, {}, {-1})
GroupsOnly == Program({"wait4", "setsid", "setpgid"}, {}, {0, -3})
Sessions == Program({"setsid", "kill"}, {SIGHUP}, {})

\* INIT, a grandparent, a parent and the child sys_fork() is building.
Generations == [Program({"wait4"}, {}, {-1}) EXCEPT !.slots = 4]

MCPrograms ==
    {JobControl, StopAndDie, PauseAndKill, Reaping, GroupsOnly, Sessions,
     Generations}
============================================================================
