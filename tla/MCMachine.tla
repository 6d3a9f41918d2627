---- MODULE MCMachine ----
EXTENDS Machine, Programs
MCHalt(bank) == Halts[bank+1]
MCTasks ==
  {[program |-> p, ram |-> Memory(n), masks |-> {0}, all |-> FALSE] : p \in {0, 1, 2, 3, 7}, n \in Numbers}
    \union {[program |-> p, ram |-> Memory(<<0, 0, 0, 0>>), masks |-> {53, 128}, all |-> (p = 8)] : p \in {4, 5, 6, 8, 9}}
====
