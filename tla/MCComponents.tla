---------------------------- MODULE MCComponents ----------------------------
(***************************************************************************)
(* The components that share no state with another one, checked together:  *)
(* in each behaviour one of them runs, and the others keep an initial      *)
(* state.                                                                  *)
(*                                                                         *)
(* The heap of the allocator has up to five pages of four units, one size  *)
(* is rounded up, and requests are of no to two pages.  Two threads lock   *)
(* the handle; two addresses show a second mapping, one failing mmap() a   *)
(* lock that is counted and lost.  The phone lies on its back or is turned *)
(* about one axis (see MCG5Sensord for the other attitudes).  The filters  *)
(* are read from files of three lines, complete, cut, or with counts that  *)
(* reach the tables behind their own.                                      *)
(***************************************************************************)
EXTENDS BestFitAllocator, HandleLock, InputEventReader, G5Sensord, DeviceForStrategy,
        CameraInstance, CameraParameters, AudioFilter

VARIABLE component

MCSizes == {0, 1, 3, 4, 6, 8}
MCHeapSizes == {1, 16, 19}
FilterLine(k, c, n, m, f) ==
    [kind |-> k, code |-> c, fields |-> n, more |-> m, flag |-> f, over |-> 0]
MCLines ==
    {FilterLine("rx_iir", c, n, 0, TRUE) : c \in {1, Unknown}, n \in 0..3}
    \cup {FilterLine("adrc", 0, n, 0, TRUE) : n \in 0..2}
    \cup {FilterLine("eq", 2, n, 0, f) : n \in 0..2, f \in BOOLEAN}
    \cup {FilterLine("mbadrc", 2, 2, m, TRUE) : m \in {0, 2}}
    \cup {[FilterLine("mbadrc", 0, n, 0, TRUE) EXCEPT !.over = 2] : n \in 0..2}
    \cup {[FilterLine("mbadrc", 2, 2, 0, TRUE) EXCEPT !.over = 3]}
    \cup {FilterLine("tx_iir", c, n, m, TRUE) : c \in {8, Unknown}, n \in {2, 3}, m \in 0..2}
    \cup {FilterLine("agc", 0, 2, 0, f) : f \in BOOLEAN}
    \cup {FilterLine("ns", 0, 2, 0, TRUE), FilterLine("other", 0, 0, 0, FALSE)}

Up == {<<0, 0, 1>>, <<1, 0, 0>>, <<-1, 0, 0>>, <<0, 1, 0>>, <<0, -1, 1>>, <<1, 0, 1>>}

allVars == <<vars, lockVars, readerVars, daemonVars, policyVars, instanceVars, parametersVars,
             filterVars, component>>

Components ==
    {"allocator", "lock", "reader", "daemon", "policy", "instance", "parameters", "filter"}

(* Where a component may begin in several states, one that rests does not. *)
ComponentsInit ==
    /\ component \in Components
    /\ Init /\ LockInit /\ ReaderInit /\ DaemonInit /\ PolicyInit /\ InstanceInit
    /\ ParametersInit /\ FilterInit
    /\ component # "lock" => kind = "framebuffer" /\ cleanable /\ base = 1
    /\ component # "daemon" => file = "absent"
    /\ component # "parameters" => sensorType = "3mp" /\ refusals = {}
    /\ component # "filter" => library

allocator ==
    /\ component = "allocator" /\ Next
    /\ UNCHANGED <<lockVars, readerVars, daemonVars, policyVars, instanceVars, parametersVars,
                   filterVars, component>>

InLocking(A) ==
    /\ component = "lock" /\ A
    /\ UNCHANGED <<vars, readerVars, daemonVars, policyVars, instanceVars, parametersVars,
                   filterVars, component>>

reader ==
    /\ component = "reader" /\ ReaderNext
    /\ UNCHANGED <<vars, lockVars, daemonVars, policyVars, instanceVars, parametersVars,
                   filterVars, component>>

daemon ==
    /\ component = "daemon" /\ DaemonNext
    /\ UNCHANGED <<vars, lockVars, readerVars, policyVars, instanceVars, parametersVars,
                   filterVars, component>>

policy ==
    /\ component = "policy" /\ PolicyNext
    /\ UNCHANGED <<vars, lockVars, readerVars, daemonVars, instanceVars, parametersVars,
                   filterVars, component>>

InInstance(A) ==
    /\ component = "instance" /\ A
    /\ UNCHANGED <<vars, lockVars, readerVars, daemonVars, policyVars, parametersVars,
                   filterVars, component>>

parameters ==
    /\ component = "parameters" /\ ParametersNext
    /\ UNCHANGED <<vars, lockVars, readerVars, daemonVars, policyVars, instanceVars,
                   filterVars, component>>

filter ==
    /\ component = "filter" /\ FilterNext
    /\ UNCHANGED <<vars, lockVars, readerVars, daemonVars, policyVars, instanceVars,
                   parametersVars, component>>

ComponentsNext ==
    \/ allocator \/ InLocking(LockNext) \/ reader \/ daemon \/ policy
    \/ InInstance(InstanceNext) \/ parameters \/ filter

(* The fairness is that of LockSpec and InstanceSpec; the others have none. *)
ComponentsSpec ==
    /\ ComponentsInit /\ [][ComponentsNext]_allVars
    /\ \A t \in Threads : WF_allVars(InLocking(InLock(t) \/ InUnlock(t)))
    /\ WF_allVars(InInstance(creating)) /\ WF_allVars(InInstance(releasing))
    /\ \A w \in Workers : WF_allVars(InInstance(working(w)))
=============================================================================
