----------------------------- MODULE MCConnect -------------------------------
(***************************************************************************)
(* What it takes to reach the server, for TLC: a behaviour is about the    *)
(* fectun transport, the deployment of the server, the dials under the     *)
(* firewall, the network monitor, or the trace of a route.                 *)
(***************************************************************************)
EXTENDS Fectun, Deploy, Dialing, NetMonitor, Trace

VARIABLE part   \* what this behaviour is about

\* A build of two blocks; an older one of the same version has one.
MCBlocks == [b \in {"new", "old"} |-> IF b = "new" THEN 2 ELSE 1]

\* Wi-Fi without an address, at home or elsewhere; an auxiliary interface
\* with a link-local address, up or down.
MCStates == [i \in {"en0", "awdl0"} |->
    IF i = "en0" THEN {[up |-> TRUE, addrs |-> a] : a \in {{}, {"home"}, {"cafe"}}}
    ELSE {[up |-> u, addrs |-> {"fe80"}] : u \in BOOLEAN}]

\* Each part starts anywhere it can; the others in one state.
Others(p) ==
    /\ p # "deploy" => data = <<>>
    /\ p # "dial" => route = CHOOSE r \in Routes : TRUE
    /\ p # "monitor" => ifs = CHOOSE s \in [Ifaces -> UNION {States[i] : i \in Ifaces}] :
                                   \A i \in Ifaces : s[i] \in States[i]

MCInit ==
    /\ Init /\ DpInit /\ JInit /\ NInit /\ TInit
    /\ part \in {"fectun", "deploy", "dial", "monitor", "trace"} /\ Others(part)

MCNext ==
    /\ UNCHANGED part
    /\ \/ part = "fectun" /\ Next /\ UNCHANGED <<dpvars, jvars, nvars, tvars>>
       \/ part = "deploy" /\ DpNext /\ UNCHANGED <<vars, jvars, nvars, tvars>>
       \/ part = "dial" /\ JNext /\ UNCHANGED <<vars, dpvars, nvars, tvars>>
       \/ part = "monitor" /\ NNext /\ UNCHANGED <<vars, dpvars, jvars, tvars>>
       \/ part = "trace" /\ TNext /\ UNCHANGED <<vars, dpvars, jvars, nvars>>

\* Where a behaviour is not about fectun, or about a trace, no step of it that
\* has fairness is enabled.
MCSpec ==
    /\ MCInit /\ [][MCNext]_<<part, vars, dpvars, jvars, nvars, tvars>>
    /\ Fairness /\ TFairness
    /\ WF_nvars(part = "monitor" /\ WatchStep) /\ WF_nvars(part = "monitor" /\ GraceOver)
=============================================================================
