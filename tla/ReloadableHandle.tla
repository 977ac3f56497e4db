-------------------------- MODULE ReloadableHandle --------------------------
(***************************************************************************)
(* What a cache built "WithConfig" promises its callers: there is exactly  *)
(* one live configuration at any time, a reconfiguration replaces it in    *)
(* one indivisible step, and every call runs against the configuration     *)
(* live at the moment it takes effect, never against a mixture of two.     *)
(***************************************************************************)
CONSTANTS
    Callers,  \* goroutines calling the cache
    Configs,  \* configurations the cache can be built from
    NoCfg     \* served before a caller's first call

VARIABLES
    live,     \* the configuration of the live instance
    served    \* served[c]: the configuration c's last call ran against

Swap(cfg) ==
    /\ live' = cfg
    /\ UNCHANGED served

Serve(c) ==
    /\ served' = [served EXCEPT ![c] = live]
    /\ UNCHANGED live

Next == (\E cfg \in Configs : Swap(cfg)) \/ (\E c \in Callers : Serve(c))

Init ==
    /\ live \in Configs
    /\ served = [c \in Callers |-> NoCfg]

Spec == Init /\ [][Next]_<<live, served>>
=============================================================================
