--------------------------------- MODULE MCSmaug ---------------------------------
(* One configuration with everything in it, and those that differ from it in a   *)
(* point that startup or validation decides on.  The request is of interest with *)
(* a wake gate; where the point is another, Wake-on-LAN is off.                  *)
EXTENDS Smaug

Full ==
    [file |-> "ok", gwURL |-> "ok", gwKey |-> "ok", gwTimeout |-> 5, level |-> "ok",
     format |-> "", mgmtOn |-> TRUE, mgmtPort |-> 2112, metricsOn |-> TRUE,
     metricsPort |-> 9090, wolOn |-> TRUE, machineID |-> "ok", wolTimeout |-> 0,
     debounce |-> 5, solOn |-> TRUE, solEndpoint |-> "ok", idleTimeout |-> 300,
     hcEndpoint |-> "ok", hcInterval |-> 2, hcTimeout |-> 2, hcToken |-> "ok",
     routeName |-> "ok", listen |-> 8080, upstream |-> "ok", server |-> "known"]

NoWake == [wolOn |-> FALSE] @@ Full

Untracked == [solOn |-> FALSE, metricsOn |-> FALSE] @@ NoWake

\* 22 is another program's port.
FailsHalfway == [mgmtPort |-> 22, metricsOn |-> FALSE] @@ NoWake

Gated == [mgmtOn |-> FALSE, metricsOn |-> FALSE] @@ Full

\* Refused by Load.
Refused ==
    {[file |-> f] @@ Full : f \in {"unreadable", "malformed"}}
    \cup {(f :> "bad") @@ Full : f \in {"gwURL", "level", "format", "solEndpoint",
                                        "hcEndpoint", "hcToken", "upstream"}}
    \cup {(f :> "") @@ Full : f \in {"solEndpoint", "routeName", "upstream"}}
    \cup {(f :> -1) @@ Full : f \in {"gwTimeout", "wolTimeout", "debounce", "idleTimeout",
                                     "hcInterval", "hcTimeout"}}
    \cup {(f :> p) @@ Full : f \in {"mgmtPort", "metricsPort", "listen"}, p \in {0, 65536}}
    \cup {[server |-> "unknown"] @@ Full}

\* Loaded, with and without the point of it enabled.
Loaded ==
    {Gated, NoWake, [gwURL |-> ""] @@ Full, [gwKey |-> ""] @@ Full, [gwKey |-> ""] @@ NoWake,
     [machineID |-> ""] @@ Full, [server |-> ""] @@ Full,
     [wolTimeout |-> -1] @@ NoWake, Untracked,
     [solOn |-> FALSE, solEndpoint |-> "bad", idleTimeout |-> -1] @@ NoWake,
     [solEndpoint |-> "loopback"] @@ NoWake, [hcEndpoint |-> "", hcInterval |-> -1] @@ NoWake,
     [mgmtOn |-> FALSE, mgmtPort |-> 0] @@ NoWake, [metricsOn |-> FALSE] @@ NoWake,
     [metricsPort |-> 2112] @@ NoWake, FailsHalfway, [listen |-> 22] @@ NoWake,
     [listen |-> 2112] @@ NoWake, [listen |-> 9090] @@ NoWake}

AllConfigs    == Refused \cup Loaded
JustUntracked == {Untracked}
JustGated     == {Gated}
\* A request meets the wake gate, a startup that fails above the routes, or the panic.
WithRequest   == {Gated, FailsHalfway, Untracked}
================================================================================
