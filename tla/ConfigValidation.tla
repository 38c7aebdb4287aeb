----------------------------- MODULE ConfigValidation -----------------------------
(***************************************************************************)
(* What internal/config/validation.go accepts.  A configuration is a       *)
(* record of one server and one route: every check is about one field of   *)
(* one of them, but for the route's server.  A text is told apart by what  *)
(* becomes of it: "" (absent), "bad" (a check refuses it), "ok", and       *)
(* "loopback" for a URL of the machine itself, which only the client of    *)
(* Sleep-on-LAN refuses.                                                   *)
(***************************************************************************)
EXTENDS Integers, TLC

\* The values of a text field: a secret, a name, a URL.
Texts == {"", "bad", "ok", "loopback"}

\* A configuration file: whether it can be read and parsed, and its fields.
ConfigFiles ==
    [file : {"ok", "unreadable", "malformed"},
     gwURL : Texts, gwKey : Texts, gwTimeout : Int, level : Texts, format : Texts,
     mgmtOn : BOOLEAN, mgmtPort : Int, metricsOn : BOOLEAN, metricsPort : Int,
     wolOn : BOOLEAN, machineID : Texts, wolTimeout : Int, debounce : Int,
     solOn : BOOLEAN, solEndpoint : Texts, idleTimeout : Int,
     hcEndpoint : Texts, hcInterval : Int, hcTimeout : Int, hcToken : Texts,
     routeName : Texts, listen : Int, upstream : Texts, server : {"", "known", "unknown"}]

ValidURL(u)     == u \notin {"", "bad"}
ValidPort(p)    == p \in 1..65535
ValidTimeout(t) == t > 0
Optional(t)     == t = 0 \/ ValidTimeout(t)

ValidateGwaihir(c) ==
    [gwURL |-> c.gwURL # "" => ValidURL(c.gwURL), gwTimeout |-> Optional(c.gwTimeout)]

ValidateLogging(c) == [level |-> c.level # "bad", format |-> c.format # "bad"]

ValidateObservability(c) ==
    [mgmtPort    |-> c.mgmtOn => ValidPort(c.mgmtPort),
     metricsPort |-> c.metricsOn => ValidPort(c.metricsPort)]

\* The options of a feature are looked at only if it is enabled.
ValidateServers(c) ==
    [wolTimeout  |-> c.wolOn => Optional(c.wolTimeout),
     debounce    |-> c.wolOn => Optional(c.debounce),
     solEndpoint |-> c.solOn => ValidURL(c.solEndpoint),
     idleTimeout |-> c.solOn => Optional(c.idleTimeout),
     hcEndpoint  |-> c.hcEndpoint # "" => ValidURL(c.hcEndpoint),
     hcInterval  |-> c.hcEndpoint # "" => Optional(c.hcInterval),
     hcTimeout   |-> c.hcEndpoint # "" => Optional(c.hcTimeout),
     hcToken     |-> c.hcEndpoint # "" => c.hcToken # "bad"]

ValidateRoutes(c) ==
    [routeName |-> c.routeName # "", listen |-> ValidPort(c.listen),
     upstream  |-> ValidURL(c.upstream), server |-> c.server # "unknown"]

\* All fields are checked, and those that fail are reported together.
Validate(c) ==
    LET checks == ValidateGwaihir(c) @@ ValidateLogging(c) @@ ValidateObservability(c)
                    @@ ValidateServers(c) @@ ValidateRoutes(c)
    IN {f \in DOMAIN checks : ~checks[f]}

Load(c) == c.file = "ok" /\ Validate(c) = {}
================================================================================
