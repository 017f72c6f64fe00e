----------------------------- MODULE MCExporter -----------------------------
\* Environments and requests for Exporter: a guarded exporter with both lists, an
\* open one with a cookie, one with a rule that matches nobody, and three that
\* are at fault.
EXTENDS Exporter

Open ==
    [tls |-> FALSE, cert |-> "", key |-> "", tlsVersion |-> "1.2",
     auth |-> FALSE, authUser |-> 0, authPass |-> 0,
     limit |-> FALSE, requests |-> 100, window |-> 60, blockTime |-> 300,
     allowed |-> {}, denied |-> {}]
Rules ==
    [Open EXCEPT !.auth = TRUE, !.authUser = 4, !.authPass = 8, !.limit = TRUE,
                 !.allowed = {[form |-> "cidr", meant |-> {"inside", "banned"}]},
                 !.denied = {[form |-> "plain", meant |-> {"banned"}]}]

Guarded ==
    [address |-> [parses |-> TRUE, scheme |-> "http", host |-> TRUE, port |-> 8332],
     user |-> 4, pass |-> 8, cookie |-> "unset",
     rpcTimeout |-> 30 * Second, zmqAddress |-> "tcp", zmqEnabled |-> FALSE,
     zmqTimeout |-> 10 * Second, interval |-> [text |-> "unset", n |-> 0],
     metricPort |-> <<>>, metricsPort |-> <<>>, path |-> "/metrics",
     logLevel |-> "info", environment |-> "development", security |-> Rules]
WithCookie ==
    [Guarded EXCEPT !.user = 0, !.pass = 0, !.cookie = "readable", !.zmqAddress = "",
                    !.security.auth = FALSE, !.security.limit = FALSE,
                    !.security.allowed = {},
                    !.security.denied = {[form |-> "cidr", meant |-> {"banned"}]}]

MCEnvironments ==
    {Guarded, WithCookie,
     [Guarded EXCEPT !.zmqAddress = "",
          !.security.denied = {[form |-> "respelled", meant |-> {"banned"}]}],
     [Guarded EXCEPT !.path = "/health", !.security = Open],
     [WithCookie EXCEPT !.metricsPort = <<70000>>],
     [Guarded EXCEPT !.security.authPass = 7]}
LessEnvironments == {Guarded}

\* Requests from addresses on each side of the lists.
MCRequests ==
    {r \in Requests : /\ r.path # "metrics" => ~r.authentic
                      /\ r.client.zoned => r.client.address = "banned"}

From(address) == [address |-> address, zoned |-> FALSE]
LessRequests ==
    {[path |-> p, client |-> From("inside"), authentic |-> TRUE] : p \in {"metrics", "ready"}}
=============================================================================
