----------------------------- MODULE AccessRules -----------------------------
(***************************************************************************)
(* Who may talk to the exporter: IsIPAllowed and matchesIP of              *)
(* config/security.go, which IPFilterMiddleware asks for every request.    *)
(*                                                                         *)
(* A plain rule is compared with the client's address as TEXT, a CIDR rule *)
(* by parsing both.  The text of a client is what net/http prints, so a    *)
(* rule written another way (in capitals, uncompressed) is valid and       *)
(* matches nobody; and the text of a link-local IPv6 client carries a      *)
(* zone, which no rule can have and net.ParseIP does not parse.            *)
(***************************************************************************)
CONSTANT Addresses

Client == [address : Addresses, zoned : BOOLEAN]

\* A rule as written, and the addresses it means: what CIDR.Contains says of a
\* network (external), the one address otherwise.
Rule == [form : {"plain", "respelled", "cidr", "unparsable"},
         meant : SUBSET Addresses]

\* isValidIP, and the validator's isValidIPOrCIDR.
IsValidIP(rule) == rule.form # "unparsable"

\* matchesIP.
MatchesIP(client, rule) ==
    /\ rule.form \in {"plain", "cidr"}
    /\ ~client.zoned
    /\ client.address \in rule.meant

\* IsIPAllowed; before it, the slip of looking at the allowed addresses first.
AllowedFirst(client, allowed, denied) ==
    \/ \E rule \in allowed : MatchesIP(client, rule)
    \/ allowed = {} /\ \A rule \in denied : ~MatchesIP(client, rule)
IsIPAllowed(client, allowed, denied) ==
    /\ \A rule \in denied : ~MatchesIP(client, rule)
    /\ allowed = {} \/ \E rule \in allowed : MatchesIP(client, rule)

-----------------------------------------------------------------------------
\* What the lists mean, whatever the spelling.

Named(client, rules) == \E rule \in rules : client.address \in rule.meant
MeantToEnter(client, allowed, denied) ==
    ~Named(client, denied) /\ (allowed = {} \/ Named(client, allowed))

\* The filter can read the client and every rule.
Legible(client, rules) ==
    ~client.zoned /\ \A rule \in rules : rule.form \in {"plain", "cidr"}
=============================================================================
