------------------------------ MODULE Addresses ------------------------------
(***************************************************************************)
(* Listen and backend addresses (internal/netaddr), the backends that an   *)
(* ingress accepts and the destinations of an egress (internal/httpserver).*)
(*                                                                         *)
(* A host is <<"ip", address, spelling>>, where the spelling is "mapped"   *)
(* for an IPv4 address written as IPv6, or <<"name", name, spelling>>,     *)
(* where it is "upper" for a name that is not in lower case.  NoHost is    *)
(* the empty host.  A parsed URL, socket or host:port is a record; what    *)
(* net/url and net/netip do to text is the difference between records.     *)
(***************************************************************************)
EXTENDS Integers, Sequences, SequencesExt, FiniteSets

CONSTANTS
    None,       \* nothing: a listener's destination, a host without upstream
    Error,      \* an address or a configuration that is refused
    Loopbacks,  \* bound: the addresses of 127.0.0.0/8 and ::1
    Anywhere    \* bound: the unspecified addresses 0.0.0.0 and ::

NoHost == <<"name", "", "lower">>

\* netip.ParseAddr succeeds; Addr.Unmap; strings.ToLower; strings.EqualFold(_, "localhost").
IsAddr(host) == host[1] = "ip"
Unmap(host) == <<"ip", host[2], "plain">>
ToLower(host) == IF IsAddr(host) THEN host ELSE <<"name", host[2], "lower">>
IsLocalhost(host) == ~IsAddr(host) /\ host[2] = "localhost"
LoopbackAddr(host) == IsAddr(host) /\ host[2] \in Loopbacks
IsUnspecified(host) == IsAddr(host) /\ host[2] \in Anywhere /\ host[3] = "plain"

-----------------------------------------------------------------------------
\* Endpoint: a backend has a URL, whose scheme, host and resolved port it keeps.
Endpoint(network, socket, backend, scheme, host, port) ==
    [network |-> network, socket |-> socket, backend |-> backend, scheme |-> scheme, host |-> host, port |-> port]

\* "unix:" and a socket, or a host:port; the port is Error when host:port cannot be split.
ParseListen(value) ==
    IF value.socket # None THEN Endpoint("unix", value.socket, FALSE, None, NoHost, 0)
    ELSE Endpoint("tcp", None, FALSE, None, value.host, value.port)

\* The port is None when the URL has none, Error when it is empty, no number or too large.
backendPort(url) ==
    CASE url.port = None -> IF url.scheme = "https" THEN 443 ELSE 80
      [] url.port \in {Error, 0} -> Error
      [] OTHER -> url.port

\* A socket path that is neither absolute nor abstract is Error.
parseUnixBackend(url) ==
    IF url.socket = Error THEN Error
    ELSE Endpoint("unix", url.socket, TRUE, "http", <<"name", "localhost", "lower">>, 0)

\* https has no unix form: such a URL has a scheme that is none of the three.
splitUnixScheme(url) == url.socket # None /\ url.scheme \in {"http", "h2c"}

\* more is what follows the host: nothing, "/", or what a backend may not contain.
ParseBackend(url) ==
    IF splitUnixScheme(url) THEN parseUnixBackend(url)
    ELSE IF \/ url.socket # None \/ url.scheme \notin {"http", "https", "h2c"} \/ url.host = NoHost
            \/ url.more \notin {"", "/"} \/ backendPort(url) = Error
         THEN Error
         ELSE Endpoint("tcp", None, TRUE, IF url.scheme = "h2c" THEN "http" ELSE url.scheme, url.host, backendPort(url))

IsLoopback(e) == (e.backend \/ (e.network = "tcp" /\ e.port # Error)) /\ LoopbackAddr(e.host)

identity(e) ==
    CASE ~e.backend -> None
      [] e.backend /\ e.network = "unix" -> <<"unix", e.socket>>
      [] OTHER -> <<e.scheme, IF IsAddr(e.host) THEN Unmap(e.host) ELSE ToLower(e.host), e.port>>

SameDestination(e, other) == identity(e) # None /\ identity(e) = identity(other)

\* Mutant: the addresses are compared as they are written.
TargetsWritten(e, listener) ==
    /\ e.backend
    /\ IF "unix" \in {e.network, listener.network} THEN e.network = listener.network /\ e.socket = listener.socket
       ELSE /\ listener.port = e.port
            /\ IsAddr(e.host) \/ IsLocalhost(e.host)
            /\ \/ listener.host = NoHost \/ IsUnspecified(listener.host)
               \/ IsLocalhost(listener.host) /\ (IsLocalhost(e.host) \/ LoopbackAddr(e.host))
               \/ IsLocalhost(e.host) /\ LoopbackAddr(listener.host)
               \/ IsAddr(e.host) /\ listener.host = e.host

TargetsListener(e, listener) ==
    /\ e.backend
    /\ IF "unix" \in {e.network, listener.network} THEN e.network = listener.network /\ e.socket = listener.socket
       ELSE /\ listener.port = e.port
            /\ IsAddr(e.host) \/ IsLocalhost(e.host)
            /\ \/ listener.host = NoHost \/ IsUnspecified(listener.host)
               \/ IsLocalhost(listener.host) /\ (IsLocalhost(e.host) \/ LoopbackAddr(e.host))
               \/ IsLocalhost(e.host) /\ LoopbackAddr(listener.host)
               \/ IsAddr(e.host) /\ IsAddr(listener.host) /\ Unmap(listener.host) = Unmap(e.host)

-----------------------------------------------------------------------------
\* The backends of an ingress, or Error.
ingressBackends(config) ==
    LET reference == ParseBackend(config.reference)
        candidate == ParseBackend(config.candidate)
        listen == ParseListen(config.listen)
    IN  IF Error \in {reference, candidate} THEN Error
        ELSE IF \/ candidate.network # "unix" /\ ~IsLoopback(candidate)
                \/ SameDestination(reference, candidate)
                \/ TargetsListener(candidate, listen)
                \/ TargetsListener(reference, listen)
             THEN Error
             ELSE [reference |-> reference, candidate |-> candidate]

targetsListener(endpoint, listeners) == \E l \in listeners : TargetsListener(endpoint, l)

\* The destinations in host pattern order, or Error. The upstreams are the entries of the
\* map sorted by key; a key with a port is marked, and a pattern is a name or "*".
egressDestinations(upstreams, listeners) ==
    LET refused(i) ==
            \/ upstreams[i].name = NoHost \/ upstreams[i].colon
            \/ \E j \in 1..i-1 : ToLower(upstreams[j].name) = ToLower(upstreams[i].name)
            \/ ParseBackend(upstreams[i].url) = Error
            \/ targetsListener(ParseBackend(upstreams[i].url), listeners)
    IN  IF \E i \in DOMAIN upstreams : refused(i) THEN Error
        ELSE [i \in DOMAIN upstreams |->
                [pattern |-> ToLower(upstreams[i].name), endpoint |-> ParseBackend(upstreams[i].url)]]

\* glob.Pattern.Match.
GlobMatches(pattern, name) == pattern[2] = "*" \/ pattern = name

\* The first destination that matches a host name, 0 if none does.
destination(destinations, host) ==
    SelectInSeq(destinations, LAMBDA d : GlobMatches(d.pattern, ToLower(host)))

\* The endpoint for a request's host and port, None if there is none.
upstream(destinations, listeners, host, port) ==
    LET i == destination(destinations, host)
        received == ParseBackend([scheme |-> "http", socket |-> None, host |-> host, port |-> port, more |-> ""])
    IN  IF i > 0 THEN destinations[i].endpoint
        ELSE IF received = Error THEN None
        ELSE IF targetsListener(received, listeners) THEN None
        ELSE received

-----------------------------------------------------------------------------
(* What the checks of addresses promise, against what net.Listen and       *)
(* net.Dial do.                                                            *)

\* An unspecified address, however it is written.
Unspecified(host) == IsAddr(host) /\ host[2] \in Anywhere

\* The addresses a listener accepts on, and those a backend may be dialled at, as far as
\* they are known without resolving names.  local are the addresses of this machine, which
\* an unspecified address stands for.
Bound(listener, local) ==
    IF listener.host = NoHost \/ Unspecified(listener.host) THEN local
    ELSE IF IsAddr(listener.host) THEN {listener.host[2]}
    ELSE IF IsLocalhost(listener.host) THEN Loopbacks ELSE {}

Dialled(e) ==
    IF IsLocalhost(e.host) \/ Unspecified(e.host) THEN Loopbacks
    ELSE IF IsAddr(e.host) THEN {e.host[2]} ELSE {}

Reaches(e, listener, local) ==
    IF "unix" \in {e.network, listener.network} THEN e.network = listener.network /\ e.socket = listener.socket
    ELSE e.port = listener.port /\ Dialled(e) \cap Bound(listener, local) # {}

\* TargetsListener takes the unspecified address of a backend, or one of a listener that is
\* written as a mapped IPv6 address, for an address like any other.
TakenLiterally(e, listener) == Unspecified(e.host) \/ (Unspecified(listener.host) /\ ~IsUnspecified(listener.host))

\* A backend that would reach a listener is found to target it, however the address and the
\* listener's are written, unless it is taken literally; one with another port or socket is
\* not found to.
LoopsFound(e, listener, local) ==
    /\ Reaches(e, listener, local) => TargetsListener(e, listener) \/ TakenLiterally(e, listener)
    /\ TargetsListener(e, listener) =>
           \/ Reaches(e, listener, local)
           \/ {e.network, listener.network} = {"tcp"} /\ e.port = listener.port /\ Bound(listener, local) = local

\* Two spellings of a destination are treated alike wherever addresses are checked.
SpellingsAlike(e, other, listener) ==
    SameDestination(e, other) =>
        /\ TargetsListener(e, listener) = TargetsListener(other, listener)
        /\ IsLoopback(e) = IsLoopback(other)

\* Two backends are the same server: one socket, or one scheme, port and address.
SameServer(e, other) ==
    IF "unix" \in {e.network, other.network} THEN e.network = other.network /\ e.socket = other.socket
    ELSE e.scheme = other.scheme /\ e.port = other.port /\ Dialled(e) \cap Dialled(other) # {}

\* An ingress is only built with a candidate on this machine that is not the server of the
\* reference, unless the reference is written as localhost or an unspecified address, which
\* SameDestination does not resolve; whoever spells the candidate's address otherwise gets
\* the same answer.
BackendsApart(config, respelled) ==
    LET built == ingressBackends(config)
    IN  /\ built # Error =>
            /\ SameServer(built.reference, built.candidate) =>
                  IsLocalhost(built.reference.host) \/ Unspecified(built.reference.host)
            /\ built.candidate.network = "tcp" => Dialled(built.candidate) \subseteq Loopbacks
        /\ /\ Error \notin {ParseBackend(config.candidate), ParseBackend(respelled)}
           /\ SameDestination(ParseBackend(config.candidate), ParseBackend(respelled))
           => (ingressBackends([config EXCEPT !.candidate = respelled]) = Error <=> built = Error)

\* No request that an egress forwards comes back to one of its listeners, neither through a
\* configured destination nor to a host as received, unless an address is taken literally.  A
\* host has the same destination in any case and with any port.
NothingLoops(upstreams, listeners, host, port, local) ==
    LET destinations == egressDestinations(upstreams, listeners)
        to == upstream(destinations, listeners, host, port)
    IN  destinations # Error =>
            /\ to # None => \A l \in listeners : Reaches(to, l, local) => TakenLiterally(to, l)
            /\ destination(destinations, ToLower(host)) > 0 =>
                    to = upstream(destinations, listeners, ToLower(host), None)

==============================================================================
