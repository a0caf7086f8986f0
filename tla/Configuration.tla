------------------------------ MODULE Configuration ------------------------------
(***************************************************************************)
(* From a configuration file to running streams: config::validate() accepts  *)
(* or refuses, then the publisher, the network route, the endpoints and the   *)
(* video channels each read the same keys again with checks of their own.     *)
(* A URL is the record of its parts; numbers are what both parsers read (see  *)
(* ConfigNumber), and keys that only have a range are left out.               *)
(***************************************************************************)
EXTENDS ConfigNumber, FiniteSets

CONSTANTS
    Configs,           \* the files, as records of the keys
    IPv4, HostNames    \* hosts that are addresses, and other hosts

Protocols == {"rtsp", "rtmp"}
Streams == {"main", "ai"}
NoPort == 0
MaxPort == 65535
BadPort == -1          \* not a number, zero or above MaxPort
Missing == [scheme |-> "", host |-> "", port |-> NoPort, path |-> ""]

\* A file: protocols switched on, failover and npu, and by stream the URLs
\* [scheme, host, port, path] (NoPort when absent), codec, size and frame rates
\* [src, dst] of the form [num, den]; the sizes of RockIVA and the ISP's rate.
ASSUME ConfigurationAssumption ==
    \A c \in Configs :
        /\ c.on \subseteq Protocols
        /\ {c.failover, c.npu} \subseteq BOOLEAN
        /\ \A p \in Protocols, s \in Streams : c.url[p][s].port \in BadPort..MaxPort
        /\ \A s \in Streams, end \in {"src", "dst"} :
              {c.rate[s][end].num, c.rate[s][end].den} \subseteq Nat \ {0}
        /\ c.isp \in Nat

VARIABLES
    conf,       \* what the file says
    stage,      \* how far the start has come
    route,      \* host and probe ports of the network route, or none
    endpoints,  \* the endpoints that were added
    vi          \* stream -> frame rate that its VI channel delivers

configVars == <<conf, stage, route, endpoints, vi>>

None == [host |-> "", ports |-> {}]

ConfigInitWith(c) ==
    /\ conf = c
    /\ stage = "validate" /\ route = None /\ endpoints = {}
    /\ vi = [s \in Streams |-> 0]
ConfigInit == \E c \in Configs : ConfigInitWith(c)

-----------------------------------------------------------------------------
(* config::validate() *)

UsedUrls == conf.on \X Streams
Url(u) == conf.url[u[1]][u[2]]

UrlOk(u) ==
    /\ Url(u) # Missing /\ Url(u).scheme = u[1]
    /\ Url(u).host \in IPv4 \cup HostNames
    /\ Url(u).port # BadPort /\ Url(u).path # ""

UrlsDiffer(p) == conf.url[p]["main"] # conf.url[p]["ai"]

\* The receiver is kept across streams and protocols.
OneReceiver ==
    conf.failover => \A u \in UsedUrls, w \in UsedUrls : Url(u).host \in IPv4 /\ Url(u).host = Url(w).host

RateOk(s) ==
    LET src == conf.rate[s].src
        dst == conf.rate[s].dst
    IN  /\ dst.num >= dst.den /\ dst.num % dst.den = 0
        /\ dst.num * src.den <= src.num * dst.den /\ dst.num <= conf.isp * dst.den

CodecsOk ==
    \A s \in Streams :
        conf.codec[s] \in {"H.264", "H.265"} /\ ("rtmp" \in conf.on => conf.codec[s] = "H.264")
SizesOk ==
    /\ \A s \in Streams : conf.size[s] % 2 = 0
    /\ conf.npu => conf.iva = conf.size["ai"]

Valid ==
    /\ conf.on # {}
    /\ \A u \in UsedUrls : UrlOk(u)
    /\ OneReceiver
    /\ \A p \in conf.on : UrlsDiffer(p)
    /\ \A s \in Streams : RateOk(s)
    /\ CodecsOk /\ SizesOk

Validate ==
    /\ stage = "validate"
    /\ stage' = IF Valid THEN "publisher" ELSE "refused"
    /\ UNCHANGED <<conf, route, endpoints, vi>>

-----------------------------------------------------------------------------
(* The start. Failures of devices, sockets and threads are in other modules. *)

\* ffmpeg_publisher_init(), before anything is created.
Publisher ==
    /\ stage = "publisher"
    /\ stage' = IF /\ CodecsOk /\ \A s \in Streams : conf.size[s] % 2 = 0
                   /\ conf.on # {}
                   /\ \A u \in UsedUrls : Url(u) # Missing
                THEN "route" ELSE "failed"
    /\ UNCHANGED <<conf, route, endpoints, vi>>

\* Mutant: the default ports are mixed up.
ProbePortSwapped(u) ==
    IF Url(u).port > 0 THEN Url(u).port ELSE IF u[1] = "rtsp" THEN 1935 ELSE 554

ProbePort(u) ==
    IF Url(u).port > 0 THEN Url(u).port ELSE IF u[1] = "rtsp" THEN 554 ELSE 1935
ProbePorts == {ProbePort(u) : u \in UsedUrls}

\* The checks of initialize_network_route() and of NetworkRoute's constructor.
RouteAccepted ==
    /\ \A u, w \in UsedUrls : Url(u).host = Url(w).host
    /\ \A u \in UsedUrls : Url(u).host \in IPv4
    /\ Cardinality(ProbePorts) \in 1..4
    /\ ProbePorts \subseteq 1..MaxPort

Route ==
    /\ stage = "route"
    /\ \/ ~conf.failover /\ stage' = "endpoints" /\ UNCHANGED route
       \/ /\ conf.failover /\ RouteAccepted /\ stage' = "endpoints"
          /\ \E u \in UsedUrls : route' = [host |-> Url(u).host, ports |-> ProbePorts]
       \/ conf.failover /\ ~RouteAccepted /\ stage' = "failed" /\ UNCHANGED route
    /\ UNCHANGED <<conf, endpoints, vi>>

\* add_endpoint(): an endpoint without a URL is left out in silence.
Endpoint(u) ==
    [protocol |-> u[1], stream |-> u[2], url |-> Url(u), audio |-> u[2] = "main"]

Endpoints ==
    /\ stage = "endpoints"
    /\ endpoints' = {Endpoint(u) : u \in {w \in UsedUrls : Url(w) # Missing}}
    /\ stage' = "video"
    /\ UNCHANGED <<conf, route, vi>>

\* create_vi() divides the frame rate in whole numbers.
Video ==
    /\ stage = "video"
    /\ vi' = [s \in Streams |-> conf.rate[s].dst.num
                                \div (IF conf.rate[s].dst.den > 1 THEN conf.rate[s].dst.den ELSE 1)]
    /\ stage' = "ready"
    /\ UNCHANGED <<conf, route, endpoints>>

ConfigNext == Validate \/ Publisher \/ Route \/ Endpoints \/ Video

ConfigSpec == ConfigInit /\ [][ConfigNext]_configVars

-----------------------------------------------------------------------------
(* Properties *)

\* What validation accepts is accepted everywhere: a bad file is refused before
\* any device or network is touched (main.cpp:138), never halfway.
RefusedEarly == stage # "failed"

\* Each stream of each enabled protocol is published, to a URL that no other
\* endpoint uses, and sound goes with the main streams.
EveryStreamPublished ==
    stage = "ready" =>
        /\ {<<e.protocol, e.stream>> : e \in endpoints} = UsedUrls
        /\ \A e, f \in endpoints : e # f => e.url # f.url
        /\ \A e \in endpoints : e.audio <=> e.stream = "main"

\* Where an endpoint's IO goes: FFmpeg takes 554 and 1935 when no port is given.
IoPort(e) ==
    IF e.url.port # NoPort THEN e.url.port ELSE IF e.protocol = "rtsp" THEN 554 ELSE 1935

\* With failover the route leads to the receiver of every endpoint, and every port
\* that an endpoint uses is probed, so a link is good only if all can publish.
RouteServesAll ==
    stage = "ready" /\ conf.failover =>
        \A e \in endpoints : e.url.host = route.host /\ IoPort(e) \in route.ports

\* The frames a VI channel delivers are those its encoder is told, not a rounded
\* number, and no more than the sensor gives.
RatesExact ==
    stage = "ready" =>
        \A s \in Streams :
            vi[s] * conf.rate[s].dst.den = conf.rate[s].dst.num /\ vi[s] \in 1..conf.isp

\* A file whose rules hold means the same to all code that reads it later: the
\* publisher and the route accept it, and streams, probes and frame rates are
\* those it asks for.
RulesHonoured ==
    RefusedEarly /\ EveryStreamPublished /\ RouteServesAll /\ RatesExact

\* An INI file that validate() accepts means the same to all code that reads it
\* later, number by number (ConfigNumber) and rule by rule.
ConfigurationHonoured == NumbersAgree /\ RulesHonoured
=============================================================================
