---------------------------- MODULE RelayerGate ----------------------------
(***************************************************************************)
(* The relayer's HTTP side (deploy/relayer/src/server.mjs): the startup    *)
(* checks, the listeners, and what a request must show before a method     *)
(* runs.                                                                   *)
(*                                                                         *)
(* The callers are command-line tools, which send what they like, and      *)
(* browsers (external), which ask with a preflight before a cross-origin   *)
(* JSON request, keep the permission for Access-Control-Max-Age, send a    *)
(* text/plain POST without asking, and do not ask on behalf of a page whose*)
(* own host name leads to this machine.  The machine's addresses change    *)
(* while the relayer runs.                                                 *)
(***************************************************************************)
EXTENDS Integers, FiniteSets

CONSTANTS
  Addresses,     \* network addresses the machine may have
  PageNames,     \* host names of pages; those of Addresses are this machine's
  Opaque,        \* the origin of a page without one ("null", a non-http page)
  PointedHere,   \* other names that resolve to this machine
  CorsOrigins,   \* --cors-origin: a set of names, Any or Machine
  Any, Machine,
  ApiKey,        \* is --api-key set?
  Lan,           \* --lan
  Clusters,      \* what the RPC may turn out to be
  AnyCluster,    \* --any-cluster
  MaxAge,        \* Access-Control-Max-Age, in ticks
  MaxMoves,      \* changes of the machine's addresses
  None

VARIABLES
  stage,         \* startup: "preflight", "loopback", "ipv6", "lan", "up", "dead"
  names,         \* the machine's addresses now
  allowedHosts,  \* the Host names accepted
  asked,         \* page -> ticks its browser may still use a preflight's answer
  since,         \* page -> ticks since the relayer allowed its origin (capped)
  moves,
  last           \* whose request was handled last, and whether it ran a method

vars == <<stage, names, allowedHosts, asked, since, moves, last>>

Loopback == {"localhost", "127.0.0.1", "::1"}

Pages == PageNames \cup {Opaque}

Methods == {"getPayerSigner", "getBlockhash", "signTransaction", "signAndSendTransaction"}

Protected == {"signTransaction", "signAndSendTransaction"}

-----------------------------------------------------------------------------
(* What the server decides.                                                *)

MachineHostnames == Loopback \cup names

OriginAllowed(origin) ==
  /\ origin # None /\ origin # Opaque
  /\ \/ CorsOrigins = Any
     \/ CorsOrigins \notin {Any, Machine} /\ origin \in CorsOrigins
     \/ CorsOrigins = Machine /\ origin \in MachineHostnames

\* corsHeaders: does the answer carry Access-Control-Allow-Origin for it?
CorsGrants(origin) == CorsOrigins = Any \/ OriginAllowed(origin)

HostAllowed(host) == host \in allowedHosts

\* A bug: the body is read whatever its type.
TypeAccepted_Any(ctype) == TRUE

TypeAccepted(ctype) == ctype = "application/json"

\* handle: the first condition that is not met names the answer.
Answer(req) ==
  CASE ~HostAllowed(req.host) -> "421"
    [] HostAllowed(req.host) /\ req.verb = "OPTIONS" -> "204"
    [] HostAllowed(req.host) /\ req.verb = "GET" -> "status"
    [] HostAllowed(req.host) /\ req.verb = "POST" ->
         IF ~TypeAccepted(req.ctype) THEN "415"
         ELSE IF req.body # "rpc" THEN req.body
         ELSE IF req.rpc \notin Methods THEN "-32601"
         ELSE IF ApiKey /\ req.rpc \in Protected /\ ~req.key THEN "401"
         ELSE "runs"
    [] OTHER -> "405"

-----------------------------------------------------------------------------
(* Startup.                                                                *)

Dies == stage' = "dead" /\ UNCHANGED allowedHosts

\* preflight: never mainnet, another cluster only when asked for, and never on
\* the program's upgrade authority.
Preflight ==
  /\ stage = "preflight"
  /\ \E genesis \in Clusters, isAuthority \in BOOLEAN :
       IF \/ genesis = "mainnet"
          \/ genesis # "devnet" /\ ~AnyCluster
          \/ isAuthority
       THEN Dies
       ELSE stage' = "loopback" /\ UNCHANGED allowedHosts
  /\ UNCHANGED <<names, asked, since, moves, last>>

\* One listener after the other; only ::1 may be missing.
ListenLoopback ==
  /\ stage = "loopback"
  /\ \/ stage' = "ipv6" /\ allowedHosts' = allowedHosts \cup {"127.0.0.1"}
     \/ Dies
  /\ UNCHANGED <<names, asked, since, moves, last>>

ListenIpv6 ==
  /\ stage = "ipv6"
  /\ stage' = IF Lan THEN "lan" ELSE "up"
  /\ allowedHosts' \in {allowedHosts, allowedHosts \cup {"::1"}}
  /\ UNCHANGED <<names, asked, since, moves, last>>

\* lanAddress picks one of the machine's addresses.
ListenLan ==
  /\ stage = "lan"
  /\ \/ \E ip \in names : stage' = "up" /\ allowedHosts' = allowedHosts \cup {ip}
     \/ Dies
  /\ UNCHANGED <<names, asked, since, moves, last>>

Listening == stage \in {"ipv6", "lan", "up"}

-----------------------------------------------------------------------------
(* Requests.  Every one is handled as it arrives; what it did is in last.  *)

Requests(hosts, verbs, ctypes) ==
  [host : hosts, verb : verbs, ctype : ctypes,
   body : {"rpc", "413", "-32700", "-32600"}, rpc : {"getBlockhash", "signTransaction", "other"}, key : BOOLEAN]

Handle(req, page, sameOrigin) ==
  last' = [page |-> page, same |-> sameOrigin, ran |-> Answer(req) = "runs"]

\* A tool, which sends any headers.
ToolCalls ==
  /\ Listening
  /\ \E req \in Requests(allowedHosts \cup {None}, {"GET", "POST", "PUT"}, {"application/json", "text/plain"}) :
       Handle(req, None, FALSE)
  /\ UNCHANGED <<stage, names, allowedHosts, asked, since, moves>>

\* The browser's preflight for a page; its grant is kept.
Ask(page) ==
  /\ Listening
  /\ \E req \in [host : allowedHosts, verb : {"OPTIONS"}] : Handle(req, page, FALSE)
  /\ asked' = [asked EXCEPT ![page] = IF CorsGrants(page) THEN MaxAge ELSE 0]
  /\ since' = [since EXCEPT ![page] = IF CorsGrants(page) THEN 0 ELSE @]
  /\ UNCHANGED <<stage, names, allowedHosts, moves>>

\* A cross-origin request of a page: JSON under a kept grant, text without.
PageCalls(page) ==
  /\ Listening
  /\ \E req \in Requests(allowedHosts, {"POST"}, {"text/plain"} \cup
                           (IF asked[page] > 0 THEN {"application/json"} ELSE {})) :
       Handle(req, page, FALSE)
  /\ UNCHANGED <<stage, names, allowedHosts, asked, since, moves>>

\* A request a page sends to its own host name, which leads here.
PageCallsHome(page) ==
  /\ Listening
  /\ page \in Loopback \cup names \cup PointedHere
  /\ \E req \in Requests({page}, {"POST"}, {"application/json", "text/plain"}) :
       Handle(req, page, TRUE)
  /\ UNCHANGED <<stage, names, allowedHosts, asked, since, moves>>

\* The machine joins another network.
Move ==
  /\ moves < MaxMoves
  /\ names' \in (SUBSET Addresses) \ {names}
  /\ moves' = moves + 1
  /\ last' = None
  /\ UNCHANGED <<stage, allowedHosts, asked, since>>

Tick ==
  /\ asked' = [p \in Pages |-> IF asked[p] > 0 THEN asked[p] - 1 ELSE 0]
  /\ since' = [p \in Pages |-> IF since[p] <= MaxAge THEN since[p] + 1 ELSE since[p]]
  /\ last' = None
  /\ UNCHANGED <<stage, names, allowedHosts, moves>>

Init ==
  /\ stage = "preflight"
  /\ names \in SUBSET Addresses
  /\ allowedHosts = {"localhost"}
  /\ asked = [p \in Pages |-> 0]
  /\ since = [p \in Pages |-> MaxAge + 1]
  /\ moves = 0
  /\ last = None

Next ==
  \/ Preflight \/ ListenLoopback \/ ListenIpv6 \/ ListenLan
  \/ ToolCalls \/ Move \/ Tick
  \/ \E page \in Pages : Ask(page) \/ PageCalls(page) \/ PageCallsHome(page)

Spec == Init /\ [][Next]_vars

-----------------------------------------------------------------------------
(* Properties.                                                             *)

\* A method runs for a browser's page only if the relayer granted that page's
\* origin within the last Access-Control-Max-Age, or the page comes from a name
\* the relayer listens on: a page that was never granted has nothing run, with
\* or without a preflight, under whatever name it reaches the machine, and one
\* whose address the machine has lost is cut off when its grant runs out.
GrantedPagesOnly ==
  [][last' # None /\ last'.ran /\ last'.page # None =>
       \/ last'.same /\ last'.page \in allowedHosts
       \/ ~last'.same /\ since[last'.page] <= MaxAge]_vars
=============================================================================
