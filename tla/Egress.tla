------------------------------- MODULE Egress -------------------------------
(***************************************************************************)
(* What leaves the platform: the operator's Cube proxy settings            *)
(* (control-plane/platform-runtime-settings.ts), the gateway that polls    *)
(* them and forwards for the Sandboxes (cube-egress-gateway), and the      *)
(* relay to the model providers (provider-egress-relay).                   *)
(*                                                                         *)
(* A connection waits for DNS before it has an upstream socket, and only   *)
(* then listens to either socket.  destroy() ends a socket; its "close"    *)
(* event, and the handlers of it, come later.                              *)
(***************************************************************************)
EXTENDS Integers

CONSTANTS
    Tunnels,        \* connections of clients
    Proxies,        \* upstream proxies the operator may name
    NoProxyUrl,
    MaxRevisions    \* bound: changes of the settings

ASSUME EgressConstants == MaxRevisions \in Nat /\ NoProxyUrl \notin Proxies

VARIABLES
    settings,       \* the row of platform_runtime_settings
    changes,        \* platform_runtime_setting_changes: what a revision set
    polled,         \* the poller's #current, revision -1 before the first
    answers,        \* configurations on their way to the poller
    tunnel

egressVars == <<settings, changes, polled, answers, tunnel>>

Setting == [enabled : BOOLEAN, proxy : Proxies \cup {NoProxyUrl}, revision : Nat]

FirstSetting == [enabled |-> FALSE, proxy |-> NoProxyUrl, revision |-> 0]

\* deadline is the timer of the connect, duration the one of the connection.
NoTunnel == [kind |-> "none", at |-> "none", proxy |-> NoProxyUrl, revision |-> 0,
             client |-> "open", upstream |-> "none", deadline |-> FALSE,
             duration |-> FALSE, piped |-> FALSE]

Tunnel == [kind : {"none", "cube", "http", "provider"},
           at : {"none", "resolving", "listening", "denied", "ended"},
           proxy : Proxies \cup {NoProxyUrl}, revision : Nat,
           client : {"open", "ending", "closed"},
           upstream : {"none", "connecting", "open", "ending", "closed"},
           deadline : BOOLEAN, duration : BOOLEAN, piped : BOOLEAN]

EgressTypeOK ==
    /\ settings \in Setting /\ settings.revision <= MaxRevisions
    /\ settings.enabled => settings.proxy # NoProxyUrl
    /\ \A r \in DOMAIN changes : changes[r] \in Setting /\ changes[r].revision = r
    /\ polled \in Setting \cup {[FirstSetting EXCEPT !.revision = -1]}
    /\ answers \subseteq Setting
    /\ tunnel \in [Tunnels -> Tunnel]

EgressInit ==
    /\ settings = FirstSetting /\ changes = [r \in {0} |-> FirstSetting]
    /\ polled = [FirstSetting EXCEPT !.revision = -1] /\ answers = {}
    /\ tunnel = [t \in Tunnels |-> NoTunnel]

-----------------------------------------------------------------------------
(* The settings and the poller.                                             *)

\* Egress is enabled only with an upstream proxy.
mayEnable(enabled, proxy) == enabled => proxy # NoProxyUrl

\* replace, under the lock of the row: a request without a URL keeps the one
\* that is there.
replaceSettings(enabled, proxyUrl) ==
    LET proxy == IF proxyUrl = NoProxyUrl THEN settings.proxy ELSE proxyUrl
        next  == [enabled |-> enabled, proxy |-> proxy, revision |-> settings.revision + 1]
    IN  /\ settings.revision < MaxRevisions /\ mayEnable(enabled, proxy)
        /\ settings' = next
        /\ changes' = [r \in DOMAIN changes \cup {next.revision} |->
                          IF r = next.revision THEN next ELSE changes[r]]
        /\ UNCHANGED <<polled, answers, tunnel>>

\* internal: the row, read for a poll.
internal ==
    /\ answers' = answers \cup {settings}
    /\ UNCHANGED <<settings, changes, polled, tunnel>>

\* #run: one #refresh at a time.
poll == answers = {} /\ internal

\* The poll fails or times out.
PollFails == answers # {} /\ answers' = {} /\ UNCHANGED <<settings, changes, polled, tunnel>>

\* #refresh replaces #current with what was answered.
refresh(a) ==
    /\ a \in answers /\ answers' = answers \ {a} /\ polled' = a
    /\ UNCHANGED <<settings, changes, tunnel>>

-----------------------------------------------------------------------------
(* Connections.                                                             *)

currentEnabled == polled.enabled

Put(t, v) == tunnel' = [tunnel EXCEPT ![t] = v] /\ UNCHANGED <<settings, changes, polled, answers>>

Arrive(t, kind) ==
    /\ tunnel[t].at = "none"
    /\ Put(t, IF currentEnabled
              THEN [NoTunnel EXCEPT !.kind = kind, !.at = "resolving",
                       !.proxy = polled.proxy, !.revision = polled.revision]
              ELSE [NoTunnel EXCEPT !.kind = kind, !.at = "denied", !.client = "ending"])

\* A CONNECT of a Sandbox, with the configuration of now.
cubeConnect(t) == Arrive(t, "cube")

\* A plain request of a Sandbox.
httpRequest(t) == Arrive(t, "http")

\* A CONNECT of a Worker to an allowed provider.
providerConnect(t) ==
    /\ tunnel[t].at = "none"
    /\ Put(t, [NoTunnel EXCEPT !.kind = "provider", !.at = "resolving"])

Denied(v) == [v EXCEPT !.at = "denied", !.client = IF @ = "open" THEN "ending" ELSE @]

\* No address, or one that is not public.
resolutionRefused(t) == tunnel[t].at = "resolving" /\ Put(t, Denied(tunnel[t]))

Listen(t, proxy, duration) ==
    Put(t, [tunnel[t] EXCEPT !.at = "listening", !.upstream = "connecting",
               !.proxy = proxy, !.deadline = TRUE, !.duration = duration])

\* The upstream socket, its timers and the listeners of both sockets; the
\* client may have closed meanwhile, and no listener hears of it any more.
openUpstream(t) ==
    /\ tunnel[t].at = "resolving" /\ tunnel[t].kind = "cube"
    /\ Listen(t, tunnel[t].proxy, TRUE)

\* A plain request has the idle timeout of its socket and no other.
forwardRequest(t) ==
    /\ tunnel[t].at = "resolving" /\ tunnel[t].kind = "http"
    /\ Listen(t, tunnel[t].proxy, FALSE)

\* tunnel of the relay, to an address or to the configured proxy.
connectProvider(t) ==
    /\ tunnel[t].at = "resolving" /\ tunnel[t].kind = "provider"
    /\ Listen(t, NoProxyUrl, TRUE)

Destroy(state) == IF state \in {"connecting", "open"} THEN "ending" ELSE state

\* finish: both timers are cleared.
Finished(v) == [v EXCEPT !.deadline = FALSE, !.duration = FALSE]

Pipe(t, deadline, duration) ==
    Put(t, [tunnel[t] EXCEPT !.upstream = "open", !.piped = TRUE, !.deadline = deadline,
                             !.duration = duration])

\* The proxy answers 200: the deadline is cleared and the sockets are piped.
accept(t) ==
    /\ tunnel[t].upstream = "connecting" /\ tunnel[t].kind = "cube"
    /\ Pipe(t, FALSE, tunnel[t].duration)

\* The relay's upstream socket is connected.
providerConnected(t) ==
    /\ tunnel[t].upstream = "connecting" /\ tunnel[t].kind = "provider"
    /\ Pipe(t, FALSE, tunnel[t].duration)

\* The answer of a plain request begins; the idle timeout stays.
upstreamResponse(t) ==
    /\ tunnel[t].upstream = "connecting" /\ tunnel[t].kind = "http" /\ Pipe(t, TRUE, FALSE)

\* Any other answer of the proxy, or too long a header.
upstreamRefuses(t) ==
    /\ tunnel[t].upstream = "connecting" /\ tunnel[t].kind = "cube"
    /\ Put(t, [tunnel[t] EXCEPT !.upstream = "ending", !.client = Destroy(@)])

\* The connect timer, or the idle timeout of a plain request.
connectTimesOut(t) ==
    /\ tunnel[t].deadline
    /\ Put(t, [tunnel[t] EXCEPT !.deadline = FALSE, !.upstream = Destroy(@),
                                !.client = IF tunnel[t].piped THEN @ ELSE Destroy(@)])

durationEnds(t) ==
    /\ tunnel[t].duration
    /\ Put(t, [tunnel[t] EXCEPT !.duration = FALSE, !.upstream = Destroy(@),
                                !.client = Destroy(@)])

\* The upstream socket fails or is closed by its peer.
UpstreamGoes(t) ==
    /\ tunnel[t].upstream \in {"connecting", "open"}
    /\ Put(t, [tunnel[t] EXCEPT !.upstream = "ending"])

\* Its "close": the client is destroyed, or in the relay only ended, and the
\* timers are cleared; the answer of a plain request is ended.
upstreamClose(t) ==
    /\ tunnel[t].upstream = "ending"
    /\ Put(t, [Finished(tunnel[t]) EXCEPT !.upstream = "closed", !.at = "ended",
                  !.client = IF tunnel[t].kind = "provider" THEN @ ELSE Destroy(@)])

\* The client closes, or what was destroyed is closed.
ClientGoes(t) ==
    /\ tunnel[t].kind # "none" /\ tunnel[t].client = "open"
    /\ Put(t, [tunnel[t] EXCEPT !.client = "ending"])

\* Its "close": heard once there are listeners, and never by a plain request.
clientClose(t) ==
    /\ tunnel[t].client = "ending"
    /\ Put(t, IF tunnel[t].at = "listening" /\ tunnel[t].kind # "http"
              THEN [Finished(tunnel[t]) EXCEPT !.client = "closed", !.upstream = Destroy(@)]
              ELSE [tunnel[t] EXCEPT !.client = "closed"])

EgressNext ==
    \/ \E enabled \in BOOLEAN, u \in Proxies \cup {NoProxyUrl} : replaceSettings(enabled, u)
    \/ poll \/ PollFails
    \/ \E a \in answers : refresh(a)
    \/ \E t \in Tunnels :
          \/ cubeConnect(t) \/ httpRequest(t) \/ providerConnect(t)
          \/ resolutionRefused(t)
          \/ openUpstream(t) \/ forwardRequest(t) \/ connectProvider(t)
          \/ accept(t) \/ providerConnected(t) \/ upstreamResponse(t)
          \/ upstreamRefuses(t) \/ connectTimesOut(t) \/ durationEnds(t)
          \/ UpstreamGoes(t) \/ upstreamClose(t) \/ ClientGoes(t) \/ clientClose(t)

-----------------------------------------------------------------------------
(* Properties.                                                              *)

\* A connection of a Sandbox goes through the proxy of one revision that had
\* egress enabled, the one in its audit records: a change of the settings, or
\* of what the poller holds, while its name is resolved mixes no two of them
\* (createCubeEgressGateway captures the configuration before its await).
OneRevisionPerTunnel ==
    \A t \in Tunnels :
        tunnel[t].kind \in {"cube", "http"} /\ tunnel[t].upstream # "none" =>
            /\ tunnel[t].revision \in DOMAIN changes
            /\ changes[tunnel[t].revision].enabled
            /\ changes[tunnel[t].revision].proxy = tunnel[t].proxy

\* An upstream socket whose client is gone is closing or has a timer that will
\* close it, whichever of the two sockets ended first, before or after the
\* handlers were there (tunnel, and the CONNECT handler).
OrphanedUpstreamTimed ==
    \A t \in Tunnels :
        tunnel[t].upstream \in {"connecting", "open"} /\ tunnel[t].client = "closed"
        => tunnel[t].deadline \/ tunnel[t].duration \/ tunnel[t].kind = "http"

\* The poller never goes back to an older revision, with changes made while
\* its answers are on the way (#run, #refresh).
RevisionsMoveOn ==
    [][polled'.revision >= polled.revision]_egressVars

=============================================================================
