---------------------------- MODULE ProxyBridge ----------------------------
(***************************************************************************)
(* The local proxy in front of a profile's browser: proxyBridge of         *)
(* internal/network/bridge.go with the handshakes of dialSOCKS5            *)
(* (socks5.go) and dialHTTPProxy.                                          *)
(*                                                                         *)
(* Chromium opens a connection and asks for a tunnel with CONNECT; the     *)
(* handler dials the proxy, takes the connection from the HTTP server,     *)
(* answers, enters both connections into the map and copies both ways      *)
(* until one copy ends.  Close runs once Chromium's process has ended      *)
(* (BrowserManager.BridgeOutlivesBrowser), beside handlers in any of these *)
(* steps: it closes the HTTP server, which no longer knows the connections *)
(* that were taken from it, and then those it finds in the map.            *)
(*                                                                         *)
(* Plain HTTP requests stay with the HTTP server and are not modelled.     *)
(* Data is counted from the proxy to Chromium, in chunks.                  *)
(***************************************************************************)
EXTENDS Naturals, FiniteSets

CONSTANTS Tunnels,     \* CONNECT requests
          Settings,    \* RuntimeSettings: the mode, and whether there are credentials
          MaxChunks    \* bound: what the other side sends through a tunnel

ASSUME SettingsAssumption == Settings \subseteq [mode: {"socks5", "http"}, credentials: BOOLEAN]
ASSUME MaxChunksAssumption == MaxChunks \in Nat

VARIABLES
    settings,    \* those the bridge was started with
    stage,       \* where each handler is
    client,      \* its connection to Chromium, on the bridge's side
    upstream,    \* its connection to the proxy
    deadline,    \* is a deadline set on the proxy's connection
    tracked,     \* bridge.connections
    copying,     \* the directions whose copyTunnel still runs
    closer,      \* where Close is
    listed,      \* the connections Close found in the map
    exited,      \* Chromium's process has ended
    left,        \* Chromium has closed its end
    ended,       \* the far side has sent all and ended the stream
    stalled,     \* the far side no longer accepts data
    reset,       \* it has reset its connection
    sent,        \* chunks the far side sent
    down         \* those on their way to Chromium

handlers == <<stage, client, upstream, deadline, tracked, copying>>
world == <<exited, left, ended, stalled, reset, sent, down>>
vars == <<settings, handlers, closer, listed, world>>

Dialing == {"connect", "greet", "auth", "request"}
Stages == Dialing \cup {"off", "hijack", "answer", "trackClient", "trackUpstream", "copy", "done"}
Ends(t) == {<<t, "client">>, <<t, "upstream">>}

TypeOK ==
    /\ settings \in Settings
    /\ stage \in [Tunnels -> Stages]
    /\ client \in [Tunnels -> {"server", "hijacked", "closed"}]
    /\ upstream \in [Tunnels -> {"none", "open", "closed"}]
    /\ deadline \in [Tunnels -> BOOLEAN]
    /\ tracked \subseteq Tunnels \X {"client", "upstream"} /\ listed \subseteq Tunnels \X {"client", "upstream"}
    /\ copying \in [Tunnels -> SUBSET {"up", "down"}]
    /\ closer \in {"open", "server", "list", "closed"}
    /\ exited \in BOOLEAN /\ left \in [Tunnels -> BOOLEAN]
    /\ ended \in [Tunnels -> BOOLEAN] /\ stalled \in [Tunnels -> BOOLEAN] /\ reset \in [Tunnels -> BOOLEAN]
    /\ sent \in [Tunnels -> 0..MaxChunks] /\ down \in [Tunnels -> 0..MaxChunks]

Init ==
    /\ settings \in Settings
    /\ stage = [t \in Tunnels |-> "off"]
    /\ client = [t \in Tunnels |-> "server"] /\ upstream = [t \in Tunnels |-> "none"]
    /\ deadline = [t \in Tunnels |-> FALSE]
    /\ tracked = {} /\ copying = [t \in Tunnels |-> {}]
    /\ closer = "open" /\ listed = {}
    /\ exited = FALSE /\ left = [t \in Tunnels |-> FALSE]
    /\ ended = [t \in Tunnels |-> FALSE] /\ stalled = [t \in Tunnels |-> FALSE]
    /\ reset = [t \in Tunnels |-> FALSE]
    /\ sent = [t \in Tunnels |-> 0] /\ down = [t \in Tunnels |-> 0]

Goto(t, s) == stage' = [stage EXCEPT ![t] = s]

-----------------------------------------------------------------------------
(* serveTunnel: the dial.                                                  *)

Connect(t) ==
    /\ stage[t] = "off" /\ closer = "open" /\ ~ left[t]
    /\ Goto(t, "connect")
    /\ UNCHANGED <<settings, client, upstream, deadline, tracked, copying, closer, listed, world>>

\* DialContext succeeds and the deadline of the handshake is set.
Dial(t) ==
    /\ stage[t] = "connect"
    /\ upstream' = [upstream EXCEPT ![t] = "open"]
    /\ deadline' = [deadline EXCEPT ![t] = TRUE]
    /\ Goto(t, IF settings.mode = "socks5" THEN "greet" ELSE "request")
    /\ UNCHANGED <<settings, client, tracked, copying, closer, listed, world>>

\* The SOCKS5 proxy chooses a method; credentials are sent if it asks for
\* them and there are any.
Greet(t) ==
    /\ stage[t] = "greet"
    /\ \/ Goto(t, "request")
       \/ settings.credentials /\ Goto(t, "auth")
    /\ UNCHANGED <<settings, client, upstream, deadline, tracked, copying, closer, listed, world>>

Authenticate(t) ==
    /\ stage[t] = "auth"
    /\ Goto(t, "request")
    /\ UNCHANGED <<settings, client, upstream, deadline, tracked, copying, closer, listed, world>>

\* Bug: the deadline of the handshake stays on the connection.
BugRequest(t) ==
    /\ stage[t] = "request"
    /\ Goto(t, "hijack")
    /\ UNCHANGED <<settings, client, upstream, deadline, tracked, copying, closer, listed, world>>

\* The proxy has reached the target: the deadline is taken off.
Request(t) ==
    /\ stage[t] = "request"
    /\ deadline' = [deadline EXCEPT ![t] = FALSE]
    /\ Goto(t, "hijack")
    /\ UNCHANGED <<settings, client, upstream, tracked, copying, closer, listed, world>>

\* The proxy refuses, is not there, or is silent until the deadline; the
\* client gets an error and stays with the HTTP server.
DialFails(t) ==
    /\ stage[t] \in Dialing
    /\ upstream' = [upstream EXCEPT ![t] = IF @ = "open" THEN "closed" ELSE @]
    /\ deadline' = [deadline EXCEPT ![t] = FALSE]
    /\ Goto(t, "done")
    /\ UNCHANGED <<settings, client, tracked, copying, closer, listed, world>>

-----------------------------------------------------------------------------
(* serveTunnel: from the hijack to the end of the first copy.              *)

\* A connection that the server has closed can still be taken from it.
Hijack(t) ==
    /\ stage[t] = "hijack"
    /\ client' = [client EXCEPT ![t] = IF @ = "server" THEN "hijacked" ELSE @]
    /\ Goto(t, "answer")
    /\ UNCHANGED <<settings, upstream, deadline, tracked, copying, closer, listed, world>>

HijackFails(t) ==
    /\ stage[t] = "hijack"
    /\ upstream' = [upstream EXCEPT ![t] = "closed"]
    /\ Goto(t, "done")
    /\ UNCHANGED <<settings, client, deadline, tracked, copying, closer, listed, world>>

Answer(t) ==
    /\ stage[t] = "answer" /\ client[t] = "hijacked"
    /\ Goto(t, "trackClient")
    /\ UNCHANGED <<settings, client, upstream, deadline, tracked, copying, closer, listed, world>>

\* Bug: the connection to the proxy is forgotten.
BugAnswerFails(t) ==
    /\ stage[t] = "answer" /\ (client[t] = "closed" \/ left[t])
    /\ client' = [client EXCEPT ![t] = "closed"]
    /\ Goto(t, "done")
    /\ UNCHANGED <<settings, upstream, deadline, tracked, copying, closer, listed, world>>

\* "200 Connection Established" cannot be written.
AnswerFails(t) ==
    /\ stage[t] = "answer" /\ (client[t] = "closed" \/ left[t])
    /\ client' = [client EXCEPT ![t] = "closed"]
    /\ upstream' = [upstream EXCEPT ![t] = "closed"]
    /\ Goto(t, "done")
    /\ UNCHANGED <<settings, deadline, tracked, copying, closer, listed, world>>

TrackClient(t) ==
    /\ stage[t] = "trackClient"
    /\ tracked' = tracked \cup {<<t, "client">>}
    /\ Goto(t, "trackUpstream")
    /\ UNCHANGED <<settings, client, upstream, deadline, copying, closer, listed, world>>

\* The second entry, and the two copies are started.
TrackUpstream(t) ==
    /\ stage[t] = "trackUpstream"
    /\ tracked' = tracked \cup {<<t, "upstream">>}
    /\ copying' = [copying EXCEPT ![t] = {"up", "down"}]
    /\ Goto(t, "copy")
    /\ UNCHANGED <<settings, client, upstream, deadline, closer, listed, world>>

\* The bridge's end of the client connection gives no more and takes no more.
Gone(t) == client[t] = "closed" \/ left[t]

\* copyTunnel(client, upstream).
Deliver(t) ==
    /\ "down" \in copying[t] /\ client[t] # "closed" /\ upstream[t] # "closed" /\ down[t] > 0
    /\ down' = [down EXCEPT ![t] = @ - 1]
    /\ UNCHANGED <<settings, handlers, closer, listed, exited, left, ended, stalled, reset, sent>>

EndCopy(t, d) ==
    /\ d \in copying[t]
    /\ copying' = [copying EXCEPT ![t] = @ \ {d}]
    /\ UNCHANGED <<settings, stage, client, upstream, deadline, tracked, closer, listed, world>>

\* It ends with the stream, with the connection it reads, or when what it
\* has read can no longer be written; and at a deadline that is still set.
DownEnds(t) ==
    /\ \/ upstream[t] = "closed" \/ deadline[t]
       \/ Gone(t) /\ down[t] > 0
       \/ (ended[t] \/ reset[t]) /\ down[t] = 0
    /\ EndCopy(t, "down")

\* copyTunnel(upstream, client): while the far side accepts nothing it is
\* inside a write and does not see that Chromium has left.
UpEnds(t) ==
    /\ upstream[t] = "closed" \/ (Gone(t) /\ ~ stalled[t])
    /\ EndCopy(t, "up")

\* Either io.Copy fails on a connection the far side has reset: what Chromium
\* still sends cannot be written, and what had arrived may no longer be read.
CopyFails(t) ==
    /\ reset[t]
    /\ \E d \in {"up", "down"} : EndCopy(t, d)

\* <-finished, and the deferred clean-up.
Finish(t) ==
    /\ stage[t] = "copy" /\ copying[t] # {"up", "down"}
    /\ tracked' = tracked \ Ends(t)
    /\ client' = [client EXCEPT ![t] = "closed"]
    /\ upstream' = [upstream EXCEPT ![t] = "closed"]
    /\ Goto(t, "done")
    /\ UNCHANGED <<settings, deadline, copying, closer, listed, world>>

-----------------------------------------------------------------------------
(* Close, after the process has ended.                                     *)

\* server.Close: the listener, and the connections the server still has.
CloseServer ==
    /\ closer = "open" /\ exited
    /\ closer' = "server"
    /\ client' = [t \in Tunnels |-> IF client[t] = "server" THEN "closed" ELSE client[t]]
    /\ UNCHANGED <<settings, stage, upstream, deadline, tracked, copying, listed, world>>

CloseLists ==
    /\ closer = "server"
    /\ closer' = "list" /\ listed' = tracked
    /\ UNCHANGED <<settings, handlers, world>>

\* Bug: the connections in the map are left to their handlers.
BugCloseConnections ==
    /\ closer = "list"
    /\ closer' = "closed"
    /\ UNCHANGED <<settings, client, upstream, stage, deadline, tracked, copying, listed, world>>

CloseConnections ==
    /\ closer = "list"
    /\ closer' = "closed"
    /\ client' = [t \in Tunnels |-> IF <<t, "client">> \in listed THEN "closed" ELSE client[t]]
    /\ upstream' = [t \in Tunnels |-> IF <<t, "upstream">> \in listed THEN "closed" ELSE upstream[t]]
    /\ UNCHANGED <<settings, stage, deadline, tracked, copying, listed, world>>

-----------------------------------------------------------------------------
(* Chromium and the far side.                                              *)

Exit ==
    /\ ~ exited /\ exited' = TRUE
    /\ UNCHANGED <<settings, handlers, closer, listed, left, ended, stalled, reset, sent, down>>

\* Chromium closes a connection; its processes do so as they end.
Leave(t) ==
    /\ stage[t] \notin {"off", "done"} /\ ~ left[t]
    /\ left' = [left EXCEPT ![t] = TRUE]
    /\ UNCHANGED <<settings, handlers, closer, listed, exited, ended, stalled, reset, sent, down>>

\* What the far side does before the copies run is not seen before them: it
\* is as if it happened then.
Reached(t) == stage[t] = "copy"

Send(t) ==
    /\ Reached(t) /\ ~ ended[t] /\ ~ reset[t] /\ sent[t] < MaxChunks
    /\ sent' = [sent EXCEPT ![t] = @ + 1] /\ down' = [down EXCEPT ![t] = @ + 1]
    /\ UNCHANGED <<settings, handlers, closer, listed, exited, left, ended, stalled, reset>>

End(t) ==
    /\ Reached(t) /\ ~ ended[t] /\ ~ reset[t]
    /\ ended' = [ended EXCEPT ![t] = TRUE]
    /\ UNCHANGED <<settings, handlers, closer, listed, exited, left, stalled, reset, sent, down>>

\* It stops taking what Chromium sends.
Stall(t) ==
    /\ Reached(t) /\ ~ stalled[t] /\ ~ reset[t]
    /\ stalled' = [stalled EXCEPT ![t] = TRUE]
    /\ UNCHANGED <<settings, handlers, closer, listed, exited, left, ended, reset, sent, down>>

\* It closes its connection for both directions, or fails; a write that waits
\* for it fails with it.
Reset(t) ==
    /\ Reached(t) /\ ~ reset[t]
    /\ reset' = [reset EXCEPT ![t] = TRUE] /\ stalled' = [stalled EXCEPT ![t] = FALSE]
    /\ UNCHANGED <<settings, handlers, closer, listed, exited, left, ended, sent, down>>

Handler(t) == Dial(t) \/ Greet(t) \/ Authenticate(t) \/ Request(t) \/ DialFails(t) \/ Hijack(t) \/ HijackFails(t)
                \/ Answer(t) \/ AnswerFails(t) \/ TrackClient(t) \/ TrackUpstream(t) \/ Finish(t)
Close == CloseServer \/ CloseLists \/ CloseConnections

\* Everything is over; no connection is left to wait for.
Rest == closer = "closed" /\ (\A t \in Tunnels : stage[t] \in {"off", "done"}) /\ UNCHANGED vars

Next ==
    \/ \E t \in Tunnels : Connect(t) \/ Handler(t) \/ Deliver(t) \/ DownEnds(t) \/ UpEnds(t) \/ CopyFails(t)
    \/ Close
    \/ Exit \/ \E t \in Tunnels : Leave(t) \/ Send(t) \/ End(t) \/ Stall(t) \/ Reset(t)
    \/ Rest

Spec == Init /\ [][Next]_vars

\* Goroutines run on, a handshake has its deadline, and the connections of a
\* process that has ended are closed by the operating system.  Chromium need
\* not end nor send; the far side need not send, end or accept anything.
FairSpec ==
    /\ Spec
    /\ \A t \in Tunnels : WF_vars(Handler(t)) /\ WF_vars(UpEnds(t)) /\ WF_vars(DownEnds(t)) /\ WF_vars(exited /\ Leave(t))
    /\ WF_vars(Close)

-----------------------------------------------------------------------------
(***************************************************************************)
(*                            Properties                                   *)
(***************************************************************************)

\* A handler that has returned, on whichever of its paths, keeps no
\* connection to the proxy, none it took from the HTTP server, and no entry
\* of the map.
ConnectionsAreReleased ==
    \A t \in Tunnels : stage[t] = "done" =>
        upstream[t] # "open" /\ client[t] # "hijacked" /\ Ends(t) \cap tracked = {}

\* As long as the browser runs and Chromium has not closed its side, a
\* tunnel ends only with the stream from the far side, and not before all
\* of it was delivered.  A connection the far side has reset is excepted: the
\* first copy to fail closes both connections, what the other has still to
\* deliver included (serveTunnel waits for one of the two).
ResponsesArriveWhole ==
    \A t \in Tunnels : (stage[t] = "done" /\ client[t] = "closed" /\ closer = "open" /\ ~ left[t])
        => reset[t] \/ (ended[t] /\ down[t] = 0)

\* Once Close has returned every tunnel comes to its end: those whose proxy
\* connection Close found in the map whatever the far side does, and those
\* that were entered too late because Chromium has left, unless the far side
\* has stalled.
TunnelsEnd ==
    \A t \in Tunnels : closer = "closed" ~>
        stage[t] \in {"off", "done"} \/ (stalled[t] /\ <<t, "upstream">> \notin listed)

-----------------------------------------------------------------------------
(***************************************************************************)
(* The invariant behind the first two.                                     *)
(***************************************************************************)
Dialed == {"greet", "auth", "request", "hijack"}
Hijacked == {"answer", "trackClient", "trackUpstream", "copy"}

\* What a handler has at each of its stages, whatever Close does.
HeldByStage ==
    \A t \in Tunnels :
        /\ stage[t] \in {"off", "connect"} \cup Dialed => client[t] # "hijacked"
        /\ stage[t] \in {"off", "connect"} => upstream[t] = "none"
        /\ deadline[t] => stage[t] \in Dialed \ {"hijack"}
        /\ <<t, "client">> \in tracked => stage[t] \in {"trackUpstream", "copy"}
        /\ <<t, "upstream">> \in tracked => stage[t] = "copy"
        /\ <<t, "upstream">> \in listed => stage[t] \in {"copy", "done"}

\* Until Close begins only the handler itself closes its connections, and a
\* copy ends with its stream or a reset.
WholeWhileOpen ==
    closer = "open" => \A t \in Tunnels :
        /\ stage[t] \in {"off", "connect"} \cup Dialed => client[t] = "server"
        /\ stage[t] \in Dialed \cup Hijacked => upstream[t] = "open"
        /\ stage[t] \in Hijacked => client[t] = "hijacked"
        /\ stage[t] = "copy" /\ ~ left[t] /\ ~ reset[t] =>
              "up" \in copying[t] /\ ("down" \in copying[t] \/ (ended[t] /\ down[t] = 0))

NothingIsInvented == \A t \in Tunnels : down[t] <= sent[t]

IInv ==
    /\ TypeOK /\ HeldByStage /\ ConnectionsAreReleased
    /\ NothingIsInvented /\ WholeWhileOpen /\ ResponsesArriveWhole
=============================================================================
