----------------------------- MODULE CdpSession -----------------------------
(***************************************************************************)
(* internal/fingerprint: Session (controller.go) over cdpClient            *)
(* (client.go).  Chromium pauses every new page or worker; the session     *)
(* installs the identity of the profile in it and releases it.  Who takes  *)
(* part: Chromium, the reader of the websocket, the event loop, one        *)
(* goroutine per target, and the caller of Close.                          *)
(*                                                                         *)
(* A call is named by what it is for.  "script" stands for installing the  *)
(* script, "autoAttach" for the other calls that must succeed (enabling    *)
(* the domains among them), "resume" for runIfWaitingForDebugger, "close"  *)
(* for the closeTarget of protectAsync.                                    *)
(***************************************************************************)
EXTENDS Naturals, Sequences, FiniteSets

CONSTANTS Targets,
          EventCap      \* make(chan protocolMessage, 256)

ASSUME EventCapAssumption == EventCap \in Nat \ {0}

VARIABLES
    alive,     \* Chromium runs and holds its end of the websocket
    tab,       \* the state of each target in Chromium
    scripted,  \* targets that have the script
    inbox,     \* the call to each target that Chromium has not answered
    wire,      \* what Chromium sent and the reader did not read
    events,    \* client.events
    done,      \* client.done is closed
    reader,    \* readLoop runs
    loop,      \* eventLoop runs
    pc,        \* the call at which the goroutine of each target is
    waits,     \* goroutines that wait for the answer to that call
    bad,       \* goroutines with firstErr # nil
    expired,   \* goroutines whose 12 seconds are over
    close      \* where Close is

chromium == <<alive, tab, scripted, inbox>>
cdpClient == <<events, done, reader>>
goroutines == <<pc, waits, bad, expired>>
cdpVars == <<chromium, wire, cdpClient, loop, goroutines, close>>

Calls == {"script", "autoAttach", "resume", "close"}
NoCall == "none"
Attached(t) == [kind |-> "attached", target |-> t]
Reply(t, call, ok) == [kind |-> "reply", target |-> t, call |-> call, ok |-> ok]
Messages == {Attached(t) : t \in Targets}
              \cup {Reply(t, c, ok) : t \in Targets, c \in Calls, ok \in BOOLEAN}

CdpTypeOK ==
    /\ alive \in BOOLEAN /\ done \in BOOLEAN /\ reader \in BOOLEAN /\ loop \in BOOLEAN
    /\ tab \in [Targets -> {"none", "paused", "running", "closed"}]
    /\ inbox \in [Targets -> Calls \cup {NoCall}]
    /\ wire \in Seq(Messages)
    /\ events \in Seq(Targets) /\ Len(events) <= EventCap
    /\ pc \in [Targets -> Calls \cup {"none", "finished"}]
    /\ scripted \subseteq Targets /\ bad \subseteq Targets /\ expired \subseteq Targets
    /\ waits \subseteq {t \in Targets : pc[t] \in Calls}
    /\ close \in {"open", "marked", "client", "closed"}

\* Attach made the client and the event loop and switched auto-attach on.
CdpInit ==
    /\ alive = TRUE /\ done = FALSE /\ reader = TRUE /\ loop = TRUE
    /\ tab = [t \in Targets |-> "none"]
    /\ scripted = {} /\ bad = {} /\ expired = {} /\ waits = {}
    /\ inbox = [t \in Targets |-> NoCall]
    /\ wire = <<>> /\ events = <<>>
    /\ pc = [t \in Targets |-> "none"]
    /\ close = "open"

-----------------------------------------------------------------------------
(***************************************************************************)
(* Chromium                                                                *)
(***************************************************************************)
\* A pop-up, a tab or a worker: it waits for the debugger.
OpenTarget(t) ==
    /\ alive /\ tab[t] = "none"
    /\ tab' = [tab EXCEPT ![t] = "paused"]
    /\ wire' = Append(wire, Attached(t))
    /\ UNCHANGED <<alive, scripted, inbox, cdpClient, loop, goroutines, close>>

\* The answer to a call; closing a target that exists does not fail.
Respond(t) ==
    /\ alive /\ inbox[t] # NoCall
    /\ inbox' = [inbox EXCEPT ![t] = NoCall]
    /\ \E ok \in BOOLEAN :
        /\ inbox[t] = "close" => ok
        /\ wire' = Append(wire, Reply(t, inbox[t], ok))
        /\ scripted' = IF ok /\ inbox[t] = "script" THEN scripted \cup {t} ELSE scripted
        /\ tab' = IF ok /\ inbox[t] = "resume" THEN [tab EXCEPT ![t] = "running"]
                  ELSE IF ok /\ inbox[t] = "close" THEN [tab EXCEPT ![t] = "closed"]
                  ELSE tab
    /\ UNCHANGED <<alive, cdpClient, loop, goroutines, close>>

ChromiumEnds ==
    /\ alive
    /\ alive' = FALSE
    /\ tab' = [t \in Targets |-> "closed"]
    /\ inbox' = [t \in Targets |-> NoCall]
    /\ UNCHANGED <<scripted, wire, cdpClient, loop, goroutines, close>>

-----------------------------------------------------------------------------
(***************************************************************************)
(* applyProtection and protectAsync: the goroutine of a target             *)
(***************************************************************************)
\* What applyProtection does after a call; protectAsync closes the target when
\* there was an error.
NextCall(call, failing) ==
    CASE call = "script"     -> "autoAttach"
      [] call = "autoAttach" -> "resume"
      [] call = "resume"     -> IF failing THEN "close" ELSE "finished"
      [] call = "close"      -> "finished"

\* Bug: the error of the last call counts, not the first one.
BugAdvance(t, ok) ==
    /\ waits' = waits \ {t}
    /\ bad' = IF ok THEN bad \ {t} ELSE bad \cup {t}
    /\ pc' = [pc EXCEPT ![t] = NextCall(@, ~ok)]

\* A call returned.  Every call is made whatever became of the one before.
Advance(t, ok) ==
    /\ waits' = waits \ {t}
    /\ bad' = IF ok THEN bad ELSE bad \cup {t}
    /\ pc' = [pc EXCEPT ![t] = NextCall(@, t \in bad \/ ~ok)]

\* Call: the context is good and the connection open, so it is sent ...
SendCall(t) ==
    /\ pc[t] \in Calls /\ t \notin waits
    /\ t \notin expired /\ ~done
    /\ waits' = waits \cup {t}
    /\ inbox' = IF alive THEN [inbox EXCEPT ![t] = pc[t]] ELSE inbox
    /\ UNCHANGED <<alive, tab, scripted, wire, cdpClient, loop, pc, bad, expired, close>>

\* ... or it returns at once: ctx.Err(), client.done, or the write failed.
Refuse(t) ==
    /\ pc[t] \in Calls /\ t \notin waits
    /\ t \in expired \/ done \/ ~alive
    /\ Advance(t, FALSE)
    /\ UNCHANGED <<chromium, wire, cdpClient, loop, expired, close>>

\* Its last select: ctx.Done() or client.done instead of the answer.
GiveUp(t) ==
    /\ t \in waits
    /\ t \in expired \/ done
    /\ Advance(t, FALSE)
    /\ UNCHANGED <<chromium, wire, cdpClient, loop, expired, close>>

\* context.WithTimeout(context.Background(), 12*time.Second)
Expire(t) ==
    /\ pc[t] \in Calls /\ t \notin expired
    /\ expired' = expired \cup {t}
    /\ UNCHANGED <<chromium, wire, cdpClient, loop, pc, waits, bad, close>>

-----------------------------------------------------------------------------
(***************************************************************************)
(* readLoop and eventLoop                                                  *)
(***************************************************************************)
\* The answer belongs to a pending call, or to one that was given up.
ReadReply ==
    LET m == Head(wire) IN
    /\ reader /\ wire # <<>> /\ m.kind = "reply"
    /\ wire' = Tail(wire)
    /\ IF m.target \in waits /\ pc[m.target] = m.call
       THEN Advance(m.target, m.ok)
       ELSE UNCHANGED <<pc, waits, bad>>
    /\ UNCHANGED <<chromium, cdpClient, loop, expired, close>>

\* Bug: an event is thrown away when the channel is full.
BugReadEvent ==
    LET m == Head(wire) IN
    /\ reader /\ wire # <<>> /\ m.kind = "attached"
    /\ wire' = Tail(wire)
    /\ events' = IF Len(events) < EventCap THEN Append(events, m.target) ELSE events
    /\ UNCHANGED <<chromium, done, reader, loop, goroutines, close>>

ReadEvent ==
    LET m == Head(wire) IN
    /\ reader /\ wire # <<>> /\ m.kind = "attached"
    /\ Len(events) < EventCap
    /\ wire' = Tail(wire)
    /\ events' = Append(events, m.target)
    /\ UNCHANGED <<chromium, done, reader, loop, goroutines, close>>

\* readLoop is at client.events <- message and the channel is full.
Blocked == wire # <<>> /\ Head(wire).kind = "attached" /\ Len(events) = EventCap

\* Bug: the send of an event does not look at client.done.
BugReaderEnds ==
    /\ reader /\ (done \/ ~alive) /\ ~Blocked
    /\ reader' = FALSE
    /\ done' = TRUE
    /\ UNCHANGED <<chromium, wire, events, loop, goroutines, close>>

\* The read fails and shuts the client down, or a blocked send sees that it
\* was shut down.
ReaderEnds ==
    /\ reader
    /\ done \/ (~alive /\ ~Blocked)
    /\ reader' = FALSE
    /\ done' = TRUE
    /\ UNCHANGED <<chromium, wire, events, loop, goroutines, close>>

\* Target.attachedToTarget -> protectAsync, unless Close began.
TakeEvent ==
    LET t == Head(events) IN
    /\ loop /\ events # <<>>
    /\ events' = Tail(events)
    /\ pc' = IF close = "open" /\ pc[t] = "none" THEN [pc EXCEPT ![t] = "script"] ELSE pc
    /\ UNCHANGED <<chromium, wire, done, reader, loop, waits, bad, expired, close>>

LoopEnds ==
    /\ loop /\ done
    /\ loop' = FALSE
    /\ UNCHANGED <<chromium, wire, cdpClient, goroutines, close>>

-----------------------------------------------------------------------------
(***************************************************************************)
(* Close                                                                   *)
(***************************************************************************)
\* closed = true; then the recorder is stopped (NavigationRecorder).
CloseMarks ==
    /\ close = "open"
    /\ close' = "marked"
    /\ UNCHANGED <<chromium, wire, cdpClient, loop, goroutines>>

\* client.Close(): the connection is closed, then client.done.
CloseClient ==
    /\ close = "marked"
    /\ close' = "client"
    /\ done' = TRUE
    /\ UNCHANGED <<chromium, wire, events, reader, loop, goroutines>>

\* readWG.Wait(), then session.wg.Wait().
CloseReturns ==
    /\ close = "client" /\ ~reader /\ ~loop
    /\ \A t \in Targets : pc[t] \notin Calls
    /\ close' = "closed"
    /\ UNCHANGED <<chromium, wire, cdpClient, loop, goroutines>>

-----------------------------------------------------------------------------
Reader == ReadReply \/ ReadEvent \/ ReaderEnds
EventLoop == TakeEvent \/ LoopEnds
Protector(t) == SendCall(t) \/ Refuse(t) \/ GiveUp(t)
Closer == CloseClient \/ CloseReturns

CdpNext ==
    \/ \E t \in Targets : OpenTarget(t) \/ Respond(t) \/ Protector(t) \/ Expire(t)
    \/ ChromiumEnds
    \/ Reader \/ EventLoop
    \/ CloseMarks \/ Closer

CdpSpec == CdpInit /\ [][CdpNext]_cdpVars

(***************************************************************************)
(* The goroutines go on, timers fire, and a Chromium that lives answers.   *)
(* Nothing makes it open a target or end, or anybody call Close.           *)
(***************************************************************************)
Fairness ==
    /\ WF_cdpVars(Reader) /\ WF_cdpVars(EventLoop) /\ WF_cdpVars(Closer)
    /\ \A t \in Targets : WF_cdpVars(Respond(t)) /\ WF_cdpVars(Protector(t)) /\ WF_cdpVars(Expire(t))

CdpFairSpec == CdpSpec /\ Fairness

-----------------------------------------------------------------------------
(***************************************************************************)
(* Properties                                                              *)
(***************************************************************************)
Cut(t) == t \in expired \/ done \/ ~alive

\* A page or worker that runs without the identity script is about to be
\* closed: its goroutine knows of the error and has yet to send closeTarget,
\* unless time or the connection ran out (controller.go:287-288).
NothingRunsBare ==
    \A t \in Targets : tab[t] = "running" /\ t \notin scripted =>
        \/ t \in bad /\ pc[t] \in {"resume", "close"}
        \/ Cut(t)

\* No page stays frozen: it is released or closed, however the events and the
\* answers overtake each other and however full the event channel is.
PausedTargetsSettle == \A t \in Targets :
    tab[t] = "paused" ~> tab[t] # "paused" \/ Cut(t) \/ close # "open"

\* Close returns: the reader, the event loop and the goroutines all end.
CloseCompletes == close = "marked" ~> close = "closed"

-----------------------------------------------------------------------------
(***************************************************************************)
(* The invariant behind NothingRunsBare.                                   *)
(***************************************************************************)
IsReply(i, t) == wire[i].kind = "reply" /\ wire[i].target = t

\* While a target is not cut off, at most one call to it is on its way: with
\* Chromium, or as the one answer that comes back, which its goroutine awaits.
OneCallAtATime ==
    \A t \in Targets : ~Cut(t) =>
        /\ inbox[t] # NoCall => t \in waits /\ pc[t] = inbox[t]
        /\ \A i \in 1..Len(wire) : IsReply(i, t) =>
              /\ t \in waits /\ inbox[t] = NoCall /\ pc[t] = wire[i].call
              /\ \A j \in 1..Len(wire) : IsReply(j, t) => j = i

\* What an answer on its way says is so in Chromium already.
AnswersAreTrue ==
    \A t \in Targets : ~Cut(t) => \A i \in 1..Len(wire) : IsReply(i, t) =>
        /\ wire[i].call = "script" /\ wire[i].ok => t \in scripted
        /\ wire[i].call = "close" => tab[t] = "closed"

\* A target runs only after its goroutine asked for that, and a goroutine past
\* the script knows when the script is missing.
GoroutineKnows ==
    \A t \in Targets : ~Cut(t) =>
        /\ tab[t] = "running" => pc[t] \in {"resume", "close", "finished"}
        /\ pc[t] \in {"autoAttach", "resume", "close", "finished"} => t \in scripted \cup bad
        /\ pc[t] = "finished" /\ t \in bad => tab[t] = "closed"

CdpIInv == CdpTypeOK /\ OneCallAtATime /\ AnswersAreTrue /\ GoroutineKnows
=============================================================================
