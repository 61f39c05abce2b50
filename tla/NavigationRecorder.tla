------------------------- MODULE NavigationRecorder -------------------------
(***************************************************************************)
(* internal/fingerprint/controller.go: navigationRecorder, the goroutine   *)
(* that saves the last page of a profile, from the navigation event to     *)
(* metadata.json, and from there to the start page of the next launch      *)
(* (internal/browser/manager.go).  One profile, launched several times.    *)
(*                                                                         *)
(* The pages of a session are numbered in the order Chromium committed     *)
(* them; page[s][n] is the URL of number n.  Number 0 is "no page".        *)
(***************************************************************************)
EXTENDS Naturals, Sequences, FiniteSets

CONSTANTS Urls,
          NoUrl,          \* lastUrl of a profile that visited nothing
          QueueCap,       \* make(chan string, 32)
          MaxSessions,    \* bound: launches of the profile
          MaxPages        \* bound: committed navigations of a session

ASSUME NoUrlAssumption == NoUrl \notin Urls
ASSUME BoundsAssumption == QueueCap \in Nat \ {0} /\ MaxSessions \in Nat /\ MaxPages \in Nat

Sessions == 1..MaxSessions
Numbers == 0..MaxPages

VARIABLES
    lastUrl,   \* metadata.lastUrl
    life,      \* where the browser of each session is
    startUrl,  \* the page each session was launched with
    page,      \* pages Chromium committed, in order
    read,      \* how many of them the event loop took
    loop,      \* the event loop: in its select; in submit, which found the queue
               \* full, or then received the oldest page to make room
    queue,     \* recorder.urls
    rec,       \* where recorder.run is
    last,      \* its variable last
    final,     \* its variable finalURL
    accepted,  \* observer: newest number queued before stop was closed
    saved,     \* observer: the URL each session saved last
    failed,    \* observer: sessions that lost a save to a write error
    crowded    \* observer: sessions whose recorder ended between the two steps in
               \* which submit replaces the oldest page

loopVars == <<read, loop>>
recVars == <<rec, last, final>>
observers == <<accepted, saved, failed, crowded>>
vars == <<lastUrl, life, startUrl, page, loopVars, queue, recVars, observers>>

\* "exited": the process is gone, its entry in Manager.running is not.
\* "removed": wait deleted the entry.  "closing": recorder.stop is closed.
Lives == {"new", "launching", "open", "exited", "removed", "closing", "closed"}

Url(s, n) == IF n = 0 THEN NoUrl ELSE page[s][n]
Pages(s) == Len(page[s])
Stopped(s) == life[s] \in {"closing", "closed"}

TypeOK ==
    /\ lastUrl \in Urls \cup {NoUrl}
    /\ life \in [Sessions -> Lives]
    /\ startUrl \in [Sessions -> Urls \cup {NoUrl}]
    /\ page \in [Sessions -> Seq(Urls)]
    /\ queue \in [Sessions -> Seq(Nat)]
    /\ read \in [Sessions -> Nat] /\ last \in [Sessions -> Nat]
    /\ final \in [Sessions -> Nat] /\ accepted \in [Sessions -> Nat]
    /\ loop \in [Sessions -> {"select", "full", "room", "off"}]
    /\ rec \in [Sessions -> {"select", "save", "drain", "done"}]
    /\ saved \in [Sessions -> Urls \cup {NoUrl}]
    /\ failed \subseteq Sessions /\ crowded \subseteq Sessions

Init ==
    /\ lastUrl = NoUrl
    /\ life = [s \in Sessions |-> "new"]
    /\ startUrl = [s \in Sessions |-> NoUrl]
    /\ page = [s \in Sessions |-> <<>>]
    /\ read = [s \in Sessions |-> 0]
    /\ loop = [s \in Sessions |-> "select"]
    /\ queue = [s \in Sessions |-> <<>>]
    /\ rec = [s \in Sessions |-> "select"]
    /\ last = [s \in Sessions |-> 0] /\ final = [s \in Sessions |-> 0]
    /\ accepted = [s \in Sessions |-> 0]
    /\ saved = [s \in Sessions |-> NoUrl]
    /\ failed = {} /\ crowded = {}

-----------------------------------------------------------------------------
(***************************************************************************)
(* The browser of a session                                                *)
(***************************************************************************)
Goes(s, from, to) == life[s] = from /\ life' = [life EXCEPT ![s] = to]

\* Manager.Launch: the profile is closed; metadata is read for the start page.
Launch(s) ==
    /\ \A t \in 1..(s - 1) : life[t] \in {"removed", "closing", "closed"}
    /\ Goes(s, "new", "launching")
    /\ startUrl' = [startUrl EXCEPT ![s] = lastUrl]
    /\ UNCHANGED <<lastUrl, page, loopVars, queue, recVars, observers>>

\* Controller.Attach made the recorder and the event loop.
Attach(s) ==
    /\ Goes(s, "launching", "open")
    /\ UNCHANGED <<lastUrl, startUrl, page, loopVars, queue, recVars, observers>>

\* A top-level http(s) navigation commits; the event is on its way.
Navigate(s, u) ==
    /\ life[s] = "open"
    /\ Pages(s) < MaxPages
    /\ page' = [page EXCEPT ![s] = Append(@, u)]
    /\ UNCHANGED <<lastUrl, life, startUrl, loopVars, queue, recVars, observers>>

Exit(s) ==
    /\ Goes(s, "open", "exited")
    /\ UNCHANGED <<lastUrl, startUrl, page, loopVars, queue, recVars, observers>>

\* wait: delete(m.running, profileID), from here on the profile is closed.
WaitRemoves(s) ==
    /\ Goes(s, "exited", "removed")
    /\ UNCHANGED <<lastUrl, startUrl, page, loopVars, queue, recVars, observers>>

\* wait: cdpSession.Close(), where recorder.close() closes the stop channel.
CloseStops(s) ==
    /\ Goes(s, "removed", "closing")
    /\ UNCHANGED <<lastUrl, startUrl, page, loopVars, queue, recVars, observers>>

\* <-recorder.done; then the connection is closed and the event loop awaited.
CloseReturns(s) ==
    /\ rec[s] = "done" /\ loop[s] = "off"
    /\ Goes(s, "closing", "closed")
    /\ UNCHANGED <<lastUrl, startUrl, page, loopVars, queue, recVars, observers>>

-----------------------------------------------------------------------------
(***************************************************************************)
(* The event loop and submit                                               *)
(***************************************************************************)
Accept(s, n) == accepted' = [accepted EXCEPT ![s] = IF Stopped(s) THEN @ ELSE n]

\* Bug: with a full queue the new page is given up instead of the oldest one.
BugTakeEvent(s) ==
    LET n == read[s] + 1 IN
    /\ life[s] # "new" /\ loop[s] = "select" /\ n <= Pages(s)
    /\ read' = [read EXCEPT ![s] = n]
    /\ UNCHANGED loop
    /\ \/ Stopped(s) /\ UNCHANGED <<queue, accepted>>
       \/ /\ Len(queue[s]) < QueueCap
          /\ queue' = [queue EXCEPT ![s] = Append(@, n)]
          /\ Accept(s, n)
       \/ Len(queue[s]) = QueueCap /\ UNCHANGED <<queue, accepted>>
    /\ UNCHANGED <<lastUrl, life, startUrl, page, recVars, saved, failed, crowded>>

\* A Page.frameNavigated event: submit gives up when stop is closed (or, the
\* select being a random choice, still queues), queues, or finds no room.
TakeEvent(s) ==
    LET n == read[s] + 1 IN
    /\ life[s] # "new" /\ loop[s] = "select" /\ n <= Pages(s)
    /\ read' = [read EXCEPT ![s] = n]
    /\ \/ Stopped(s) /\ UNCHANGED <<loop, queue, accepted>>
       \/ /\ Len(queue[s]) < QueueCap
          /\ queue' = [queue EXCEPT ![s] = Append(@, n)]
          /\ Accept(s, n)
          /\ UNCHANGED loop
       \/ /\ Len(queue[s]) = QueueCap
          /\ loop' = [loop EXCEPT ![s] = "full"]
          /\ UNCHANGED <<queue, accepted>>
    /\ UNCHANGED <<lastUrl, life, startUrl, page, recVars, saved, failed, crowded>>

\* The oldest page makes room, if the recorder has not taken it meanwhile ...
DropOldest(s) ==
    /\ loop[s] = "full"
    /\ loop' = [loop EXCEPT ![s] = "room"]
    /\ queue' = [queue EXCEPT ![s] = IF @ = <<>> THEN @ ELSE Tail(@)]
    /\ UNCHANGED <<lastUrl, life, startUrl, page, read, recVars, observers>>

\* ... and the new one is sent: there is room, as nobody else sends.
SendNew(s) ==
    /\ loop[s] = "room"
    /\ loop' = [loop EXCEPT ![s] = "select"]
    /\ queue' = [queue EXCEPT ![s] = Append(@, read[s])]
    /\ Accept(s, read[s])
    /\ UNCHANGED <<lastUrl, life, startUrl, page, read, recVars, saved, failed, crowded>>

\* The connection is gone: events that are still queued are left unread.
LoopEnds(s) ==
    /\ life[s] \notin {"new", "launching"} /\ loop[s] = "select"
    /\ loop' = [loop EXCEPT ![s] = "off"]
    /\ UNCHANGED <<lastUrl, life, startUrl, page, read, queue, recVars, observers>>

-----------------------------------------------------------------------------
(***************************************************************************)
(* recorder.run                                                            *)
(***************************************************************************)
RecTake(s) ==
    LET n == Head(queue[s]) IN
    /\ rec[s] = "select" /\ queue[s] # <<>>
    /\ queue' = [queue EXCEPT ![s] = Tail(@)]
    /\ IF Url(s, n) = Url(s, last[s])
       THEN UNCHANGED <<rec, last>>
       ELSE /\ last' = [last EXCEPT ![s] = n]
            /\ rec' = [rec EXCEPT ![s] = "save"]
    /\ UNCHANGED <<lastUrl, life, startUrl, page, loopVars, final, observers>>

\* RecordLastURL, whose error is ignored.
Save(s, u) ==
    \/ /\ lastUrl' = u /\ saved' = [saved EXCEPT ![s] = u]
       /\ failed' = failed \ {s}
    \/ /\ failed' = failed \cup {s}
       /\ UNCHANGED <<lastUrl, saved>>

RecSave(s) ==
    /\ rec[s] = "save"
    /\ Save(s, Url(s, last[s]))
    /\ rec' = [rec EXCEPT ![s] = "select"]
    /\ UNCHANGED <<life, startUrl, page, loopVars, queue, last, final, accepted, crowded>>

\* Bug: run returns on stop without looking at what is queued.
BugRecStops(s) ==
    /\ rec[s] = "select" /\ Stopped(s)
    /\ rec' = [rec EXCEPT ![s] = "done"]
    /\ UNCHANGED <<lastUrl, life, startUrl, page, loopVars, queue, last, final, observers>>

\* <-recorder.stop, possibly while pages are queued.
RecStops(s) ==
    /\ rec[s] = "select" /\ Stopped(s)
    /\ rec' = [rec EXCEPT ![s] = "drain"]
    /\ final' = [final EXCEPT ![s] = last[s]]
    /\ UNCHANGED <<lastUrl, life, startUrl, page, loopVars, queue, last, observers>>

\* The draining loop: only the newest page counts ...
RecDrains(s) ==
    /\ rec[s] = "drain" /\ queue[s] # <<>>
    /\ final' = [final EXCEPT ![s] = Head(queue[s])]
    /\ queue' = [queue EXCEPT ![s] = Tail(@)]
    /\ UNCHANGED <<lastUrl, life, startUrl, page, loopVars, rec, last, observers>>

\* ... and is saved when it is not the one saved before.
RecEnds(s) ==
    /\ rec[s] = "drain" /\ queue[s] = <<>>
    /\ IF final[s] # 0 /\ Url(s, final[s]) # Url(s, last[s])
       THEN Save(s, Url(s, final[s]))
       ELSE UNCHANGED <<lastUrl, saved, failed>>
    /\ crowded' = IF loop[s] = "room" THEN crowded \cup {s} ELSE crowded
    /\ rec' = [rec EXCEPT ![s] = "done"]
    /\ UNCHANGED <<life, startUrl, page, loopVars, queue, last, final, accepted>>

-----------------------------------------------------------------------------
EventLoop(s) == TakeEvent(s) \/ DropOldest(s) \/ SendNew(s)
Recorder(s) == RecTake(s) \/ RecSave(s) \/ RecStops(s) \/ RecDrains(s) \/ RecEnds(s)
Waiter(s) == WaitRemoves(s) \/ CloseStops(s) \/ CloseReturns(s)

Next == \E s \in Sessions :
    \/ Launch(s) \/ Attach(s) \/ Exit(s)
    \/ \E u \in Urls : Navigate(s, u)
    \/ EventLoop(s) \/ LoopEnds(s) \/ Recorder(s) \/ Waiter(s)

Spec == Init /\ [][Next]_vars

(***************************************************************************)
(* Goroutines that can run do.  The loop of a browser that ended ends.     *)
(* Nothing makes a page load, a browser start or end, a connection break.  *)
(***************************************************************************)
Fairness == \A s \in Sessions :
    /\ WF_vars(EventLoop(s)) /\ WF_vars(Recorder(s)) /\ WF_vars(Waiter(s))
    /\ WF_vars(life[s] # "open" /\ LoopEnds(s))

FairSpec == Spec /\ Fairness

-----------------------------------------------------------------------------
(***************************************************************************)
(* Properties                                                              *)
(***************************************************************************)
\* However fast pages are committed and however full the queue is, the page
\* at which the user stays is saved while the browser is still open.
LatestPageIsSaved == \A s \in Sessions, n \in 1..MaxPages :
    (life[s] = "open" /\ Pages(s) = n)
        ~> \/ Pages(s) # n \/ saved[s] = Url(s, n)
           \/ life[s] # "open" \/ loop[s] = "off" \/ s \in failed

\* When the recorder is done, no page that was queued before the session was
\* closed is newer than the one it saved: unless a save failed, or the recorder
\* found the queue empty after submit received the only page in it to make room
\* (controller.go:354) and before it sent the one that takes its place (358).
QueuedPagesSurviveClose == \A s \in Sessions :
    rec[s] = "done" /\ accepted[s] # 0 /\ s \notin failed \cup crowded =>
        \E n \in accepted[s]..Pages(s) : saved[s] = Url(s, n)

\* RecordLastURL keeps the page "so a controlled CDP startup can apply the
\* profile identity before restoring the page on the next launch"
\* (profile/store.go:276-278): a launch starts at the page the sessions before
\* it saved, unless they saved nothing or failed to.
RelaunchRestoresLastPage ==
    \A s \in Sessions \ {1} :
        life[s] # "new" /\ rec[s - 1] = "done" /\ s - 1 \notin failed
            => startUrl[s] = saved[s - 1] \/ saved[s - 1] = NoUrl

-----------------------------------------------------------------------------
(***************************************************************************)
(* The inductive invariant: where the newest page is that was queued       *)
(* before the session was closed, until it is saved                        *)
(***************************************************************************)
\* The numbers the goroutines hold are numbers of pages the event loop read.
Bounded(s) ==
    /\ Pages(s) <= MaxPages /\ read[s] <= Pages(s)
    /\ Len(queue[s]) <= QueueCap
    /\ \A i \in 1..Len(queue[s]) : queue[s][i] \in 1..read[s]
    /\ last[s] <= read[s] /\ final[s] <= read[s] /\ accepted[s] <= read[s]
    /\ loop[s] \in {"full", "room"} => read[s] > 0
    /\ loop[s] = "room" => Len(queue[s]) < QueueCap

\* u is the URL of a page not older than the newest page that was accepted.
Covers(s, u) == \E k \in accepted[s]..read[s] : u = Url(s, k)

\* What is queued last is new enough; with nothing queued and nothing about to be,
\* what the recorder holds is, and when it is done, what it saved.
NewestIsKept(s) ==
    /\ rec[s] \in {"drain", "done"} => Stopped(s)
    /\ Len(queue[s]) > 0 => queue[s][Len(queue[s])] >= accepted[s]
    /\ Len(queue[s]) = 0 /\ loop[s] # "room" /\ accepted[s] # 0 =>
        /\ rec[s] \in {"select", "save"} => Covers(s, Url(s, last[s]))
        /\ rec[s] = "drain" => Covers(s, Url(s, final[s]))
    /\ rec[s] \in {"select", "drain"} /\ last[s] # 0 /\ s \notin failed
        => saved[s] = Url(s, last[s])
    /\ rec[s] = "done" /\ accepted[s] # 0 /\ s \notin failed \cup crowded => Covers(s, saved[s])

IInv == TypeOK /\ \A s \in Sessions : Bounded(s) /\ NewestIsKept(s)
=============================================================================
