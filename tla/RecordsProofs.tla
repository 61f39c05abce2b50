---------------------------- MODULE RecordsProofs ----------------------------
(***************************************************************************)
(* Proofs about what the program writes down.                              *)
(*                                                                         *)
(* NavigationRecorder: the page queued last before a session is closed, or *)
(* a newer one, is the one that is saved, up to one race of the two sides. *)
(*                                                                         *)
(* OperationRecords: telemetry.json and the failure log hold the newest    *)
(* entries noted in them, whatever the order of the callers, and the       *)
(* dashboard judges by the latest of them and counts an opening once.      *)
(***************************************************************************)
EXTENDS NavigationRecorder, OperationRecords, SequenceTheorems, FiniteSetTheorems,
        WellFoundedInduction, TLAPS

-----------------------------------------------------------------------------
(***************************************************************************)
(* The queue                                                               *)
(***************************************************************************)
\* Append adds one place at the end and leaves the others alone.
LEMMA Appended ==
    ASSUME NEW q \in Seq(Nat), NEW n \in Nat
    PROVE /\ Append(q, n) \in Seq(Nat)
          /\ Len(Append(q, n)) = Len(q) + 1
          /\ \A i \in 1..Len(q) : Append(q, n)[i] = q[i]
          /\ Append(q, n)[Len(q) + 1] = n
          /\ Len(q) \in Nat
BY AppendProperties, LenProperties

\* Receiving takes the first place and moves the others up.
LEMMA Received ==
    ASSUME NEW q \in Seq(Nat), q # <<>>
    PROVE /\ Tail(q) \in Seq(Nat) /\ Head(q) = q[1] /\ Head(q) \in Nat
          /\ Len(q) \in Nat \ {0}
          /\ Len(Tail(q)) = Len(q) - 1
          /\ \A i \in 1..(Len(q) - 1) : Tail(q)[i] = q[i + 1]
BY HeadTailProperties, EmptySeq, LenProperties

\* A page that is numbered above nothing has one of the URLs.
LEMMA UrlOfPage ==
    ASSUME TypeOK, NEW s \in Sessions, NEW n \in 1..Pages(s)
    PROVE Url(s, n) \in Urls /\ Url(s, n) # NoUrl
<1>1. page[s] \in Seq(Urls)  BY DEF TypeOK
<1>2. page[s][n] \in Urls  BY <1>1, ElementOfSeq DEF Pages
<1> QED  BY <1>2, NoUrlAssumption DEF Url

\* The URL of a number is a URL or none.
LEMMA UrlType ==
    ASSUME TypeOK, NEW s \in Sessions, NEW n \in 0..Pages(s)
    PROVE Url(s, n) \in Urls \cup {NoUrl}
<1>1. CASE n = 0  BY <1>1 DEF Url
<1>2. CASE n # 0
    <2>1. page[s] \in Seq(Urls)  BY DEF TypeOK
    <2>2. Pages(s) \in Nat  BY <2>1, LenProperties DEF Pages
    <2>3. n \in 1..Pages(s)  BY <1>2, <2>2
    <2> QED  BY <2>3, UrlOfPage
<1> QED  BY <1>1, <1>2

-----------------------------------------------------------------------------
(***************************************************************************)
(* The inductive invariant, session by session                             *)
(***************************************************************************)
LEMMA InitIInv == Init => IInv
<1> SUFFICES ASSUME Init PROVE IInv  OBVIOUS
<1>1. /\ <<>> \in Seq(Urls) /\ <<>> \in Seq(Nat) /\ Len(<<>>) = 0  OBVIOUS
<1>2. TypeOK  BY <1>1 DEF Init, TypeOK, Lives
<1>3. ASSUME NEW s \in Sessions PROVE Bounded(s) /\ NewestIsKept(s)
    BY <1>1, BoundsAssumption DEF Init, Bounded, NewestIsKept, Pages
<1> QED  BY <1>2, <1>3 DEF IInv

\* What a step does not touch of a session stays as it is: the session may be
\* closed meanwhile, and its event loop may leave.
LEMMA AsBefore ==
    ASSUME NEW t \in Sessions, Bounded(t), NewestIsKept(t),
           page'[t] = page[t], read'[t] = read[t], queue'[t] = queue[t],
           rec'[t] = rec[t], last'[t] = last[t], final'[t] = final[t],
           accepted'[t] = accepted[t], saved'[t] = saved[t],
           t \in failed' <=> t \in failed, t \in crowded' <=> t \in crowded,
           loop'[t] = loop[t] \/ (loop[t] = "select" /\ loop'[t] = "off"),
           Stopped(t) => life'[t] \in {"closing", "closed"}
    PROVE Bounded(t)' /\ NewestIsKept(t)'
<1>1. Bounded(t)'  BY DEF Bounded, Pages
<1>2. NewestIsKept(t)'  BY DEF NewestIsKept, Stopped, Covers, Url
<1> QED  BY <1>1, <1>2

\* The steps of the browser, of wait and of a loop that ends.
LEMMA LifeStep ==
    ASSUME IInv, NEW s \in Sessions,
           \/ Launch(s) \/ Attach(s) \/ Exit(s) \/ Waiter(s) \/ LoopEnds(s)
    PROVE IInv'
<1> USE DEF IInv
<1>1. /\ UNCHANGED <<lastUrl, page, read, queue, recVars, observers>>
      /\ life' \in [Sessions -> Lives]
      /\ startUrl' \in [Sessions -> Urls \cup {NoUrl}]
      /\ loop' \in [Sessions -> {"select", "full", "room", "off"}]
      /\ \A t \in Sessions : loop'[t] = loop[t] \/ (loop[t] = "select" /\ loop'[t] = "off")
      /\ \A t \in Sessions : Stopped(t) => life'[t] \in {"closing", "closed"}
    <2>1. CASE Launch(s)  BY <2>1 DEF Launch, Goes, TypeOK, Lives, Stopped, loopVars
    <2>2. CASE Attach(s)  BY <2>2 DEF Attach, Goes, TypeOK, Lives, Stopped, loopVars
    <2>3. CASE Exit(s)  BY <2>3 DEF Exit, Goes, TypeOK, Lives, Stopped, loopVars
    <2>4. CASE WaitRemoves(s)  BY <2>4 DEF WaitRemoves, Goes, TypeOK, Lives, Stopped, loopVars
    <2>5. CASE CloseStops(s)  BY <2>5 DEF CloseStops, Goes, TypeOK, Lives, Stopped, loopVars
    <2>6. CASE CloseReturns(s)  BY <2>6 DEF CloseReturns, Goes, TypeOK, Lives, Stopped, loopVars
    <2>7. CASE LoopEnds(s)  BY <2>7 DEF LoopEnds, TypeOK, Lives, Stopped
    <2> QED  BY <2>1, <2>2, <2>3, <2>4, <2>5, <2>6, <2>7 DEF Waiter
<1>2. TypeOK'  BY <1>1 DEF TypeOK, recVars, observers
<1>3. ASSUME NEW t \in Sessions PROVE Bounded(t)' /\ NewestIsKept(t)'
    BY <1>1, <1>3, AsBefore DEF recVars, observers
<1> QED  BY <1>2, <1>3

\* A page more does not change the pages before it.
LEMMA NavigateStep ==
    ASSUME IInv, NEW s \in Sessions, NEW u \in Urls, Navigate(s, u)
    PROVE IInv'
<1> USE DEF IInv
<1>1. /\ UNCHANGED <<lastUrl, life, startUrl, read, loop, queue, rec, last, final, accepted, saved, failed, crowded>>
      /\ page' = [page EXCEPT ![s] = Append(page[s], u)]
      /\ Pages(s) < MaxPages
    BY DEF Navigate, loopVars, recVars, observers
<1>2. page[s] \in Seq(Urls)  BY DEF TypeOK
<1>3. /\ Append(page[s], u) \in Seq(Urls)
      /\ Len(Append(page[s], u)) = Pages(s) + 1
      /\ Pages(s) \in Nat
      /\ \A k \in 1..Pages(s) : Append(page[s], u)[k] = page[s][k]
    BY <1>2, AppendProperties, LenProperties DEF Pages
<1>4. page'[s] = Append(page[s], u)  BY <1>1 DEF TypeOK
<1>5. TypeOK'  BY <1>1, <1>3 DEF TypeOK
<1>6. ASSUME NEW t \in Sessions, t # s PROVE Bounded(t)' /\ NewestIsKept(t)'
    <2>1. page'[t] = page[t]  BY <1>1, <1>6 DEF TypeOK
    <2> QED  BY <1>1, <2>1, AsBefore DEF Stopped
<1>7. Bounded(s)'  BY <1>1, <1>3, <1>4, BoundsAssumption DEF Bounded, Pages, TypeOK
<1>8. NewestIsKept(s)'
    <2>1. read[s] \in Nat /\ read[s] <= Pages(s)  BY DEF Bounded, TypeOK
    <2>2. \A k \in 0..read[s] : Url(s, k)' = Url(s, k)
        BY <1>3, <1>4, <2>1 DEF Url
    <2>3. /\ last[s] \in 0..read[s] /\ final[s] \in 0..read[s]
          /\ accepted[s] \in 0..read[s]
        BY <2>1 DEF Bounded, TypeOK
    <2>4. \A x : Covers(s, x) => \E k \in accepted[s]..read[s] : x = Url(s, k)'
        BY <2>1, <2>2, <2>3 DEF Covers
    <2>5. /\ Url(s, last[s])' = Url(s, last[s]) /\ Url(s, final[s])' = Url(s, final[s])
        BY <1>1, <2>2, <2>3 DEF Url
    <2> QED  BY <1>1, <2>4, <2>5 DEF NewestIsKept, Stopped, Covers
<1> QED  BY <1>5, <1>6, <1>7, <1>8

-----------------------------------------------------------------------------
(***************************************************************************)
(* submit                                                                  *)
(***************************************************************************)
\* A page that is queued is the newest, whatever was dropped for it.
LEMMA QueueStep ==
    ASSUME IInv, NEW s \in Sessions, NEW q \in Seq(Nat), NEW n \in Nat,
           /\ n \in 1..Pages(s) /\ read[s] <= n
           /\ Len(q) < QueueCap /\ \A i \in 1..Len(q) : q[i] \in 1..n,
           read' = [read EXCEPT ![s] = n],
           queue' = [queue EXCEPT ![s] = Append(q, n)],
           Accept(s, n),
           loop' \in [Sessions -> {"select", "full", "room", "off"}],
           loop'[s] = "select" /\ \A t \in Sessions \ {s} : loop'[t] = loop[t],
           UNCHANGED <<lastUrl, life, startUrl, page, rec, last, final, saved, failed, crowded>>
    PROVE IInv'
<1> USE DEF IInv
<1>1. /\ Append(q, n) \in Seq(Nat)
      /\ Len(q) \in Nat /\ Len(Append(q, n)) = Len(q) + 1
      /\ \A i \in 1..Len(q) : Append(q, n)[i] = q[i]
      /\ Append(q, n)[Len(q) + 1] = n
    BY Appended
<1>2. accepted' = [accepted EXCEPT ![s] = IF Stopped(s) THEN accepted[s] ELSE n]  BY DEF Accept
<1>3. TypeOK'  BY <1>1, <1>2 DEF TypeOK
<1>4. ASSUME NEW t \in Sessions, t # s PROVE Bounded(t)' /\ NewestIsKept(t)'
    <2>1. /\ read'[t] = read[t] /\ queue'[t] = queue[t] /\ accepted'[t] = accepted[t]
          /\ loop'[t] = loop[t]
        BY <1>2, <1>4 DEF TypeOK
    <2> QED  BY <2>1, AsBefore DEF Stopped
<1>5. /\ read'[s] = n /\ queue'[s] = Append(q, n)
      /\ accepted'[s] = IF Stopped(s) THEN accepted[s] ELSE n
    BY <1>2 DEF TypeOK
<1>6. page[s] \in Seq(Urls) /\ Pages(s) \in Nat  BY LenProperties DEF TypeOK, Pages
<1>7. accepted'[s] \in 0..n
    BY <1>5 DEF Bounded, TypeOK
<1>8. Bounded(s)'
    <2>1. \A i \in 1..Len(Append(q, n)) : Append(q, n)[i] \in 1..n
        BY <1>1
    <2>2. /\ last[s] <= n /\ final[s] <= n /\ accepted'[s] <= n /\ n > 0
        BY <1>7 DEF Bounded, TypeOK
    <2>3. Len(Append(q, n)) <= QueueCap  BY <1>1, BoundsAssumption
    <2>4. Pages(s)' = Pages(s) /\ Pages(s) <= MaxPages /\ n <= Pages(s)
        BY <1>6 DEF Bounded, Pages
    <2> QED  BY <1>5, <2>1, <2>2, <2>3, <2>4 DEF Bounded
<1>9. NewestIsKept(s)'
    <2>1. Len(queue'[s]) > 0 /\ queue'[s][Len(queue'[s])] = n  BY <1>1, <1>5
    <2>2. rec'[s] \in {"drain", "done"} => Stopped(s)'  BY DEF NewestIsKept, Stopped
    <2>3. rec'[s] \in {"select", "drain"} /\ last'[s] # 0 /\ s \notin failed'
            => saved'[s] = Url(s, last[s])'
        BY DEF NewestIsKept, Url
    <2>4. ASSUME rec'[s] = "done", accepted'[s] # 0, s \notin (failed \cup crowded)'
          PROVE \E k \in accepted'[s]..read'[s] : saved'[s] = Url(s, k)'
        <3>1. rec[s] = "done" /\ Stopped(s) /\ accepted'[s] = accepted[s]
            BY <1>5, <2>4 DEF NewestIsKept
        <3>2. PICK k \in accepted[s]..read[s] : saved[s] = Url(s, k)
            BY <2>4, <3>1 DEF NewestIsKept, Covers
        <3>3. k \in accepted'[s]..read'[s]  BY <1>5, <3>1, <3>2 DEF TypeOK
        <3>4. saved'[s] = Url(s, k)'  BY <3>2 DEF Url
        <3> QED  BY <3>3, <3>4
    <2> QED  BY <1>7, <2>1, <2>2, <2>3, <2>4 DEF NewestIsKept, Covers
<1> QED  BY <1>3, <1>4, <1>8, <1>9

\* An event that is taken and not queued: the session is closing, or there is
\* no room yet.
LEMMA PassStep ==
    ASSUME IInv, NEW s \in Sessions, read[s] + 1 <= Pages(s),
           read' = [read EXCEPT ![s] = read[s] + 1],
           loop' \in [Sessions -> {"select", "full", "room", "off"}],
           loop[s] = "select" /\ loop'[s] \in {"select", "full"},
           \A t \in Sessions : t # s => loop'[t] = loop[t],
           UNCHANGED <<lastUrl, life, startUrl, page, queue, rec, last, final, accepted, saved, failed, crowded>>
    PROVE IInv'
<1> USE DEF IInv
<1>1. TypeOK'
    <2>1. read' \in [Sessions -> Nat]  BY DEF TypeOK
    <2> QED  BY <2>1 DEF TypeOK
<1>2. ASSUME NEW t \in Sessions, t # s PROVE Bounded(t)' /\ NewestIsKept(t)'
    <2>1. read'[t] = read[t] /\ loop'[t] = loop[t]  BY <1>2 DEF TypeOK
    <2> QED  BY <2>1, AsBefore DEF Stopped
<1>3. read'[s] = read[s] + 1 /\ read[s] \in Nat /\ accepted[s] \in Nat  BY DEF TypeOK
<1>4. Bounded(s)'
    <2>1. \A i \in 1..Len(queue[s]) : queue[s][i] \in 1..read'[s]
        BY <1>3 DEF Bounded
    <2> QED  BY <1>3, <2>1 DEF Bounded, Pages, TypeOK
<1>5. NewestIsKept(s)'
    <2>1. ASSUME NEW x, Covers(s, x)
          PROVE \E k \in accepted'[s]..read'[s] : x = Url(s, k)'
        <3>1. PICK k \in accepted[s]..read[s] : x = Url(s, k)  BY <2>1 DEF Covers
        <3>2. k \in accepted'[s]..read'[s]  BY <1>3, <3>1
        <3>3. x = Url(s, k)'  BY <3>1 DEF Url
        <3> QED  BY <3>2, <3>3
    <2>2. Url(s, last[s])' = Url(s, last[s]) /\ Url(s, final[s])' = Url(s, final[s])  BY DEF Url
    <2>3. NewestIsKept(s)  OBVIOUS
    <2>5. (rec[s] \in {"drain", "done"} => Stopped(s))'  BY <2>3 DEF NewestIsKept, Stopped
    <2>6. (Len(queue[s]) > 0 => queue[s][Len(queue[s])] >= accepted[s])'  BY <2>3 DEF NewestIsKept
    <2>7. (Len(queue[s]) = 0 /\ loop[s] # "room" /\ accepted[s] # 0 =>
            /\ rec[s] \in {"select", "save"} => Covers(s, Url(s, last[s]))
            /\ rec[s] = "drain" => Covers(s, Url(s, final[s])))'
        <3> SUFFICES ASSUME Len(queue[s]) = 0, loop[s] # "room", accepted[s] # 0
                     PROVE  /\ rec[s] \in {"select", "save"} => Covers(s, Url(s, last[s]))'
                            /\ rec[s] = "drain" => Covers(s, Url(s, final[s]))'
            OBVIOUS
        <3>1. rec[s] \in {"select", "save"} => Covers(s, Url(s, last[s]))
            BY <2>3 DEF NewestIsKept
        <3>2. rec[s] = "drain" => Covers(s, Url(s, final[s]))
            BY <2>3 DEF NewestIsKept
        <3> QED  BY <2>1, <2>2, <3>1, <3>2 DEF Covers
    <2>8. (rec[s] \in {"select", "drain"} /\ last[s] # 0 /\ s \notin failed
            => saved[s] = Url(s, last[s]))'
        BY <2>2, <2>3 DEF NewestIsKept
    <2>9. (rec[s] = "done" /\ accepted[s] # 0 /\ s \notin failed \cup crowded => Covers(s, saved[s]))'
        BY <2>1, <2>3 DEF NewestIsKept, Covers
    <2> QED  BY <2>5, <2>6, <2>7, <2>8, <2>9 DEF NewestIsKept
<1> QED  BY <1>1, <1>2, <1>4, <1>5

LEMMA TakeEventStep ==
    ASSUME IInv, NEW s \in Sessions, TakeEvent(s)
    PROVE IInv'
<1> DEFINE n == read[s] + 1
<1>1. /\ n <= Pages(s) /\ loop[s] = "select"
      /\ read' = [read EXCEPT ![s] = n]
      /\ UNCHANGED <<lastUrl, life, startUrl, page, rec, last, final, saved, failed, crowded>>
    BY DEF TakeEvent, recVars
<1>2. TypeOK /\ Bounded(s)  BY DEF IInv
<1>3. /\ page[s] \in Seq(Urls) /\ Pages(s) \in Nat
      /\ read[s] \in Nat /\ queue[s] \in Seq(Nat)
    BY <1>2, LenProperties DEF TypeOK, Pages
<1>4. CASE UNCHANGED <<loop, queue, accepted>>
    <2>1. loop' \in [Sessions -> {"select", "full", "room", "off"}]  BY <1>2, <1>4 DEF TypeOK
    <2> QED  BY <1>1, <1>4, <2>1, PassStep
<1>5. CASE /\ loop' = [loop EXCEPT ![s] = "full"]
           /\ UNCHANGED <<queue, accepted>>
    <2>1. /\ loop' \in [Sessions -> {"select", "full", "room", "off"}]
          /\ \A t \in Sessions : t # s => loop'[t] = loop[t]
        BY <1>2, <1>5 DEF TypeOK
    <2> QED  BY <1>1, <1>5, <2>1, PassStep
<1>6. CASE /\ Len(queue[s]) < QueueCap
           /\ queue' = [queue EXCEPT ![s] = Append(queue[s], n)]
           /\ Accept(s, n) /\ UNCHANGED loop
    <2>1. loop' \in [Sessions -> {"select", "full", "room", "off"}]  BY <1>2, <1>6 DEF TypeOK
    <2>2. n \in Nat /\ n \in 1..Pages(s) /\ read[s] <= n  BY <1>1, <1>3
    <2>3. \A i \in 1..Len(queue[s]) : queue[s][i] \in 1..n  BY <1>2, <1>3 DEF Bounded
    <2> QED  BY <1>1, <1>3, <1>6, <2>1, <2>2, <2>3, QueueStep
<1> QED  BY <1>4, <1>5, <1>6 DEF TakeEvent

\* Receiving the oldest page, or finding that there is none, leaves room for one.
LEMMA DropOldestStep ==
    ASSUME IInv, NEW s \in Sessions, DropOldest(s)
    PROVE IInv'
<1> DEFINE q == IF queue[s] = <<>> THEN queue[s] ELSE Tail(queue[s])
<1>1. /\ loop[s] = "full" /\ loop' = [loop EXCEPT ![s] = "room"]
      /\ queue' = [queue EXCEPT ![s] = q]
      /\ UNCHANGED <<lastUrl, life, startUrl, page, read, rec, last, final, accepted, saved, failed, crowded>>
    BY DEF DropOldest, recVars, observers
<1>2. TypeOK /\ Bounded(s) /\ NewestIsKept(s)  BY DEF IInv
<1>3. queue[s] \in Seq(Nat) /\ read[s] \in Nat /\ accepted[s] \in Nat  BY <1>2 DEF TypeOK
<1>4. /\ q \in Seq(Nat) /\ Len(q) < QueueCap
      /\ \A i \in 1..Len(q) : q[i] \in 1..read[s]
      /\ Len(q) > 0 => q[Len(q)] >= accepted[s]
    <2>1. CASE queue[s] = <<>>
        <3>1. Len(q) = 0  BY <2>1
        <3> QED  BY <1>3, <2>1, <3>1, BoundsAssumption
    <2>2. CASE queue[s] # <<>>
        <3>1. /\ q = Tail(queue[s]) /\ q \in Seq(Nat)
              /\ Len(queue[s]) \in Nat \ {0} /\ Len(q) = Len(queue[s]) - 1
              /\ \A i \in 1..(Len(queue[s]) - 1) : q[i] = queue[s][i + 1]
            BY <1>3, <2>2, Received
        <3> HIDE DEF q
        <3>2. /\ Len(queue[s]) <= QueueCap /\ \A i \in 1..Len(queue[s]) : queue[s][i] \in 1..read[s]
              /\ queue[s][Len(queue[s])] >= accepted[s]
            BY <1>2, <3>1 DEF Bounded, NewestIsKept
        <3>3. ASSUME NEW i \in 1..Len(q) PROVE q[i] = queue[s][i + 1] /\ q[i] \in 1..read[s]
            <4>1. i + 1 \in 1..Len(queue[s]) /\ i \in 1..(Len(queue[s]) - 1)  BY <3>1
            <4> QED  BY <3>1, <3>2, <4>1
        <3>4. ASSUME Len(q) > 0 PROVE q[Len(q)] >= accepted[s]
            <4>1. Len(q) \in 1..Len(q) /\ Len(q) + 1 = Len(queue[s])  BY <3>1, <3>4
            <4> QED  BY <3>2, <3>3, <4>1
        <3> QED  BY <3>1, <3>2, <3>3, <3>4, BoundsAssumption
    <2> QED  BY <2>1, <2>2
<1> HIDE DEF q
<1>5. TypeOK'  BY <1>1, <1>2, <1>4 DEF TypeOK
<1>6. ASSUME NEW t \in Sessions, t # s PROVE Bounded(t)' /\ NewestIsKept(t)'
    <2>1. queue'[t] = queue[t] /\ loop'[t] = loop[t] /\ Bounded(t) /\ NewestIsKept(t)
        BY <1>1, <1>2, <1>6 DEF TypeOK, IInv
    <2> QED  BY <1>1, <2>1, AsBefore DEF Stopped
<1>7. queue'[s] = q /\ loop'[s] = "room"  BY <1>1, <1>2 DEF TypeOK
<1>8. Bounded(s)'
    <2>1. Len(q) <= QueueCap /\ read[s] > 0  BY <1>1, <1>2, <1>4, LenProperties, BoundsAssumption DEF Bounded
    <2> QED  BY <1>1, <1>2, <1>4, <1>7, <2>1 DEF Bounded, Pages
<1>9. NewestIsKept(s)'
    <2>1. (rec[s] \in {"drain", "done"} => Stopped(s))'  BY <1>1, <1>2 DEF NewestIsKept, Stopped
    <2>2. (Len(queue[s]) > 0 => queue[s][Len(queue[s])] >= accepted[s])'  BY <1>1, <1>4, <1>7
    <2>3. (rec[s] \in {"select", "drain"} /\ last[s] # 0 /\ s \notin failed => saved[s] = Url(s, last[s]))'
        BY <1>1, <1>2 DEF NewestIsKept, Url
    <2>4. (rec[s] = "done" /\ accepted[s] # 0 /\ s \notin failed \cup crowded => Covers(s, saved[s]))'
        BY <1>1, <1>2 DEF NewestIsKept, Covers, Url
    <2> QED  BY <1>7, <2>1, <2>2, <2>3, <2>4 DEF NewestIsKept
<1> QED  BY <1>5, <1>6, <1>8, <1>9 DEF IInv

LEMMA SendNewStep ==
    ASSUME IInv, NEW s \in Sessions, SendNew(s)
    PROVE IInv'
<1>1. /\ loop[s] = "room" /\ loop' = [loop EXCEPT ![s] = "select"]
      /\ queue' = [queue EXCEPT ![s] = Append(queue[s], read[s])]
      /\ Accept(s, read[s])
      /\ UNCHANGED <<lastUrl, life, startUrl, page, read, rec, last, final, saved, failed, crowded>>
    BY DEF SendNew, recVars
<1>2. TypeOK /\ Bounded(s)  BY DEF IInv
<1>3. /\ page[s] \in Seq(Urls) /\ Pages(s) \in Nat
      /\ read[s] \in Nat /\ queue[s] \in Seq(Nat)
      /\ read[s] > 0 /\ read[s] <= Pages(s)
    BY <1>1, <1>2, LenProperties DEF TypeOK, Bounded, Pages
<1>4. Len(queue[s]) < QueueCap /\ \A i \in 1..Len(queue[s]) : queue[s][i] \in 1..read[s]
    BY <1>1, <1>2 DEF Bounded
<1>5. /\ loop' \in [Sessions -> {"select", "full", "room", "off"}]
      /\ loop'[s] = "select" /\ \A t \in Sessions \ {s} : loop'[t] = loop[t]
    BY <1>1, <1>2 DEF TypeOK
<1>6. read' = [read EXCEPT ![s] = read[s]]  BY <1>1, <1>2 DEF TypeOK
<1>7. read[s] \in 1..Pages(s) /\ read[s] <= read[s]  BY <1>3
<1> QED  BY <1>1, <1>3, <1>4, <1>5, <1>6, <1>7, QueueStep

-----------------------------------------------------------------------------
(***************************************************************************)
(* run                                                                     *)
(***************************************************************************)
\* The variables of the pages and of every other session stay.
LEMMA RecTakeStep ==
    ASSUME IInv, NEW s \in Sessions, RecTake(s)
    PROVE IInv'
<1> USE DEF IInv
<1> DEFINE n == Head(queue[s])
<1>1. /\ rec[s] = "select" /\ queue[s] # <<>>
      /\ queue' = [queue EXCEPT ![s] = Tail(queue[s])]
      /\ UNCHANGED <<lastUrl, life, startUrl, page, read, loop, final, accepted, saved, failed, crowded>>
      /\ \/ Url(s, n) = Url(s, last[s]) /\ UNCHANGED <<rec, last>>
         \/ /\ Url(s, n) # Url(s, last[s])
            /\ last' = [last EXCEPT ![s] = n] /\ rec' = [rec EXCEPT ![s] = "save"]
    BY DEF RecTake, loopVars, observers
<1>2. queue[s] \in Seq(Nat)  BY DEF TypeOK
<1>3. /\ Tail(queue[s]) \in Seq(Nat) /\ n = queue[s][1] /\ n \in Nat
      /\ Len(queue[s]) \in Nat \ {0}
      /\ Len(Tail(queue[s])) = Len(queue[s]) - 1
      /\ \A i \in 1..(Len(queue[s]) - 1) : Tail(queue[s])[i] = queue[s][i + 1]
    BY <1>1, <1>2, Received
<1> HIDE DEF n
<1>4. TypeOK'  BY <1>1, <1>3 DEF TypeOK
<1>5. ASSUME NEW t \in Sessions, t # s PROVE Bounded(t)' /\ NewestIsKept(t)'
    <2>1. queue'[t] = queue[t] /\ last'[t] = last[t] /\ rec'[t] = rec[t]
        BY <1>1, <1>5 DEF TypeOK
    <2> QED  BY <1>1, <2>1, AsBefore DEF Stopped
<1>6. queue'[s] = Tail(queue[s]) /\ read[s] \in Nat /\ accepted[s] \in Nat  BY <1>1 DEF TypeOK
<1>7. n \in 1..read[s]  BY <1>3 DEF Bounded
<1>8. \/ Url(s, n) = Url(s, last[s]) /\ last'[s] = last[s] /\ rec'[s] = "select"
      \/ Url(s, n) # Url(s, last[s]) /\ last'[s] = n /\ rec'[s] = "save"
    BY <1>1 DEF TypeOK
<1>9. Bounded(s)'
    <2>1. ASSUME NEW i \in 1..Len(queue'[s]) PROVE queue'[s][i] \in 1..read'[s]
        <3>1. i + 1 \in 1..Len(queue[s]) /\ i \in 1..(Len(queue[s]) - 1)  BY <1>3, <1>6
        <3> QED  BY <1>1, <1>3, <1>6, <3>1 DEF Bounded
    <2> QED  BY <1>1, <1>3, <1>6, <1>7, <1>8, <2>1, BoundsAssumption DEF Bounded, Pages
<1>10. NewestIsKept(s)'
    <2>1. Url(s, last[s])' = Url(s, n)  BY <1>1, <1>8 DEF Url
    <2>2. ASSUME Len(queue'[s]) > 0 PROVE queue'[s][Len(queue'[s])] >= accepted'[s]
        <3>1. /\ Len(queue[s]) - 1 \in 1..(Len(queue[s]) - 1)
              /\ (Len(queue[s]) - 1) + 1 = Len(queue[s]) /\ Len(queue[s]) > 0
            BY <1>3, <1>6, <2>2
        <3>2. queue'[s][Len(queue'[s])] = queue[s][Len(queue[s])]  BY <1>3, <1>6, <3>1
        <3> QED  BY <1>1, <3>1, <3>2 DEF NewestIsKept
    <2>3. ASSUME Len(queue'[s]) = 0
          PROVE \E k \in accepted'[s]..read'[s] : Url(s, last[s])' = Url(s, k)'
        <3>1. Len(queue[s]) = 1  BY <1>3, <1>6, <2>3
        <3>2. n >= accepted[s]  BY <1>3, <3>1 DEF NewestIsKept
        <3>3. n \in accepted'[s]..read'[s]  BY <1>1, <1>6, <1>7, <3>2
        <3>4. \A k : Url(s, k)' = Url(s, k)  BY <1>1 DEF Url
        <3> QED  BY <2>1, <3>3, <3>4 DEF Url
    <2>4. rec'[s] = "select" /\ last'[s] # 0 /\ s \notin failed' => saved'[s] = Url(s, last[s])'
        BY <1>1, <1>8 DEF NewestIsKept, Url
    <2>5. rec'[s] \in {"select", "save"}  BY <1>8
    <2> QED  BY <2>2, <2>3, <2>4, <2>5 DEF NewestIsKept, Covers
<1> QED  BY <1>4, <1>5, <1>9, <1>10

\* A save does not touch the queue.
LEMMA RecSaveStep ==
    ASSUME IInv, NEW s \in Sessions, RecSave(s)
    PROVE IInv'
<1> USE DEF IInv
<1>1. /\ rec[s] = "save" /\ rec' = [rec EXCEPT ![s] = "select"]
      /\ UNCHANGED <<life, startUrl, page, read, loop, queue, last, final, accepted, crowded>>
      /\ \/ /\ lastUrl' = Url(s, last[s]) /\ saved' = [saved EXCEPT ![s] = Url(s, last[s])]
            /\ failed' = failed \ {s}
         \/ failed' = failed \cup {s} /\ UNCHANGED <<lastUrl, saved>>
    BY DEF RecSave, Save, loopVars
<1>2. page[s] \in Seq(Urls) /\ Pages(s) \in Nat  BY LenProperties DEF TypeOK, Pages
<1>3. Url(s, last[s]) \in Urls \cup {NoUrl}
    <2>1. last[s] \in 0..Pages(s)  BY <1>2 DEF Bounded, TypeOK
    <2> QED  BY <2>1, UrlType
<1>4. TypeOK'
    <2>1. rec' \in [Sessions -> {"select", "save", "drain", "done"}]  BY <1>1 DEF TypeOK
    <2>2. saved \in [Sessions -> Urls \cup {NoUrl}]  BY DEF TypeOK
    <2>3. saved' \in [Sessions -> Urls \cup {NoUrl}]  BY <1>1, <1>3, <2>2
    <2>4. lastUrl' \in Urls \cup {NoUrl} /\ failed' \subseteq Sessions
        BY <1>1, <1>3 DEF TypeOK
    <2> QED  BY <1>1, <2>1, <2>3, <2>4 DEF TypeOK
<1>5. ASSUME NEW t \in Sessions, t # s PROVE Bounded(t)' /\ NewestIsKept(t)'
    <2>1. rec'[t] = rec[t] /\ saved'[t] = saved[t] /\ (t \in failed' <=> t \in failed)
        BY <1>1, <1>5 DEF TypeOK
    <2> QED  BY <1>1, <2>1, AsBefore DEF Stopped
<1>6. Bounded(s)'  BY <1>1 DEF Bounded, Pages
<1>7. rec'[s] = "select" /\ (s \notin failed' => saved'[s] = Url(s, last[s]))
    BY <1>1 DEF TypeOK
<1>8. NewestIsKept(s)'
    <2>1. NewestIsKept(s)  OBVIOUS
    <2>2. Url(s, last[s])' = Url(s, last[s])  BY <1>1 DEF Url
    <2>3. (Len(queue[s]) > 0 => queue[s][Len(queue[s])] >= accepted[s])'
        BY <1>1, <2>1 DEF NewestIsKept
    <2>4. (Len(queue[s]) = 0 /\ loop[s] # "room" /\ accepted[s] # 0 => Covers(s, Url(s, last[s])))'
        BY <1>1, <2>1 DEF NewestIsKept, Covers, Url
    <2> QED  BY <1>7, <2>2, <2>3, <2>4 DEF NewestIsKept
<1> QED  BY <1>4, <1>5, <1>6, <1>8

\* With nothing queued, what was taken last is what the draining begins with.
LEMMA RecStopsStep ==
    ASSUME IInv, NEW s \in Sessions, RecStops(s)
    PROVE IInv'
<1> USE DEF IInv
<1>1. /\ rec[s] = "select" /\ Stopped(s) /\ rec' = [rec EXCEPT ![s] = "drain"]
      /\ final' = [final EXCEPT ![s] = last[s]]
      /\ UNCHANGED <<lastUrl, life, startUrl, page, read, loop, queue, last, accepted, saved, failed, crowded>>
    BY DEF RecStops, loopVars, observers
<1>2. TypeOK'  BY <1>1 DEF TypeOK
<1>3. ASSUME NEW t \in Sessions, t # s PROVE Bounded(t)' /\ NewestIsKept(t)'
    <2>1. rec'[t] = rec[t] /\ final'[t] = final[t]  BY <1>1, <1>3 DEF TypeOK
    <2> QED  BY <1>1, <2>1, AsBefore DEF Stopped
<1>4. rec'[s] = "drain" /\ final'[s] = last[s]  BY <1>1 DEF TypeOK
<1>5. Bounded(s)'  BY <1>1, <1>4 DEF Bounded, Pages
<1>6. NewestIsKept(s)'
    <2>1. NewestIsKept(s)  OBVIOUS
    <2>2. Url(s, final[s])' = Url(s, last[s]) /\ Url(s, last[s])' = Url(s, last[s])
        BY <1>1, <1>4 DEF Url
    <2>3. (Len(queue[s]) > 0 => queue[s][Len(queue[s])] >= accepted[s])'
        BY <1>1, <2>1 DEF NewestIsKept
    <2>4. (Len(queue[s]) = 0 /\ loop[s] # "room" /\ accepted[s] # 0 => Covers(s, Url(s, final[s])))'
        BY <1>1, <2>1, <2>2 DEF NewestIsKept, Covers, Url
    <2>5. (last[s] # 0 /\ s \notin failed => saved[s] = Url(s, last[s]))'
        BY <1>1, <2>1, <2>2 DEF NewestIsKept
    <2>6. Stopped(s)'  BY <1>1 DEF Stopped
    <2> QED  BY <1>4, <2>3, <2>4, <2>5, <2>6 DEF NewestIsKept
<1> QED  BY <1>2, <1>3, <1>5, <1>6

LEMMA RecDrainsStep ==
    ASSUME IInv, NEW s \in Sessions, RecDrains(s)
    PROVE IInv'
<1> USE DEF IInv
<1> DEFINE n == Head(queue[s])
<1>1. /\ rec[s] = "drain" /\ queue[s] # <<>>
      /\ queue' = [queue EXCEPT ![s] = Tail(queue[s])]
      /\ final' = [final EXCEPT ![s] = n]
      /\ UNCHANGED <<lastUrl, life, startUrl, page, read, loop, rec, last, accepted, saved, failed, crowded>>
    BY DEF RecDrains, loopVars, observers
<1>2. queue[s] \in Seq(Nat)  BY DEF TypeOK
<1>3. /\ Tail(queue[s]) \in Seq(Nat) /\ n = queue[s][1] /\ n \in Nat
      /\ Len(queue[s]) \in Nat \ {0}
      /\ Len(Tail(queue[s])) = Len(queue[s]) - 1
      /\ \A i \in 1..(Len(queue[s]) - 1) : Tail(queue[s])[i] = queue[s][i + 1]
    BY <1>1, <1>2, Received
<1> HIDE DEF n
<1>4. TypeOK'  BY <1>1, <1>3 DEF TypeOK
<1>5. ASSUME NEW t \in Sessions, t # s PROVE Bounded(t)' /\ NewestIsKept(t)'
    <2>1. queue'[t] = queue[t] /\ final'[t] = final[t]  BY <1>1, <1>5 DEF TypeOK
    <2> QED  BY <1>1, <2>1, AsBefore DEF Stopped
<1>6. /\ queue'[s] = Tail(queue[s]) /\ final'[s] = n
      /\ read[s] \in Nat /\ accepted[s] \in Nat
    BY <1>1 DEF TypeOK
<1>7. n \in 1..read[s]  BY <1>3 DEF Bounded
<1>8. Bounded(s)'
    <2>1. ASSUME NEW i \in 1..Len(queue'[s]) PROVE queue'[s][i] \in 1..read'[s]
        <3>1. i + 1 \in 1..Len(queue[s]) /\ i \in 1..(Len(queue[s]) - 1)  BY <1>3, <1>6
        <3> QED  BY <1>1, <1>3, <1>6, <3>1 DEF Bounded
    <2>2. Bounded(s)  OBVIOUS
    <2>3. Len(queue'[s]) < QueueCap /\ Len(queue'[s]) <= QueueCap  BY <1>3, <1>6, <2>2, BoundsAssumption DEF Bounded
    <2>4. final'[s] <= read'[s]  BY <1>1, <1>6, <1>7
    <2> QED  BY <1>1, <2>1, <2>2, <2>3, <2>4 DEF Bounded, Pages
<1>9. NewestIsKept(s)'
    <2>1. NewestIsKept(s)  OBVIOUS
    <2>2. ASSUME Len(queue'[s]) > 0 PROVE queue'[s][Len(queue'[s])] >= accepted'[s]
        <3>1. /\ Len(queue[s]) - 1 \in 1..(Len(queue[s]) - 1)
              /\ (Len(queue[s]) - 1) + 1 = Len(queue[s]) /\ Len(queue[s]) > 0
            BY <1>3, <1>6, <2>2
        <3>2. queue'[s][Len(queue'[s])] = queue[s][Len(queue[s])]  BY <1>3, <1>6, <3>1
        <3> QED  BY <1>1, <2>1, <3>1, <3>2 DEF NewestIsKept
    <2>3. ASSUME Len(queue'[s]) = 0
          PROVE \E k \in accepted'[s]..read'[s] : Url(s, final[s])' = Url(s, k)'
        <3>1. Len(queue[s]) = 1  BY <1>3, <1>6, <2>3
        <3>2. n >= accepted[s]  BY <1>3, <2>1, <3>1 DEF NewestIsKept
        <3>3. n \in accepted'[s]..read'[s]  BY <1>1, <1>6, <1>7, <3>2
        <3> QED  BY <1>6, <3>3 DEF Url
    <2>4. (last[s] # 0 /\ s \notin failed => saved[s] = Url(s, last[s]))'
        BY <1>1, <2>1 DEF NewestIsKept, Url
    <2>5. rec'[s] = "drain" /\ Stopped(s)'  BY <1>1, <2>1 DEF NewestIsKept, Stopped
    <2> QED  BY <2>2, <2>3, <2>4, <2>5 DEF NewestIsKept, Covers
<1> QED  BY <1>4, <1>5, <1>8, <1>9

\* The final page is saved now, or its URL was saved before.
LEMMA RecEndsStep ==
    ASSUME IInv, NEW s \in Sessions, RecEnds(s)
    PROVE IInv'
<1> USE DEF IInv
<1>1. /\ rec[s] = "drain" /\ queue[s] = <<>> /\ rec' = [rec EXCEPT ![s] = "done"]
      /\ UNCHANGED <<life, startUrl, page, read, loop, queue, last, final, accepted>>
      /\ \/ /\ lastUrl' = Url(s, final[s]) /\ saved' = [saved EXCEPT ![s] = Url(s, final[s])]
            /\ failed' = failed \ {s}
         \/ failed' = failed \cup {s} /\ UNCHANGED <<lastUrl, saved>>
         \/ /\ final[s] = 0 \/ Url(s, final[s]) = Url(s, last[s])
            /\ UNCHANGED <<lastUrl, saved, failed>>
      /\ crowded' = IF loop[s] = "room" THEN crowded \cup {s} ELSE crowded
    BY DEF RecEnds, Save, loopVars
<1>2. page[s] \in Seq(Urls) /\ Pages(s) \in Nat  BY LenProperties DEF TypeOK, Pages
<1>3. Url(s, final[s]) \in Urls \cup {NoUrl}
    <2>1. final[s] \in 0..Pages(s)  BY <1>2 DEF Bounded, TypeOK
    <2> QED  BY <2>1, UrlType
<1>4. TypeOK'
    <2>1. rec' \in [Sessions -> {"select", "save", "drain", "done"}]  BY <1>1 DEF TypeOK
    <2>2. saved \in [Sessions -> Urls \cup {NoUrl}]  BY DEF TypeOK
    <2>3. saved' \in [Sessions -> Urls \cup {NoUrl}]  BY <1>1, <1>3, <2>2
    <2>4. lastUrl' \in Urls \cup {NoUrl} /\ failed' \subseteq Sessions
        BY <1>1, <1>3 DEF TypeOK
    <2> QED  BY <1>1, <2>1, <2>3, <2>4 DEF TypeOK
<1>5. ASSUME NEW t \in Sessions, t # s PROVE Bounded(t)' /\ NewestIsKept(t)'
    <2>1. /\ rec'[t] = rec[t] /\ saved'[t] = saved[t] /\ (t \in failed' <=> t \in failed)
          /\ (t \in crowded' <=> t \in crowded)
        BY <1>1, <1>5 DEF TypeOK
    <2> QED  BY <1>1, <2>1, AsBefore DEF Stopped
<1>6. Bounded(s)'  BY <1>1 DEF Bounded, Pages
<1>7. rec'[s] = "done" /\ Len(queue[s]) = 0 /\ Stopped(s)
    BY <1>1 DEF TypeOK, NewestIsKept
<1>8. ASSUME accepted[s] # 0, s \notin (failed \cup crowded)' PROVE saved'[s] = Url(s, final[s])
    <2>1. PICK k \in accepted[s]..read[s] : Url(s, final[s]) = Url(s, k)
        BY <1>1, <1>7, <1>8 DEF NewestIsKept, Covers
    <2>2. k \in 1..Pages(s)  BY <1>2, <1>8, <2>1 DEF Bounded, TypeOK
    <2>3. Url(s, final[s]) # NoUrl  BY <2>1, <2>2, UrlOfPage
    <2>4. final[s] # 0  BY <2>3 DEF Url
    <2>5. Url(s, final[s]) = Url(s, last[s]) => last[s] # 0  BY <2>3 DEF Url
    <2> QED  BY <1>1, <1>8, <2>4, <2>5 DEF TypeOK, NewestIsKept
<1>9. NewestIsKept(s)'
    <2>1. ASSUME accepted'[s] # 0, s \notin (failed \cup crowded)'
          PROVE \E k \in accepted'[s]..read'[s] : saved'[s] = Url(s, k)'
        <3>1. saved'[s] = Url(s, final[s])  BY <1>1, <1>8, <2>1
        <3>2. PICK k \in accepted[s]..read[s] : Url(s, final[s]) = Url(s, k)
            BY <1>1, <1>7, <2>1 DEF NewestIsKept, Covers
        <3>3. Url(s, k)' = Url(s, k)  BY <1>1 DEF Url
        <3> QED  BY <1>1, <3>1, <3>2, <3>3
    <2>2. Len(queue'[s]) = 0 /\ Stopped(s)'  BY <1>1, <1>7 DEF Stopped
    <2> QED  BY <1>7, <2>1, <2>2 DEF NewestIsKept, Covers
<1> QED  BY <1>4, <1>5, <1>6, <1>9

-----------------------------------------------------------------------------
(***************************************************************************)
(* Theorems                                                                *)
(***************************************************************************)
LEMMA StutterStep ==
    ASSUME IInv, UNCHANGED vars
    PROVE IInv'
<1> USE DEF IInv
<1>1. UNCHANGED <<lastUrl, life, startUrl, page, read, loop, queue, rec, last, final, accepted, saved, failed, crowded>>
    BY DEF vars, loopVars, recVars, observers
<1>2. TypeOK'  BY <1>1 DEF TypeOK
<1>3. ASSUME NEW t \in Sessions PROVE Bounded(t)' /\ NewestIsKept(t)'
    BY <1>1, <1>3, AsBefore DEF Stopped
<1> QED  BY <1>2, <1>3

\* Whatever the browser, the event loop, the recorder and Close do, in any
\* order: the newest page queued in time, or a later one, is in the queue, in
\* the recorder's hands or on disk.
THEOREM InductiveInvariant == Spec => []IInv
<1>1. Init => IInv  BY InitIInv
<1>2. IInv /\ [Next]_vars => IInv'
    <2> SUFFICES ASSUME IInv, [Next]_vars PROVE IInv'  OBVIOUS
    <2>1. CASE UNCHANGED vars  BY <2>1, StutterStep
    <2>2. CASE Next
        <3>1. PICK s \in Sessions :
                \/ Launch(s) \/ Attach(s) \/ Exit(s)
                \/ \E u \in Urls : Navigate(s, u)
                \/ EventLoop(s) \/ LoopEnds(s) \/ Recorder(s) \/ Waiter(s)
            BY <2>2 DEF Next
        <3>2. CASE Launch(s) \/ Attach(s) \/ Exit(s) \/ Waiter(s) \/ LoopEnds(s)
            BY <3>2, LifeStep
        <3>3. CASE \E u \in Urls : Navigate(s, u)  BY <3>3, NavigateStep
        <3>4. CASE EventLoop(s)  BY <3>4, TakeEventStep, DropOldestStep, SendNewStep DEF EventLoop
        <3>5. CASE Recorder(s)
            BY <3>5, RecTakeStep, RecSaveStep, RecStopsStep, RecDrainsStep, RecEndsStep DEF Recorder
        <3> QED  BY <3>1, <3>2, <3>3, <3>4, <3>5
    <2> QED  BY <2>1, <2>2
<1> QED  BY <1>1, <1>2, PTL DEF Spec

\* The variables keep their types, and no goroutine holds a page before it
\* was read.
THEOREM TypeCorrect == Spec => [](TypeOK /\ \A s \in Sessions : Bounded(s))
<1>1. IInv => TypeOK /\ \A s \in Sessions : Bounded(s)  BY DEF IInv
<1> QED  BY <1>1, InductiveInvariant, PTL

\* What a session saved when its recorder is done is not older than what was
\* queued before close, unless a save failed or the recorder ended between the
\* two steps in which submit replaces the oldest page (controller.go:354, 358).
THEOREM ClosingLosesNoPage == Spec => []QueuedPagesSurviveClose
<1>1. ASSUME IInv PROVE QueuedPagesSurviveClose
    <2> SUFFICES ASSUME NEW s \in Sessions,
                        rec[s] = "done", accepted[s] # 0, s \notin failed \cup crowded
                 PROVE \E n \in accepted[s]..Pages(s) : saved[s] = Url(s, n)
        BY DEF QueuedPagesSurviveClose
    <2>1. TypeOK /\ Bounded(s) /\ NewestIsKept(s)  BY <1>1 DEF IInv
    <2>2. PICK k \in accepted[s]..read[s] : saved[s] = Url(s, k)
        BY <2>1 DEF NewestIsKept, Covers
    <2>3. Pages(s) \in Nat  BY <2>1, LenProperties DEF TypeOK, Pages
    <2>4. k \in accepted[s]..Pages(s)  BY <2>1, <2>2, <2>3 DEF Bounded, TypeOK
    <2> QED  BY <2>2, <2>4
<1> QED  BY <1>1, InductiveInvariant, PTL

-----------------------------------------------------------------------------
(***************************************************************************)
(* The loop that keeps what is not too old                                 *)
(***************************************************************************)
\* One more position at the end keeps the order and the distances.
LEMMA PlacesOneMore ==
    ASSUME NEW m \in Nat, NEW n \in Nat, NEW place, Places(place, m, n)
    PROVE  Places([i \in 1..m + 1 |-> IF i = m + 1 THEN n + 1 ELSE place[i]], m + 1, n + 1)
<1> DEFINE next == [i \in 1..m + 1 |-> IF i = m + 1 THEN n + 1 ELSE place[i]]
<1>1. \A i \in 1..m : place[i] \in 1..n /\ n - place[i] >= m - i
  <2> TAKE i \in 1..m
  <2>1. m \in 1..m /\ i <= m
    OBVIOUS
  <2> QED
    BY <2>1 DEF Places
<1>2. next \in [1..m + 1 -> 1..n + 1]
  <2> SUFFICES ASSUME NEW i \in 1..m + 1 PROVE (IF i = m + 1 THEN n + 1 ELSE place[i]) \in 1..n + 1
    OBVIOUS
  <2>1. CASE i = m + 1
    BY <2>1
  <2>2. CASE i # m + 1
    BY <1>1, <2>2
  <2> QED
    BY <2>1, <2>2
<1>3. ASSUME NEW i \in 1..m + 1, NEW j \in 1..m + 1, i <= j PROVE next[j] - next[i] >= j - i
  <2>1. CASE j # m + 1
    <3>1. i \in 1..m /\ j \in 1..m /\ next[i] = place[i] /\ next[j] = place[j]
      BY <1>3, <2>1
    <3> QED
      BY <1>3, <3>1 DEF Places
  <2>2. CASE j = m + 1 /\ i # m + 1
    <3>1. i \in 1..m /\ next[i] = place[i] /\ next[j] = n + 1
      BY <2>2
    <3> QED
      BY <1>1, <2>2, <3>1
  <2>3. CASE j = m + 1 /\ i = m + 1
    <3>1. next[i] = n + 1 /\ next[j] = n + 1
      BY <2>3
    <3> QED
      BY <2>3, <3>1
  <2> QED
    BY <2>1, <2>2, <2>3
<1> QED
  BY <1>2, <1>3 DEF Places

\* Places of places.
LEMMA PlacesCompose ==
    ASSUME NEW k \in Nat, NEW m \in Nat, NEW n \in Nat,
           NEW f \in [1..k -> 1..m], Places(f, k, m), NEW g \in [1..m -> 1..n], Places(g, m, n),
           NEW h \in [1..k -> 1..n], \A i \in 1..k : h[i] = g[f[i]]
    PROVE  Places(h, k, n)
<1>1. \A i \in 1..k : f[i] \in 1..m /\ g[f[i]] \in 1..n
  BY DEF Places
<1>2. ASSUME NEW i \in 1..k, NEW j \in 1..k, i <= j PROVE g[f[j]] - g[f[i]] >= j - i
  <2>1. f[i] \in 1..m /\ f[j] \in 1..m /\ f[j] - f[i] >= j - i
    BY <1>1, <1>2 DEF Places
  <2>2. f[i] <= f[j]
    BY <1>2, <2>1
  <2>3. g[f[j]] - g[f[i]] >= f[j] - f[i]
    BY <2>1, <2>2 DEF Places
  <2> QED
    BY <1>1, <2>1, <2>3
<1> QED
  BY <1>1, <1>2 DEF Places

\* How to show that a list follows a log.
LEMMA FollowsBy ==
    ASSUME NEW list, NEW log, NEW n \in Nat, NEW newest, NEW cutoff, NEW k \in Nat, Len(list) = k,
           NEW place \in [1..k -> 1..n], Places(place, k, n),
           \A i \in 1..k : list[i] = log[place[i]],
           \A j \in 1..n : j > n - newest /\ log[j].at >= cutoff => \E i \in 1..k : place[i] = j
    PROVE  Follows(list, log, n, newest, cutoff)
  BY DEF Follows

LEMMA NothingFollows == ASSUME NEW newest, NEW cutoff PROVE Follows(<<>>, <<>>, 0, newest, cutoff)
<1> DEFINE place == [i \in 1..0 |-> 0]
<1>1. place \in [1..0 -> 1..0] /\ Len(<<>>) = 0 /\ 1..0 = {}
  OBVIOUS
<1>2. Places(place, 0, 0)
  BY <1>1 DEF Places
<1> HIDE DEF place
<1> QED
  BY <1>1, <1>2 DEF Follows

\* All of the first n entries count as new.
Keeps(list, log, n, cutoff) == list \in Seq(Entry) /\ Follows(list, log, n, n, cutoff)

\* What the loop has kept after i rounds.
Rounds(kept, events, cutoff, n) ==
    kept = [i \in 0..n |->
              IF i = 0 THEN <<>>
              ELSE IF events[i].at >= cutoff THEN Append(kept[i - 1], events[i]) ELSE kept[i - 1]]

\* Counting from 0 reaches every number.
LEMMA Reached ==
    ASSUME NEW S \in SUBSET Nat, 0 \in S, NEW n \in Nat, \A i \in S : i < n => i + 1 \in S
    PROVE  n \in S
<1> DEFINE less == OpToRel(<, Nat)
           missing == {i \in 0..n : i \notin S}
<1> SUFFICES ASSUME n \notin S PROVE FALSE
  OBVIOUS
<1>1. missing \subseteq Nat /\ missing # {}
  OBVIOUS
<1>2. IsWellFoundedOn(less, Nat)
  BY NatLessThanWellFounded
<1>3. PICK i \in missing : \A j \in missing : <<j, i>> \notin less
  BY <1>1, <1>2, WFMin
<1>4. i \in 0..n /\ i # 0 /\ i - 1 \in 0..n /\ i - 1 < n
  OBVIOUS
<1>5. i - 1 \in S
  <2> SUFFICES ASSUME i - 1 \in missing PROVE FALSE
    BY <1>4
  <2>1. i - 1 \in Nat /\ i \in Nat /\ i - 1 < i
    BY <1>4
  <2>2. <<i - 1, i>> \in less
    BY <2>1 DEF OpToRel
  <2> QED
    BY <1>3, <2>2
<1>6. i - 1 + 1 \in S
  BY <1>4, <1>5
<1> QED
  BY <1>4, <1>6

\* The loop ends.
LEMMA LoopRuns ==
    ASSUME NEW events \in Seq(Entry), NEW cutoff \in Int
    PROVE  \E kept : Rounds(kept, events, cutoff, Len(events))
<1> DEFINE S == {n \in 0..Len(events) : \E kept : Rounds(kept, events, cutoff, n)}
<1>1. 0 \in S
  <2>1. Rounds([i \in 0..0 |-> <<>>], events, cutoff, 0)
    BY DEF Rounds
  <2> QED
    BY <2>1
<1>2. ASSUME NEW n \in S, n < Len(events) PROVE n + 1 \in S
  <2>1. PICK kept : Rounds(kept, events, cutoff, n)
    OBVIOUS
  <2> DEFINE more == [i \in 0..n + 1 |->
                        IF i # n + 1 THEN kept[i]
                        ELSE IF events[i].at >= cutoff THEN Append(kept[i - 1], events[i]) ELSE kept[i - 1]]
  <2>2. n \in Nat /\ n + 1 \in 0..Len(events)
    BY <1>2
  <2>3. \A i \in 0..n : more[i] = kept[i]
    BY <2>2
  <2>4. ASSUME NEW i \in 0..n + 1
        PROVE  more[i] = IF i = 0 THEN <<>>
                         ELSE IF events[i].at >= cutoff THEN Append(more[i - 1], events[i]) ELSE more[i - 1]
    <3>1. CASE i = n + 1
      <4>1. i # 0 /\ i - 1 \in 0..n
        BY <2>2, <3>1
      <4>2. more[i - 1] = kept[i - 1]
        BY <2>3, <4>1
      <4>3. more[i] = IF events[i].at >= cutoff THEN Append(kept[i - 1], events[i]) ELSE kept[i - 1]
        BY <3>1
      <4> QED
        BY <4>1, <4>2, <4>3
    <3>2. CASE i # n + 1
      <4>1. i \in 0..n
        BY <2>2, <3>2
      <4>2. more[i] = kept[i]
        BY <2>3, <4>1
      <4>3. kept[i] = IF i = 0 THEN <<>>
                      ELSE IF events[i].at >= cutoff THEN Append(kept[i - 1], events[i]) ELSE kept[i - 1]
        BY <2>1, <4>1 DEF Rounds
      <4>4. i # 0 => more[i - 1] = kept[i - 1]
        BY <2>2, <2>3, <4>1
      <4> QED
        BY <4>2, <4>3, <4>4
    <3> QED
      BY <3>1, <3>2
  <2> HIDE DEF more
  <2>5. more = [i \in 0..n + 1 |-> more[i]]
    BY DEF more
  <2>6. Rounds(more, events, cutoff, n + 1)
    BY <2>4, <2>5 DEF Rounds
  <2> QED
    BY <2>2, <2>6
<1> HIDE DEF S
<1>3. Len(events) \in S
  <2>1. S \in SUBSET Nat /\ Len(events) \in Nat
    BY DEF S
  <2> QED
    BY <1>1, <1>2, <2>1, Reached
<1> QED
  BY <1>3 DEF S

\* What the loop keeps: all that is not too old, in its order.
LEMMA LoopKeeps ==
    ASSUME NEW events \in Seq(Entry), NEW cutoff \in Int
    PROVE  Keeps(KeptSince(events, cutoff), events, Len(events), cutoff)
<1> DEFINE kept[i \in 0..Len(events)] ==
             IF i = 0 THEN <<>>
             ELSE IF events[i].at >= cutoff THEN Append(kept[i - 1], events[i]) ELSE kept[i - 1]
           S == {n \in 0..Len(events) : Keeps(kept[n], events, n, cutoff)}
<1>1. KeptSince(events, cutoff) = kept[Len(events)]
  BY DEF KeptSince
<1>2. Rounds(kept, events, cutoff, Len(events))
  BY LoopRuns DEF Rounds
<1> HIDE DEF kept
<1>3. \A i \in 0..Len(events) :
        kept[i] = IF i = 0 THEN <<>>
                  ELSE IF events[i].at >= cutoff THEN Append(kept[i - 1], events[i]) ELSE kept[i - 1]
  BY <1>2 DEF Rounds
<1>4. 0 \in S
  <2>1. kept[0] = <<>> /\ 0 \in 0..Len(events)
    BY <1>3
  <2>2. Places([i \in 1..0 |-> 0], 0, 0)
    BY DEF Places
  <2>3. [i \in 1..0 |-> 0] \in [1..0 -> 1..0]
    OBVIOUS
  <2>4. <<>> \in Seq(Entry) /\ Len(<<>>) = 0 /\ 1..0 = {}
    OBVIOUS
  <2>5. Keeps(<<>>, events, 0, cutoff)
    BY <2>2, <2>3, <2>4 DEF Keeps, Follows
  <2> QED
    BY <2>1, <2>5
<1>5. ASSUME NEW n \in S, n < Len(events) PROVE n + 1 \in S
  <2> DEFINE list == kept[n]
             e == events[n + 1]
  <2>1. n \in Nat /\ n + 1 \in 1..Len(events) /\ n + 1 \in 0..Len(events) /\ n + 1 # 0 /\ n + 1 - 1 = n
    BY <1>5
  <2>2. kept[n + 1] = IF e.at >= cutoff THEN Append(list, e) ELSE list
    BY <1>3, <2>1
  <2>3. list \in Seq(Entry) /\ Len(list) \in Nat /\ e \in Entry
    BY <2>1 DEF Keeps, Follows
  <2>4. PICK place \in [1..Len(list) -> 1..n] :
          /\ Places(place, Len(list), n)
          /\ \A i \in 1..Len(list) : list[i] = events[place[i]]
          /\ \A j \in 1..n : events[j].at >= cutoff => \E i \in 1..Len(list) : place[i] = j
    BY DEF Keeps, Follows
  <2> HIDE DEF list, e
  <2>5. CASE e.at >= cutoff
    <3> DEFINE m == Len(list)
               next == [i \in 1..m + 1 |-> IF i = m + 1 THEN n + 1 ELSE place[i]]
               more == Append(list, e)
    <3>1. more \in Seq(Entry) /\ Len(more) = m + 1 /\ more[m + 1] = e /\ \A i \in 1..m : more[i] = list[i]
      BY <2>3, AppendProperties
    <3>2. Places(next, m + 1, n + 1)
      BY <2>1, <2>3, <2>4, PlacesOneMore
    <3>3. \A i \in 1..m + 1 : more[i] = events[next[i]]
      <4> TAKE i \in 1..m + 1
      <4>1. CASE i = m + 1
        BY <2>3, <3>1, <4>1 DEF e
      <4>2. CASE i # m + 1
        <5>1. i \in 1..m /\ next[i] = place[i]
          BY <2>3, <4>2
        <5> QED
          BY <2>4, <3>1, <5>1
      <4> QED
        BY <4>1, <4>2
    <3>4. ASSUME NEW j \in 1..n + 1, events[j].at >= cutoff PROVE \E i \in 1..m + 1 : next[i] = j
      <4>1. CASE j = n + 1
        <5>1. m + 1 \in 1..m + 1 /\ next[m + 1] = n + 1
          BY <2>3
        <5> QED
          BY <4>1, <5>1
      <4>2. CASE j # n + 1
        <5>1. PICK i \in 1..m : place[i] = j
          BY <2>1, <2>4, <3>4, <4>2
        <5>2. i \in 1..m + 1 /\ next[i] = j
          BY <2>3, <5>1
        <5> QED
          BY <5>2
      <4> QED
        BY <4>1, <4>2
    <3>5. Keeps(more, events, n + 1, cutoff)
      <4>1. next \in [1..m + 1 -> 1..n + 1]
        BY <3>2 DEF Places
      <4> HIDE DEF more, next
      <4>2. /\ next \in [1..Len(more) -> 1..n + 1] /\ Places(next, Len(more), n + 1)
            /\ \A i \in 1..Len(more) : more[i] = events[next[i]]
            /\ \A j \in 1..n + 1 : events[j].at >= cutoff => \E i \in 1..Len(more) : next[i] = j
        BY <3>1, <3>2, <3>3, <3>4, <4>1
      <4> QED
        BY <3>1, <4>2 DEF Keeps, Follows
    <3> QED
      BY <2>1, <2>2, <2>5, <3>5
  <2>6. CASE ~ (e.at >= cutoff)
    <3>1. Places(place, Len(list), n + 1) /\ place \in [1..Len(list) -> 1..n + 1]
      BY <2>1, <2>4 DEF Places
    <3>2. \A j \in 1..n + 1 : events[j].at >= cutoff => \E i \in 1..Len(list) : place[i] = j
      BY <2>1, <2>4, <2>6 DEF e
    <3>3. Keeps(list, events, n + 1, cutoff)
      BY <2>3, <2>4, <3>1, <3>2 DEF Keeps, Follows
    <3> QED
      BY <2>1, <2>2, <2>6, <3>3
  <2> QED
    BY <2>5, <2>6
<1> HIDE DEF S
<1>6. Len(events) \in S
  <2>1. S \in SUBSET Nat /\ Len(events) \in Nat
    BY DEF S
  <2> QED
    BY <1>4, <1>5, <2>1, Reached
<1> QED
  BY <1>1, <1>6 DEF S

\* An entry noted and put at the end of the list.
LEMMA AppendFollows ==
    ASSUME NEW events \in Seq(Entry), NEW log \in Seq(Entry), NEW e \in Entry,
           NEW cap \in Nat \ {0}, NEW cutoff \in Int,
           Follows(events, log, Len(log), cap, cutoff)
    PROVE  Follows(Append(events, e), Append(log, e), Len(log) + 1, cap, cutoff)
<1> DEFINE all == Append(events, e)
           more == Append(log, e)
           m == Len(events)
           n == Len(log)
<1>1. Len(all) = m + 1 /\ all[m + 1] = e /\ m \in Nat /\ \A i \in 1..m : all[i] = events[i]
  BY AppendProperties
<1>2. more[n + 1] = e /\ n \in Nat /\ \A i \in 1..n : more[i] = log[i]
  BY AppendProperties
<1>3. PICK g \in [1..m -> 1..n] :
        /\ Places(g, m, n)
        /\ \A i \in 1..m : events[i] = log[g[i]]
        /\ \A j \in 1..n : j > n - cap /\ log[j].at >= cutoff => \E i \in 1..m : g[i] = j
  BY DEF Follows
<1> HIDE DEF all, more, m, n
<1> DEFINE next == [i \in 1..m + 1 |-> IF i = m + 1 THEN n + 1 ELSE g[i]]
<1>4. Places(next, m + 1, n + 1)
  BY <1>1, <1>2, <1>3, PlacesOneMore
<1>5. m + 1 \in 1..m + 1 /\ next[m + 1] = n + 1 /\ \A i \in 1..m : next[i] = g[i] /\ i \in 1..m + 1
  BY <1>1
<1> HIDE DEF next
<1>6. ASSUME NEW i \in 1..m + 1 PROVE all[i] = more[next[i]]
  <2>1. CASE i = m + 1
    BY <1>1, <1>2, <1>5, <2>1
  <2>2. CASE i # m + 1
    <3>1. i \in 1..m
      BY <1>1, <2>2
    <3>2. g[i] \in 1..n /\ next[i] = g[i]
      BY <1>5, <3>1
    <3>3. all[i] = log[g[i]]
      BY <1>1, <1>3, <3>1
    <3>4. more[g[i]] = log[g[i]]
      BY <1>2, <3>2
    <3> QED
      BY <3>2, <3>3, <3>4
  <2> QED
    BY <2>1, <2>2
<1>7. ASSUME NEW j \in 1..n + 1, j > (n + 1) - cap, more[j].at >= cutoff
      PROVE  \E i \in 1..m + 1 : next[i] = j
  <2>1. CASE j = n + 1
    BY <1>5, <2>1
  <2>2. CASE j # n + 1
    <3>1. j \in 1..n /\ j > n - cap /\ log[j].at >= cutoff
      BY <1>2, <1>7, <2>2
    <3>2. PICK i \in 1..m : g[i] = j
      BY <1>3, <3>1
    <3> QED
      BY <1>5, <3>2
  <2> QED
    BY <2>1, <2>2
<1>8. next \in [1..m + 1 -> 1..n + 1]
  BY <1>4 DEF Places
<1>9. Follows(all, more, n + 1, cap, cutoff)
  <2>1. n + 1 \in Nat /\ m + 1 \in Nat /\ Len(all) = m + 1
    BY <1>1, <1>2
  <2> QED
    BY <1>4, <1>6, <1>7, <1>8, <2>1, FollowsBy, ZenonT(20)
<1> QED
  BY <1>9 DEF all, more, n

\* What the loop keeps of a list that follows a log follows it too.
LEMMA KeptFollows ==
    ASSUME NEW all \in Seq(Entry), NEW log, NEW n \in Nat, NEW cap \in Nat \ {0}, NEW cutoff \in Int,
           Follows(all, log, n, cap, cutoff)
    PROVE  /\ KeptSince(all, cutoff) \in Seq(Entry)
           /\ Follows(KeptSince(all, cutoff), log, n, cap, cutoff)
<1> DEFINE kept == KeptSince(all, cutoff)
           m == Len(all)
           k == Len(kept)
<1>1. kept \in Seq(Entry) /\ Follows(kept, all, m, m, cutoff)
  BY LoopKeeps DEF Keeps
<1>2. k \in Nat /\ m \in Nat
  BY <1>1
<1>3. PICK f \in [1..k -> 1..m] :
        /\ Places(f, k, m)
        /\ \A i \in 1..k : kept[i] = all[f[i]]
        /\ \A j \in 1..m : j > m - m /\ all[j].at >= cutoff => \E i \in 1..k : f[i] = j
  BY <1>1 DEF Follows
<1>4. PICK g \in [1..m -> 1..n] :
        /\ Places(g, m, n)
        /\ \A i \in 1..m : all[i] = log[g[i]]
        /\ \A j \in 1..n : j > n - cap /\ log[j].at >= cutoff => \E i \in 1..m : g[i] = j
  BY DEF Follows
<1> HIDE DEF kept, m, k
<1> DEFINE h == [i \in 1..k |-> g[f[i]]]
<1>5. h \in [1..k -> 1..n] /\ \A i \in 1..k : h[i] = g[f[i]] /\ f[i] \in 1..m
  BY <1>3, <1>4
<1> HIDE DEF h
<1>6. Places(h, k, n)
  <2>1. Places(f, k, m) /\ Places(g, m, n) /\ h \in [1..k -> 1..n] /\ \A i \in 1..k : h[i] = g[f[i]]
    BY <1>3, <1>4, <1>5
  <2> HIDE <1>3, <1>4
  <2> QED
    BY <1>2, <2>1, PlacesCompose
<1>7. \A i \in 1..k : kept[i] = log[h[i]]
  BY <1>3, <1>4, <1>5
<1>8. ASSUME NEW j \in 1..n, j > n - cap, log[j].at >= cutoff PROVE \E i \in 1..k : h[i] = j
  <2>1. PICK i \in 1..m : g[i] = j
    BY <1>4, <1>8
  <2>2. all[i].at >= cutoff /\ i > m - m
    BY <1>2, <1>4, <1>8, <2>1
  <2>3. PICK l \in 1..k : f[l] = i
    BY <1>3, <2>2
  <2> QED
    BY <1>5, <2>1, <2>3
<1>9. Follows(kept, log, n, cap, cutoff)
  BY <1>2, <1>5, <1>6, <1>7, <1>8, FollowsBy DEF k
<1> QED
  BY <1>1, <1>9 DEF kept

\* The newest of a list that follows a log follow it too.
LEMMA CutFollows ==
    ASSUME NEW list \in Seq(Entry), NEW log, NEW n \in Nat, NEW cap \in Nat \ {0}, NEW cutoff \in Int,
           Follows(list, log, n, cap, cutoff), Len(list) > cap
    PROVE  LET cut == SubSeq(list, Len(list) - cap + 1, Len(list))
           IN  cut \in Seq(Entry) /\ Len(cut) = cap /\ Follows(cut, log, n, cap, cutoff)
<1> DEFINE k == Len(list)
           d == k - cap
           cut == SubSeq(list, d + 1, k)
<1>1. PICK h \in [1..k -> 1..n] :
        /\ Places(h, k, n)
        /\ \A i \in 1..k : list[i] = log[h[i]]
        /\ \A j \in 1..n : j > n - cap /\ log[j].at >= cutoff => \E i \in 1..k : h[i] = j
  BY DEF Follows
<1>2. k \in Nat /\ d \in Nat /\ d + cap = k /\ k > 0 /\ d + 1 \in 1..k
  OBVIOUS
<1>3. \A i \in d + 1..k : list[i] \in Entry
  <2>1. \A i \in d + 1..k : i \in 1..k
    BY <1>2
  <2> QED
    BY <2>1, ElementOfSeq
<1>4. cut \in Seq(Entry) /\ Len(cut) = cap /\ \A i \in 1..cap : cut[i] = list[d + i]
  <2>1. /\ cut \in Seq(Entry)
        /\ Len(cut) = (IF d + 1 <= k THEN k - (d + 1) + 1 ELSE 0)
        /\ \A i \in 1..k - (d + 1) + 1 : cut[i] = list[d + 1 + i - 1]
    BY <1>2, <1>3, SubSeqProperties
  <2>2. k - (d + 1) + 1 = cap /\ d + 1 <= k
    BY <1>2
  <2>3. ASSUME NEW i \in 1..cap PROVE cut[i] = list[d + i]
    <3>1. i \in 1..k - (d + 1) + 1
      BY <2>2
    <3>2. d + 1 + i - 1 = d + i
      BY <1>2
    <3>3. cut[i] = list[d + 1 + i - 1]
      BY <2>1, <3>1
    <3> QED
      BY <3>2, <3>3
  <2>4. Len(cut) = cap
    BY <2>1, <2>2
  <2> QED
    BY <2>1, <2>3, <2>4
<1> HIDE DEF k, d, cut
<1> DEFINE place == [i \in 1..cap |-> h[d + i]]
<1>5. \A i \in 1..cap : d + i \in 1..k /\ h[d + i] \in 1..n
  BY <1>1, <1>2
<1>6. \A i \in 1..cap : place[i] = h[d + i]
  OBVIOUS
<1>7. place \in [1..cap -> 1..n]
  BY <1>5
<1> HIDE DEF place
<1>8. ASSUME NEW i \in 1..cap, NEW j \in 1..cap, i <= j PROVE place[j] - place[i] >= j - i
  <2>1. d + i <= d + j
    BY <1>2, <1>8
  <2>2. h[d + j] - h[d + i] >= (d + j) - (d + i)
    BY <1>1, <1>5, <2>1 DEF Places
  <2> QED
    BY <1>2, <1>5, <1>6, <2>2
<1>9. Places(place, cap, n)
  BY <1>7, <1>8 DEF Places
<1>10. \A i \in 1..cap : cut[i] = log[place[i]]
  BY <1>1, <1>4, <1>5, <1>6
<1>11. ASSUME NEW j \in 1..n, j > n - cap, log[j].at >= cutoff PROVE \E i \in 1..cap : place[i] = j
  <2>1. PICK i \in 1..k : h[i] = j
    BY <1>1, <1>11
  <2>2. k \in 1..k /\ i <= k
    BY <1>2
  <2>3. h[k] \in 1..n /\ h[k] - h[i] >= k - i
    BY <1>1, <2>2 DEF Places
  <2>4. i > d
    BY <1>2, <1>11, <2>1, <2>3
  <2>5. i - d \in 1..cap /\ d + (i - d) = i
    BY <1>2, <2>4
  <2>6. place[i - d] = j
    BY <1>6, <2>1, <2>5
  <2> QED
    BY <2>5, <2>6
<1>12. Follows(cut, log, n, cap, cutoff)
  BY <1>4, <1>7, <1>9, <1>10, <1>11, FollowsBy
<1> QED
  BY <1>4, <1>12 DEF cut, d, k

\* What record writes follows what was noted, the new entry included.
LEMMA ExtendedFollows ==
    ASSUME RecordsTypeOK, NEW entries \in Seq(Entry), NEW log \in Seq(Entry), NEW e \in Entry,
           Follows(entries, log, Len(log), Capacity["telemetry"], now - Retention)
    PROVE  LET list == Extended("telemetry", entries, e)
           IN  /\ list \in Seq(Entry) /\ Len(list) <= Capacity["telemetry"]
               /\ Follows(list, Append(log, e), Len(log) + 1, Capacity["telemetry"], now - Retention)
<1> DEFINE cap == Capacity["telemetry"]
           cutoff == now - Retention
           all == Append(entries, e)
           more == Append(log, e)
           n == Len(log) + 1
           kept == KeptSince(all, cutoff)
           list == Extended("telemetry", entries, e)
<1>1. cap \in Nat \ {0} /\ cutoff \in Int /\ n \in Nat /\ all \in Seq(Entry)
  BY CapacityAssumption, RecordBoundsAssumption DEF RecordsTypeOK, Books
<1>2. Follows(all, more, n, cap, cutoff)
  BY <1>1, AppendFollows
<1>3. list = IF Len(kept) > cap THEN SubSeq(kept, Len(kept) - cap + 1, Len(kept)) ELSE kept
  BY DEF Extended
<1> HIDE DEF cap, cutoff, all, more, n, list
<1>4. kept \in Seq(Entry) /\ Follows(kept, more, n, cap, cutoff)
  BY <1>1, <1>2, KeptFollows
<1> HIDE DEF kept
<1>5. list \in Seq(Entry) /\ Len(list) <= cap /\ Follows(list, more, n, cap, cutoff)
  <2>1. CASE Len(kept) > cap
    <3> DEFINE cut == SubSeq(kept, Len(kept) - cap + 1, Len(kept))
    <3>1. cut \in Seq(Entry) /\ Len(cut) = cap /\ Follows(cut, more, n, cap, cutoff)
      BY <1>1, <1>4, <2>1, CutFollows
    <3>2. list = cut
      BY <1>3, <2>1
    <3> HIDE DEF cut
    <3> QED
      BY <1>1, <3>1, <3>2
  <2>2. CASE ~ (Len(kept) > cap)
    BY <1>1, <1>3, <1>4, <2>2
  <2> QED
    BY <2>1, <2>2
<1> QED
  BY <1>5 DEF cap, cutoff, more, n, list

-----------------------------------------------------------------------------
(***************************************************************************)
(* The types                                                               *)
(***************************************************************************)
\* What is written is a list of entries.
LEMMA ExtendedType ==
    ASSUME RecordsTypeOK, NEW b \in Books, NEW entries \in Seq(Entry), NEW e \in Entry
    PROVE  Extended(b, entries, e) \in Seq(Entry)
<1>1. Capacity[b] \in Nat \ {0} /\ now - Retention \in Int
  BY CapacityAssumption, RecordBoundsAssumption DEF RecordsTypeOK
<1>2. CASE b = "telemetry"
  <2> DEFINE kept == KeptSince(Append(entries, e), now - Retention)
             k == Len(kept)
             cap == Capacity[b]
  <2>1. Append(entries, e) \in Seq(Entry)
    BY AppendProperties
  <2>2. kept \in Seq(Entry)
    BY <1>1, <2>1, LoopKeeps DEF Keeps
  <2>3. Extended(b, entries, e) = IF k > cap THEN SubSeq(kept, k - cap + 1, k) ELSE kept
    BY <1>2 DEF Extended
  <2> HIDE DEF kept
  <2>4. CASE k > cap
    <3>1. \A i \in k - cap + 1..k : i \in 1..k
      BY <1>1, <2>2, <2>4
    <3>2. \A i \in k - cap + 1..k : kept[i] \in Entry
      BY <2>2, <3>1, ElementOfSeq
    <3>3. SubSeq(kept, k - cap + 1, k) \in Seq(Entry)
      BY <1>1, <2>2, <3>2, SubSeqProperties
    <3> QED
      BY <2>3, <2>4, <3>3
  <2> QED
    BY <2>2, <2>3, <2>4
<1>3. CASE b # "telemetry"
  <2> DEFINE all == <<e>> \o entries
             cap == Capacity[b]
  <2>1. all \in Seq(Entry)
    BY ConcatProperties
  <2>2. Extended(b, entries, e) = IF Len(all) > cap THEN SubSeq(all, 1, cap) ELSE all
    BY <1>3 DEF Extended
  <2> HIDE DEF all
  <2>3. CASE Len(all) > cap
    <3>1. \A i \in 1..cap : i \in 1..Len(all)
      BY <1>1, <2>1, <2>3
    <3>2. \A i \in 1..cap : all[i] \in Entry
      BY <2>1, <3>1, ElementOfSeq
    <3>3. SubSeq(all, 1, cap) \in Seq(Entry)
      BY <1>1, <3>2, SubSeqProperties
    <3> QED
      BY <2>2, <2>3, <3>3
  <2> QED
    BY <2>1, <2>2, <2>3
<1> QED
  BY <1>2, <1>3

\* The times of entries can be compared.
LEMMA TimesAreNumbers == \A e \in Entry : e.at \in Nat
<1>1. MaxClock \in Nat
  BY RecordBoundsAssumption
<1>2. \A e \in Entry : e.at \in 0..MaxClock
  BY DEF Entry
<1> QED
  BY <1>1, <1>2

\* The entry of nobody.
LEMMA NoEntry == NoEvent \in Entry /\ <<>> \in Seq(Entry) /\ <<>> \in Seq(Books \cup {"stamp"})
  BY RecordBoundsAssumption DEF NoEvent, Entry

LEMMA RecordsInitType == RecordsInit => RecordsTypeOK
<1> SUFFICES ASSUME RecordsInit PROVE RecordsTypeOK
  OBVIOUS
<1>1. \A b \in Books : book[b] = [ok |-> TRUE, entries |-> <<>>] /\ noted[b] = <<>>
  BY DEF RecordsInit
<1>2. book \in [Books -> [ok : BOOLEAN, entries : Seq(Entry)]] /\ noted \in [Books -> Seq(Entry)]
  BY NoEntry DEF RecordsInit
<1> QED
  BY <1>2, NoEntry, RecordBoundsAssumption DEF RecordsInit, RecordsTypeOK

\* An operation begins.
LEMMA BeginType ==
    ASSUME RecordsTypeOK, NEW c \in Callers, NEW kind \in OpKinds, NEW p \in Profiles, NEW latency \in Nat,
           NEW books \in Seq(Books \cup {"stamp"}), Begin(c, kind, p, latency, books),
           launched' \in [Profiles -> 0..MaxClock \cup {Never}]
    PROVE  RecordsTypeOK'
<1>1. ops' \in 0..MaxOps
  BY RecordBoundsAssumption DEF Begin, RecordsTypeOK
<1>2. [n |-> ops + 1, kind |-> kind, profile |-> p, at |-> now, latency |-> latency] \in Entry
  BY <1>1 DEF Begin, RecordsTypeOK, Entry
<1>3. entry' \in [Callers -> Entry]
  BY <1>2 DEF Begin, RecordsTypeOK
<1>4. Failures(kind) \in Seq(Books \cup {"stamp"})
  <2>1. <<"incidents">> \in Seq(Books \cup {"stamp"}) /\ <<>> \in Seq(Books \cup {"stamp"})
    BY DEF Books
  <2> QED
    BY <2>1 DEF Failures
<1>5. todo' \in [Callers -> Seq(Books \cup {"stamp"})]
  <2>1. books \o Failures(kind) \in Seq(Books \cup {"stamp"})
    BY <1>4, ConcatProperties
  <2> QED
    BY <2>1 DEF Begin, RecordsTypeOK
<1> QED
  BY <1>1, <1>3, <1>5 DEF Begin, RecordsTypeOK

\* An operation leaves a book.
LEMMA DoneType ==
    ASSUME RecordsTypeOK, NEW c \in Callers, NEW b \in Books, Wants(c, b), Done(c)
    PROVE  /\ todo' \in [Callers -> Seq(Books \cup {"stamp"})] /\ inside' \in [Callers -> BOOLEAN]
           /\ held' \in [Callers -> Seq(Entry)] /\ entry' \in [Callers -> Entry]
<1>1. todo[c] \in Seq(Books \cup {"stamp"}) /\ todo[c] # <<>>
  BY DEF RecordsTypeOK, Wants
<1>2. Tail(todo[c]) \in Seq(Books \cup {"stamp"})
  BY <1>1, HeadTailProperties
<1>3. todo' \in [Callers -> Seq(Books \cup {"stamp"})]
  BY <1>2 DEF RecordsTypeOK, Done
<1>4. inside' \in [Callers -> BOOLEAN]
  BY DEF RecordsTypeOK, Done
<1>5. held' \in [Callers -> Seq(Entry)] /\ entry' \in [Callers -> Entry]
  BY NoEntry DEF RecordsTypeOK, Done
<1> QED
  BY <1>3, <1>4, <1>5

\* One step per operation.
LEMMA RecordsTypeStep == RecordsTypeOK /\ [RecordsNext]_recordsVars => RecordsTypeOK'
<1> SUFFICES ASSUME RecordsTypeOK, [RecordsNext]_recordsVars PROVE RecordsTypeOK'
  OBVIOUS
<1>1. ASSUME NEW c \in Callers, NEW p \in Profiles, LaunchSucceeds(c, p) \/ LaunchFails(c, p) PROVE RecordsTypeOK'
  <2>1. {"launch_succeeded", "launch_failed"} \subseteq OpKinds /\ 0 \in Nat
        /\ <<"stamp", "telemetry">> \in Seq(Books \cup {"stamp"})
    BY DEF OpKinds, LaunchKinds, Books
  <2>2. launched' \in [Profiles -> 0..MaxClock \cup {Never}]
    BY <1>1 DEF LaunchSucceeds, LaunchFails, RecordsTypeOK
  <2> QED
    BY <1>1, <2>1, <2>2, BeginType DEF LaunchSucceeds, LaunchFails
<1>2. ASSUME NEW c \in Callers, NEW p \in Profiles, NEW l \in Latencies \cup {0}, TestProxy(c, p, l)
      PROVE  RecordsTypeOK'
  <2> DEFINE kind == IF l = 0 THEN "proxy_failed" ELSE "proxy_succeeded"
  <2>1. kind \in OpKinds /\ l \in Nat /\ <<"telemetry">> \in Seq(Books \cup {"stamp"})
    BY LatenciesAssumption DEF OpKinds, ProxyKinds, Books
  <2>2. launched' \in [Profiles -> 0..MaxClock \cup {Never}] /\ Begin(c, kind, p, l, <<"telemetry">>)
    BY <1>2 DEF TestProxy, RecordsTypeOK
  <2> QED
    BY <2>1, <2>2, BeginType
<1>3. ASSUME NEW c \in Callers, Stamp(c) PROVE RecordsTypeOK'
  <2>1. todo[c] \in Seq(Books \cup {"stamp"}) /\ todo[c] # <<>>
    BY <1>3 DEF RecordsTypeOK, Stamp
  <2>2. Tail(todo[c]) \in Seq(Books \cup {"stamp"})
    BY <2>1, HeadTailProperties
  <2>3. todo' \in [Callers -> Seq(Books \cup {"stamp"})]
    BY <1>3, <2>2 DEF RecordsTypeOK, Stamp
  <2>4. entry' \in [Callers -> Entry]
    BY <1>3 DEF RecordsTypeOK, Stamp, Entry
  <2> QED
    BY <1>3, <2>3, <2>4 DEF RecordsTypeOK, Stamp, recordObservers
<1>4. ASSUME NEW c \in Callers, NEW b \in Books, Lock(c, b) PROVE RecordsTypeOK'
  <2>1. held' \in [Callers -> Seq(Entry)]
    BY <1>4, NoEntry DEF RecordsTypeOK, Lock
  <2>2. inside' \in [Callers -> BOOLEAN]
    BY <1>4 DEF RecordsTypeOK, Lock
  <2> QED
    BY <1>4, <2>1, <2>2 DEF RecordsTypeOK, Lock, recordObservers
<1>5. ASSUME NEW c \in Callers, NEW b \in Books, Write(c, b) PROVE RecordsTypeOK'
  <2>1. /\ todo' \in [Callers -> Seq(Books \cup {"stamp"})] /\ inside' \in [Callers -> BOOLEAN]
        /\ held' \in [Callers -> Seq(Entry)] /\ entry' \in [Callers -> Entry]
    BY <1>5, DoneType DEF Write
  <2>2. held[c] \in Seq(Entry) /\ entry[c] \in Entry /\ noted[b] \in Seq(Entry)
    BY DEF RecordsTypeOK
  <2>3. Extended(b, held[c], entry[c]) \in Seq(Entry) /\ Append(noted[b], entry[c]) \in Seq(Entry)
    BY <2>2, ExtendedType, AppendProperties
  <2>4. book' \in [Books -> [ok : BOOLEAN, entries : Seq(Entry)]]
    BY <1>5, <2>3 DEF RecordsTypeOK, Write
  <2>5. noted' \in [Books -> Seq(Entry)]
    BY <1>5, <2>3 DEF RecordsTypeOK, Write
  <2> QED
    BY <1>5, <2>1, <2>4, <2>5 DEF RecordsTypeOK, Write
<1>6. ASSUME NEW c \in Callers, NEW b \in Books, WriteFails(c, b) PROVE RecordsTypeOK'
  <2>1. /\ todo' \in [Callers -> Seq(Books \cup {"stamp"})] /\ inside' \in [Callers -> BOOLEAN]
        /\ held' \in [Callers -> Seq(Entry)] /\ entry' \in [Callers -> Entry]
    BY <1>6, DoneType DEF WriteFails
  <2> QED
    BY <1>6, <2>1 DEF RecordsTypeOK, WriteFails, recordObservers
<1>7. CASE Clear
  <2>1. book' \in [Books -> [ok : BOOLEAN, entries : Seq(Entry)]]
    BY <1>7, NoEntry DEF RecordsTypeOK, Clear
  <2>2. noted' \in [Books -> Seq(Entry)]
    BY <1>7, NoEntry DEF RecordsTypeOK, Clear
  <2> QED
    BY <1>7, <2>1, <2>2 DEF RecordsTypeOK, Clear
<1>8. CASE ReadStates \/ Show
  BY <1>8 DEF RecordsTypeOK, ReadStates, Show, recordObservers
<1>9. ASSUME NEW t \in 0..MaxClock, Tick(t) PROVE RecordsTypeOK'
  BY <1>9 DEF RecordsTypeOK, Tick, recordObservers
<1>10. ASSUME NEW bad \in SUBSET Books, Restart(bad) PROVE RecordsTypeOK'
  <2>1. book' \in [Books -> [ok : BOOLEAN, entries : Seq(Entry)]]
    BY <1>10, NoEntry DEF RecordsTypeOK, Restart
  <2>2. noted' \in [Books -> Seq(Entry)]
    BY <1>10, NoEntry DEF RecordsTypeOK, Restart
  <2>3. /\ todo' \in [Callers -> Seq(Books \cup {"stamp"})] /\ inside' \in [Callers -> BOOLEAN]
        /\ held' \in [Callers -> Seq(Entry)] /\ entry' \in [Callers -> Entry]
    BY <1>10, NoEntry DEF Restart
  <2>4. damages' \in 0..MaxDamages
    BY <1>10, RecordBoundsAssumption DEF RecordsTypeOK, Restart
  <2> QED
    BY <1>10, <2>1, <2>2, <2>3, <2>4 DEF RecordsTypeOK, Restart
<1>11. CASE UNCHANGED recordsVars
  BY <1>11 DEF RecordsTypeOK, recordsVars
<1> QED
  BY <1>1, <1>2, <1>3, <1>4, <1>5, <1>6, <1>7, <1>8, <1>9, <1>10, <1>11 DEF RecordsNext

-----------------------------------------------------------------------------
(***************************************************************************)
(* The mutexes                                                             *)
(***************************************************************************)
\* What is known of a caller that is inside.
LEMMA HeldBy ==
    ASSUME MutexHeld, NEW c \in Callers, NEW b \in Books, inside[c], Wants(c, b)
    PROVE  /\ held[c] = IF Loads(b) THEN book[b].entries ELSE <<>>
           /\ \A d \in Callers \ {c} : ~ (inside[d] /\ Wants(d, b))
<1>1. PICK a \in Books :
        /\ Wants(c, a)
        /\ held[c] = IF Loads(a) THEN book[a].entries ELSE <<>>
        /\ \A d \in Callers \ {c} : ~ (inside[d] /\ Wants(d, a))
  BY DEF MutexHeld
<1>2. a = b
  BY <1>1 DEF Wants
<1> QED
  BY <1>1, <1>2

\* A caller that is not inside, and does not go in, may plan what it likes.
LEMMA MutexAsBefore ==
    ASSUME MutexHeld, NEW c \in Callers, ~ inside[c], inside' = inside, held' = held, book' = book,
           \A d \in Callers \ {c} : todo'[d] = todo[d]
    PROVE  MutexHeld'
<1> SUFFICES ASSUME NEW x \in Callers, inside[x]
             PROVE  \E b \in Books :
                       /\ Wants(x, b)'
                       /\ held[x] = IF Loads(b) THEN book[b].entries ELSE <<>>
                       /\ \A d \in Callers \ {x} : ~ (inside[d] /\ Wants(d, b)')
  BY DEF MutexHeld, Loads
<1>1. PICK b \in Books :
        /\ Wants(x, b)
        /\ held[x] = IF Loads(b) THEN book[b].entries ELSE <<>>
        /\ \A d \in Callers \ {x} : ~ (inside[d] /\ Wants(d, b))
  BY DEF MutexHeld
<1>2. \A d \in Callers : inside[d] => (Wants(d, b)' <=> Wants(d, b))
  BY DEF Wants
<1> QED
  BY <1>1, <1>2

\* A caller goes out, and no other book has changed.
LEMMA MutexGivenBack ==
    ASSUME RecordsTypeOK, MutexHeld, NEW c \in Callers, NEW b \in Books, inside[c], Wants(c, b), Done(c),
           \A a \in Books \ {b} : book'[a] = book[a]
    PROVE  MutexHeld'
<1>1. \A d \in Callers \ {c} : todo'[d] = todo[d] /\ inside'[d] = inside[d] /\ held'[d] = held[d]
  BY DEF Done, RecordsTypeOK
<1>2. ~ inside'[c]
  BY DEF Done, RecordsTypeOK
<1> SUFFICES ASSUME NEW x \in Callers, inside'[x]
             PROVE  \E a \in Books :
                       /\ Wants(x, a)'
                       /\ held'[x] = IF Loads(a)' THEN book'[a].entries ELSE <<>>
                       /\ \A d \in Callers \ {x} : ~ (inside'[d] /\ Wants(d, a)')
  BY DEF MutexHeld
<1>3. x # c /\ inside[x]
  BY <1>1, <1>2
<1>4. PICK a \in Books :
        /\ Wants(x, a)
        /\ held[x] = IF Loads(a) THEN book[a].entries ELSE <<>>
        /\ \A d \in Callers \ {x} : ~ (inside[d] /\ Wants(d, a))
  BY <1>3 DEF MutexHeld
<1>5. a # b
  BY <1>3, <1>4
<1>6. book'[a] = book[a] /\ (Loads(a)' <=> Loads(a))
  BY <1>5 DEF Loads
<1>7. \A d \in Callers : inside'[d] => d # c /\ inside[d] /\ (Wants(d, a)' <=> Wants(d, a))
  BY <1>1, <1>2 DEF Wants
<1>8. held'[x] = held[x]
  BY <1>1, <1>3
<1> QED
  BY <1>3, <1>4, <1>6, <1>7, <1>8

\* A caller goes in.
LEMMA MutexTaken ==
    ASSUME RecordsTypeOK, MutexHeld, NEW c \in Callers, NEW b \in Books, Lock(c, b)
    PROVE  MutexHeld'
<1>1. \A d \in Callers \ {c} : inside'[d] = inside[d] /\ held'[d] = held[d]
  BY DEF Lock, RecordsTypeOK
<1>2. held'[c] = (IF Loads(b) THEN book[b].entries ELSE <<>>) /\ inside'[c]
  BY DEF Lock, RecordsTypeOK
<1>3. todo' = todo /\ book' = book
  BY DEF Lock
<1>4. \A a \in Books : (Loads(a)' <=> Loads(a)) /\ \A d \in Callers : Wants(d, a)' <=> Wants(d, a)
  BY <1>3 DEF Loads, Wants
<1>5. Wants(c, b) /\ \A d \in Callers : ~ (inside[d] /\ Wants(d, b))
  BY DEF Lock, Unlocked
<1> SUFFICES ASSUME NEW x \in Callers, inside'[x]
             PROVE  \E a \in Books :
                       /\ Wants(x, a)'
                       /\ held'[x] = IF Loads(a)' THEN book'[a].entries ELSE <<>>
                       /\ \A d \in Callers \ {x} : ~ (inside'[d] /\ Wants(d, a)')
  BY DEF MutexHeld
<1>6. CASE x = c
  <2>1. \A d \in Callers \ {c} : ~ (inside'[d] /\ Wants(d, b)')
    BY <1>1, <1>4, <1>5
  <2> QED
    BY <1>2, <1>3, <1>4, <1>5, <1>6, <2>1
<1>7. CASE x # c
  <2>1. PICK a \in Books :
          /\ Wants(x, a)
          /\ held[x] = IF Loads(a) THEN book[a].entries ELSE <<>>
          /\ \A d \in Callers \ {x} : ~ (inside[d] /\ Wants(d, a))
    BY <1>1, <1>7 DEF MutexHeld
  <2>2. a # b
    BY <1>1, <1>5, <1>7, <2>1
  <2>3. ~ Wants(c, a)
    BY <1>5, <2>2 DEF Wants
  <2>4. \A d \in Callers \ {x} : ~ (inside'[d] /\ Wants(d, a)')
    BY <1>1, <1>4, <2>1, <2>3
  <2>5. held'[x] = held[x] /\ book'[a] = book[a]
    BY <1>1, <1>3, <1>7
  <2> QED
    BY <1>4, <2>1, <2>4, <2>5
<1> QED
  BY <1>6, <1>7

\* One step per operation.
LEMMA MutexStep == RecordsTypeOK /\ MutexHeld /\ [RecordsNext]_recordsVars => MutexHeld'
<1> SUFFICES ASSUME RecordsTypeOK, MutexHeld, [RecordsNext]_recordsVars PROVE MutexHeld'
  OBVIOUS
<1>1. ASSUME NEW c \in Callers, NEW kind, NEW p, NEW latency, NEW books, Begin(c, kind, p, latency, books)
      PROVE  MutexHeld'
  <2>1. ~ inside[c]
    BY <1>1 DEF Begin, MutexHeld, Wants
  <2>2. \A d \in Callers \ {c} : todo'[d] = todo[d]
    BY <1>1 DEF Begin, RecordsTypeOK
  <2> QED
    BY <1>1, <2>1, <2>2, MutexAsBefore DEF Begin
<1>2. ASSUME NEW c \in Callers, NEW p \in Profiles, LaunchSucceeds(c, p) \/ LaunchFails(c, p) PROVE MutexHeld'
  BY <1>1, <1>2 DEF LaunchSucceeds, LaunchFails
<1>3. ASSUME NEW c \in Callers, NEW p \in Profiles, NEW l \in Latencies \cup {0}, TestProxy(c, p, l)
      PROVE  MutexHeld'
  BY <1>1, <1>3 DEF TestProxy
<1>4. ASSUME NEW c \in Callers, Stamp(c) PROVE MutexHeld'
  <2>1. ~ inside[c]
    BY <1>4 DEF Stamp, MutexHeld, Wants, Books
  <2>2. \A d \in Callers \ {c} : todo'[d] = todo[d]
    BY <1>4 DEF Stamp, RecordsTypeOK
  <2> QED
    BY <1>4, <2>1, <2>2, MutexAsBefore DEF Stamp
<1>5. ASSUME NEW c \in Callers, NEW b \in Books, Lock(c, b) PROVE MutexHeld'
  BY <1>5, MutexTaken
<1>6. ASSUME NEW c \in Callers, NEW b \in Books, Write(c, b) PROVE MutexHeld'
  <2>1. \A a \in Books \ {b} : book'[a] = book[a]
    BY <1>6 DEF Write, RecordsTypeOK
  <2> QED
    BY <1>6, <2>1, MutexGivenBack DEF Write
<1>7. ASSUME NEW c \in Callers, NEW b \in Books, WriteFails(c, b) PROVE MutexHeld'
  BY <1>7, MutexGivenBack DEF WriteFails
<1>8. CASE Clear
  <2>1. inside' = inside /\ held' = held /\ todo' = todo /\ book'["telemetry"] = book["telemetry"]
    BY <1>8 DEF Clear, RecordsTypeOK, Books
  <2>2. \A c \in Callers : ~ (inside[c] /\ Wants(c, "incidents"))
    BY <1>8 DEF Clear, Unlocked
  <2>3. \A c \in Callers, b \in Books : inside[c] /\ Wants(c, b) => b = "telemetry"
    BY <2>2 DEF Books
  <2>4. \A c \in Callers, b \in Books : Wants(c, b)' <=> Wants(c, b)
    BY <2>1 DEF Wants
  <2>5. Loads("telemetry")' <=> Loads("telemetry")
    BY <2>1 DEF Loads
  <2> SUFFICES ASSUME NEW x \in Callers, inside[x]
               PROVE  \E a \in Books :
                         /\ Wants(x, a)
                         /\ held[x] = IF Loads(a)' THEN book'[a].entries ELSE <<>>
                         /\ \A d \in Callers \ {x} : ~ (inside[d] /\ Wants(d, a))
    BY <2>1, <2>4 DEF MutexHeld
  <2> QED
    BY <2>1, <2>3, <2>5 DEF MutexHeld
<1>9. CASE ReadStates \/ Show \/ (\E t \in 0..MaxClock : Tick(t)) \/ UNCHANGED recordsVars
  BY <1>9 DEF ReadStates, Show, Tick, recordsVars, MutexHeld, Wants, Loads
<1>10. ASSUME NEW bad, Restart(bad) PROVE MutexHeld'
  BY <1>10 DEF Restart, MutexHeld
<1> QED
  BY <1>2, <1>3, <1>4, <1>5, <1>6, <1>7, <1>8, <1>9, <1>10 DEF RecordsNext

-----------------------------------------------------------------------------
(***************************************************************************)
(* telemetry.json                                                          *)
(***************************************************************************)
\* A file nothing is written to stands, and time only shortens what it owes.
LEMMA EventsAsBefore ==
    ASSUME RecordsTypeOK, EventsKept, book'["telemetry"] = book["telemetry"],
           noted'["telemetry"] = noted["telemetry"], now' \in Nat, now' >= now
    PROVE  EventsKept'
<1> DEFINE events == book["telemetry"].entries
           log == noted["telemetry"]
           cap == Capacity["telemetry"]
<1>1. events \in Seq(Entry) /\ log \in Seq(Entry) /\ cap \in Nat \ {0} /\ now \in Nat /\ Retention \in Nat
  BY CapacityAssumption, RecordBoundsAssumption DEF RecordsTypeOK, Books
<1>2. Follows(events, log, Len(log), cap, now - Retention)
  BY DEF EventsKept
<1>3. PICK place \in [1..Len(events) -> 1..Len(log)] :
        /\ Places(place, Len(events), Len(log))
        /\ \A i \in 1..Len(events) : events[i] = log[place[i]]
        /\ \A j \in 1..Len(log) : j > Len(log) - cap /\ log[j].at >= now - Retention
                                    => \E i \in 1..Len(events) : place[i] = j
  BY <1>2 DEF Follows
<1>4. \A j \in 1..Len(log) : j > Len(log) - cap /\ log[j].at >= now' - Retention
                               => \E i \in 1..Len(events) : place[i] = j
  <2>1. \A j \in 1..Len(log) : log[j].at \in Nat
    <3>1. \A j \in 1..Len(log) : log[j] \in Entry
      BY <1>1, ElementOfSeq
    <3> QED
      BY <3>1, TimesAreNumbers
  <2>2. \A j \in 1..Len(log) : log[j].at >= now' - Retention => log[j].at >= now - Retention
    BY <1>1, <2>1
  <2> QED
    BY <1>3, <2>2
<1>5. Follows(events, log, Len(log), cap, now' - Retention)
  <2>1. Len(events) \in Nat /\ Len(log) \in Nat
    BY <1>1, LenProperties
  <2> QED
    BY <1>3, <1>4, <2>1, FollowsBy
<1> QED
  BY <1>5 DEF EventsKept

\* An event is written.
LEMMA EventWritten ==
    ASSUME RecordsTypeOK, MutexHeld, EventsKept, NEW c \in Callers, Write(c, "telemetry")
    PROVE  EventsKept'
<1> DEFINE b == "telemetry"
           events == book[b].entries
           log == noted[b]
           e == entry[c]
           cap == Capacity[b]
<1>1. b \in Books /\ events \in Seq(Entry) /\ log \in Seq(Entry) /\ e \in Entry
  BY DEF RecordsTypeOK, Books
<1>2. now' = now
  BY DEF Write
<1>3. CASE Loads(b)
  <2>1. held[c] = events
    BY <1>1, <1>3, HeldBy DEF Write
  <2>2. book'[b] = [ok |-> TRUE, entries |-> Extended(b, events, e)]
    BY <1>1, <1>3, <2>1 DEF Write, RecordsTypeOK
  <2>3. noted'[b] = Append(log, e)
    BY <1>1, <1>3 DEF Write, Loads, RecordsTypeOK
  <2>4. Follows(events, log, Len(log), cap, now - Retention)
    BY DEF EventsKept
  <2>5. LET list == Extended(b, events, e)
        IN  /\ list \in Seq(Entry) /\ Len(list) <= cap
            /\ Follows(list, Append(log, e), Len(log) + 1, cap, now - Retention)
    BY <1>1, <2>4, ExtendedFollows
  <2>6. Len(Append(log, e)) = Len(log) + 1
    BY <1>1, AppendProperties
  <2> QED
    BY <1>2, <2>2, <2>3, <2>5, <2>6 DEF EventsKept
<1>4. CASE ~ Loads(b)
  <2>1. ~ book[b].ok
    BY <1>4 DEF Loads, EventsKept
  <2>2. book' = book /\ noted' = noted
    BY <1>4, <2>1 DEF Write, Restarts
  <2> QED
    BY <1>2, <2>2 DEF EventsKept
<1> QED
  BY <1>3, <1>4

\* One step per operation.
LEMMA EventsStep == RecordsIInv /\ [RecordsNext]_recordsVars => EventsKept'
<1> SUFFICES ASSUME RecordsIInv, [RecordsNext]_recordsVars PROVE EventsKept'
  OBVIOUS
<1>1. RecordsTypeOK /\ MutexHeld /\ EventsKept /\ now \in Nat
  BY RecordBoundsAssumption DEF RecordsIInv, RecordsTypeOK
<1>2. ASSUME UNCHANGED <<book, noted, now>> PROVE EventsKept'
  BY <1>1, <1>2, EventsAsBefore
<1>3. ASSUME NEW c \in Callers, NEW b \in Books, Write(c, b) PROVE EventsKept'
  <2>1. CASE b = "telemetry"
    BY <1>1, <1>3, <2>1, EventWritten
  <2>2. CASE b # "telemetry"
    <3>1. book'["telemetry"] = book["telemetry"] /\ noted'["telemetry"] = noted["telemetry"] /\ now' = now
      BY <1>1, <1>3, <2>2 DEF Write, RecordsTypeOK, Books
    <3> QED
      BY <1>1, <3>1, EventsAsBefore
  <2> QED
    BY <2>1, <2>2
<1>4. CASE Clear
  <2>1. book'["telemetry"] = book["telemetry"] /\ noted'["telemetry"] = noted["telemetry"] /\ now' = now
    BY <1>1, <1>4 DEF Clear, RecordsTypeOK, Books
  <2> QED
    BY <1>1, <2>1, EventsAsBefore
<1>5. ASSUME NEW t \in 0..MaxClock, Tick(t) PROVE EventsKept'
  <2>1. book' = book /\ noted' = noted /\ now' \in Nat /\ now' >= now
    BY <1>1, <1>5 DEF Tick, recordObservers
  <2> QED
    BY <1>1, <2>1, EventsAsBefore
<1>6. ASSUME NEW bad \in SUBSET Books, Restart(bad) PROVE EventsKept'
  <2>1. CASE "telemetry" \in bad
    <3>1. book'["telemetry"] = [ok |-> FALSE, entries |-> <<>>] /\ noted'["telemetry"] = <<>> /\ now' = now
      BY <1>6, <2>1 DEF Restart, Books
    <3>2. Follows(<<>>, <<>>, 0, Capacity["telemetry"], now - Retention)
      BY NothingFollows
    <3> QED
      BY <3>1, <3>2, CapacityAssumption DEF EventsKept, Books
  <2>2. CASE "telemetry" \notin bad
    <3>1. book'["telemetry"] = book["telemetry"] /\ noted'["telemetry"] = noted["telemetry"] /\ now' = now
      BY <1>6, <2>2 DEF Restart, Books
    <3> QED
      BY <1>1, <3>1, EventsAsBefore
  <2> QED
    BY <2>1, <2>2
<1>7. CASE \E c \in Callers, p \in Profiles : LaunchSucceeds(c, p) \/ LaunchFails(c, p)
  BY <1>2, <1>7 DEF LaunchSucceeds, LaunchFails, Begin
<1>8. CASE \E c \in Callers, p \in Profiles, l \in Latencies \cup {0} : TestProxy(c, p, l)
  BY <1>2, <1>8 DEF TestProxy, Begin
<1>9. CASE \E c \in Callers : Stamp(c)
  BY <1>2, <1>9 DEF Stamp, recordObservers
<1>10. CASE \E c \in Callers, b \in Books : Lock(c, b) \/ WriteFails(c, b)
  BY <1>2, <1>10 DEF Lock, WriteFails, recordObservers
<1>11. CASE ReadStates \/ Show \/ UNCHANGED recordsVars
  BY <1>2, <1>11 DEF ReadStates, Show, recordsVars, recordObservers
<1> QED
  BY <1>3, <1>4, <1>5, <1>6, <1>7, <1>8, <1>9, <1>10, <1>11 DEF RecordsNext

-----------------------------------------------------------------------------
(***************************************************************************)
(* The failure log                                                         *)
(***************************************************************************)
\* A failure is written.
LEMMA FailureWritten ==
    ASSUME RecordsTypeOK, MutexHeld, FailuresKept, NEW c \in Callers, Write(c, "incidents")
    PROVE  FailuresKept'
<1> DEFINE b == "incidents"
           entries == book[b].entries
           log == noted[b]
           e == entry[c]
           cap == Capacity[b]
           all == <<e>> \o entries
           list == Extended(b, entries, e)
           more == Append(log, e)
           n == Len(log)
           k == Len(entries)
<1>1. /\ b \in Books /\ entries \in Seq(Entry) /\ log \in Seq(Entry) /\ e \in Entry /\ cap \in Nat \ {0}
      /\ n \in Nat /\ k \in Nat
  BY CapacityAssumption DEF RecordsTypeOK, Books
<1>2. /\ book[b].ok \/ log = <<>>
      /\ k = IF n < cap THEN n ELSE cap
      /\ \A i \in 1..k : entries[i] = log[n + 1 - i]
  BY DEF FailuresKept
<1>3. held[c] = entries
  <2>1. held[c] = IF book[b].ok THEN entries ELSE <<>>
    BY <1>1, HeldBy DEF Write, Loads
  <2>2. CASE ~ book[b].ok
    <3>1. n = 0 /\ k = 0
      BY <1>1, <1>2, <2>2
    <3>2. entries = <<>>
      BY <1>1, <3>1, EmptySeq
    <3> QED
      BY <2>1, <2>2, <3>2
  <2> QED
    BY <2>1, <2>2
<1>4. book'[b] = [ok |-> TRUE, entries |-> list] /\ noted'[b] = more
  BY <1>1, <1>3 DEF Write, Restarts, RecordsTypeOK
<1>5. Len(more) = n + 1 /\ more[n + 1] = e /\ \A i \in 1..n : more[i] = log[i]
  BY <1>1, AppendProperties
<1>6. /\ all \in Seq(Entry) /\ Len(all) = k + 1
      /\ \A i \in 1..k + 1 : all[i] = IF i <= 1 THEN <<e>>[i] ELSE entries[i - 1]
  <2>1. <<e>> \in Seq(Entry) /\ Len(<<e>>) = 1
    BY <1>1
  <2>2. /\ all \in Seq(Entry) /\ Len(all) = 1 + k
        /\ \A i \in 1..1 + k : all[i] = IF i <= 1 THEN <<e>>[i] ELSE entries[i - 1]
    BY <1>1, <2>1, ConcatProperties
  <2> QED
    BY <1>1, <2>2
<1>7. list = IF k + 1 > cap THEN SubSeq(all, 1, cap) ELSE all
  BY <1>6 DEF Extended
<1> HIDE DEF all, list, more
<1>8. /\ Len(list) = IF n + 1 < cap THEN n + 1 ELSE cap
      /\ Len(list) \in Nat /\ Len(list) <= k + 1
      /\ \A i \in 1..Len(list) : list[i] = all[i]
  <2>1. CASE k + 1 > cap
    <3>1. \A i \in 1..cap : i \in 1..Len(all)
      BY <1>1, <1>6, <2>1
    <3>2. \A i \in 1..cap : all[i] \in Entry
      BY <1>6, <3>1, ElementOfSeq
    <3>3. Len(list) = cap /\ \A i \in 1..cap : list[i] = all[i]
      <4>1. /\ Len(SubSeq(all, 1, cap)) = IF 1 <= cap THEN cap - 1 + 1 ELSE 0
            /\ \A i \in 1..cap - 1 + 1 : SubSeq(all, 1, cap)[i] = all[1 + i - 1]
        BY <1>1, <3>2, SubSeqProperties
      <4>2. cap - 1 + 1 = cap /\ 1 <= cap /\ \A i \in 1..cap : 1 + i - 1 = i
        BY <1>1
      <4>3. list = SubSeq(all, 1, cap)
        BY <1>7, <2>1
      <4>4. Len(list) = cap /\ \A i \in 1..cap : list[i] = all[1 + i - 1]
        BY <4>1, <4>2, <4>3
      <4> QED
        BY <4>2, <4>4
    <3> QED
      BY <1>1, <1>2, <2>1, <3>3
  <2>2. CASE ~ (k + 1 > cap)
    BY <1>1, <1>2, <1>6, <1>7, <2>2
  <2> QED
    BY <2>1, <2>2
<1>9. ASSUME NEW i \in 1..Len(list) PROVE list[i] = more[n + 1 + 1 - i]
  <2>1. i \in 1..k + 1 /\ list[i] = all[i]
    BY <1>1, <1>8
  <2>2. CASE i = 1
    <3>1. all[i] = e
      BY <1>1, <1>6, <2>1, <2>2
    <3>2. n + 1 + 1 - i = n + 1
      BY <1>1, <2>2
    <3> QED
      BY <1>5, <2>1, <3>1, <3>2
  <2>3. CASE i # 1
    <3>1. i - 1 \in 1..k /\ all[i] = entries[i - 1]
      BY <1>1, <1>6, <2>1, <2>3
    <3>2. entries[i - 1] = log[n + 1 - (i - 1)]
      BY <1>2, <3>1
    <3>3. n + 1 - (i - 1) = n + 1 + 1 - i /\ n + 1 + 1 - i \in 1..n
      BY <1>1, <1>2, <3>1
    <3> QED
      BY <1>5, <2>1, <3>1, <3>2, <3>3
  <2> QED
    BY <2>2, <2>3
<1> QED
  BY <1>4, <1>5, <1>8, <1>9 DEF FailuresKept

\* One step per operation.
LEMMA FailuresStep == RecordsIInv /\ [RecordsNext]_recordsVars => FailuresKept'
<1> SUFFICES ASSUME RecordsIInv, [RecordsNext]_recordsVars PROVE FailuresKept'
  OBVIOUS
<1>1. RecordsTypeOK /\ MutexHeld /\ FailuresKept
  BY DEF RecordsIInv
<1>2. ASSUME book'["incidents"] = book["incidents"], noted'["incidents"] = noted["incidents"] PROVE FailuresKept'
  BY <1>1, <1>2 DEF FailuresKept
<1>3. ASSUME NEW c \in Callers, NEW b \in Books, Write(c, b) PROVE FailuresKept'
  <2>1. CASE b = "incidents"
    BY <1>1, <1>3, <2>1, FailureWritten
  <2>2. CASE b # "incidents"
    <3>1. book'["incidents"] = book["incidents"] /\ noted'["incidents"] = noted["incidents"]
      BY <1>1, <1>3, <2>2 DEF Write, RecordsTypeOK, Books
    <3> QED
      BY <1>2, <3>1
  <2> QED
    BY <2>1, <2>2
<1>4. CASE Clear
  <2>1. book'["incidents"] = [ok |-> TRUE, entries |-> <<>>] /\ noted'["incidents"] = <<>>
    BY <1>1, <1>4 DEF Clear, RecordsTypeOK, Books
  <2> QED
    BY <2>1, CapacityAssumption DEF FailuresKept, Books
<1>5. ASSUME NEW bad \in SUBSET Books, Restart(bad) PROVE FailuresKept'
  <2>1. CASE "incidents" \in bad
    <3>1. book'["incidents"] = [ok |-> FALSE, entries |-> <<>>] /\ noted'["incidents"] = <<>>
      BY <1>5, <2>1 DEF Restart, Books
    <3> QED
      BY <3>1, CapacityAssumption DEF FailuresKept, Books
  <2>2. CASE "incidents" \notin bad
    <3>1. book'["incidents"] = book["incidents"] /\ noted'["incidents"] = noted["incidents"]
      BY <1>5, <2>2 DEF Restart, Books
    <3> QED
      BY <1>2, <3>1
  <2> QED
    BY <2>1, <2>2
<1>6. CASE UNCHANGED <<book, noted>>
  BY <1>2, <1>6
<1>7. CASE \E c \in Callers, p \in Profiles : LaunchSucceeds(c, p) \/ LaunchFails(c, p)
  BY <1>6, <1>7 DEF LaunchSucceeds, LaunchFails, Begin
<1>8. CASE \E c \in Callers, p \in Profiles, l \in Latencies \cup {0} : TestProxy(c, p, l)
  BY <1>6, <1>8 DEF TestProxy, Begin
<1>9. CASE \E c \in Callers : Stamp(c)
  BY <1>6, <1>9 DEF Stamp, recordObservers
<1>10. CASE \E c \in Callers, b \in Books : Lock(c, b) \/ WriteFails(c, b)
  BY <1>6, <1>10 DEF Lock, WriteFails, recordObservers
<1>11. CASE ReadStates \/ Show \/ (\E t \in 0..MaxClock : Tick(t)) \/ UNCHANGED recordsVars
  BY <1>6, <1>11 DEF ReadStates, Show, Tick, recordsVars, recordObservers
<1> QED
  BY <1>3, <1>4, <1>5, <1>7, <1>8, <1>9, <1>10, <1>11 DEF RecordsNext

-----------------------------------------------------------------------------
(***************************************************************************)
(* The theorems                                                            *)
(***************************************************************************)
LEMMA RecordsInitIInv == RecordsInit => RecordsIInv
<1> SUFFICES ASSUME RecordsInit PROVE RecordsIInv
  OBVIOUS
<1>1. RecordsTypeOK
  BY RecordsInitType
<1>2. MutexHeld
  BY DEF RecordsInit, MutexHeld
<1>3. \A b \in Books : book[b] = [ok |-> TRUE, entries |-> <<>>] /\ noted[b] = <<>>
  BY DEF RecordsInit
<1>4. EventsKept
  <2>1. Follows(<<>>, <<>>, 0, Capacity["telemetry"], now - Retention)
    BY NothingFollows
  <2> QED
    BY <1>3, <2>1, CapacityAssumption DEF EventsKept, Books
<1>5. FailuresKept
  BY <1>3, CapacityAssumption DEF FailuresKept, Books
<1> QED
  BY <1>1, <1>2, <1>4, <1>5 DEF RecordsIInv

\* What is inductive: the mutexes are held by those inside, telemetry.json
\* follows what was noted, and the failure log is the end of what was noted.
THEOREM RecordsInductiveInvariant == RecordsSpec => []RecordsIInv
<1>1. RecordsInit => RecordsIInv
  BY RecordsInitIInv
<1>2. RecordsIInv /\ [RecordsNext]_recordsVars => RecordsIInv'
  BY RecordsTypeStep, MutexStep, EventsStep, FailuresStep DEF RecordsIInv
<1> QED
  BY <1>1, <1>2, PTL DEF RecordsSpec

\* The books, the lists of what callers hold and the clock have their types.
THEOREM RecordsTypeCorrect == RecordsSpec => []RecordsTypeOK
<1>1. RecordsIInv => RecordsTypeOK
  BY DEF RecordsIInv
<1> QED
  BY <1>1, RecordsInductiveInvariant, PTL

\* The invariant says that no record is lost.
LEMMA InvariantKeepsRecords == RecordsIInv => NothingNotedIsLost
<1> SUFFICES ASSUME RecordsIInv PROVE NothingNotedIsLost
  OBVIOUS
<1>1. RecordsTypeOK /\ EventsKept /\ FailuresKept
  BY DEF RecordsIInv
<1>2. ASSUME noted["telemetry"] # <<>>
      PROVE  /\ Loads("telemetry")
             /\ \A e \in Recent("telemetry") : e \in Range(book["telemetry"].entries) \/ ~ Fresh(e)
  <2> DEFINE events == book["telemetry"].entries
             log == noted["telemetry"]
  <2>1. events \in Seq(Entry) /\ log \in Seq(Entry)
    BY <1>1 DEF RecordsTypeOK, Books
  <2>2. Loads("telemetry")
    BY <1>1, <1>2 DEF EventsKept, Loads
  <2>3. PICK place \in [1..Len(events) -> 1..Len(log)] :
          /\ \A i \in 1..Len(events) : events[i] = log[place[i]]
          /\ \A j \in 1..Len(log) : j > Len(log) - Capacity["telemetry"] /\ log[j].at >= now - Retention
                                      => \E i \in 1..Len(events) : place[i] = j
    BY <1>1 DEF EventsKept, Follows
  <2>4. ASSUME NEW e \in Recent("telemetry"), Fresh(e) PROVE e \in Range(events)
    <3>1. PICK j \in 1..Len(log) : j > Len(log) - Capacity["telemetry"] /\ e = log[j]
      BY <2>1 DEF Recent
    <3>2. PICK i \in 1..Len(events) : place[i] = j
      BY <2>3, <2>4, <3>1 DEF Fresh
    <3>3. i \in DOMAIN events /\ events[i] = e
      BY <2>1, <2>3, <3>1, <3>2
    <3> QED
      BY <3>3 DEF Range
  <2> QED
    BY <2>2, <2>4
<1>3. ASSUME noted["incidents"] # <<>>
      PROVE  /\ Loads("incidents")
             /\ \A e \in Recent("incidents") : e \in Range(book["incidents"].entries)
  <2> DEFINE entries == book["incidents"].entries
             log == noted["incidents"]
             cap == Capacity["incidents"]
  <2>1. entries \in Seq(Entry) /\ log \in Seq(Entry) /\ cap \in Nat \ {0}
    BY <1>1, CapacityAssumption DEF RecordsTypeOK, Books
  <2>2. Loads("incidents")
    BY <1>1, <1>3 DEF FailuresKept, Loads
  <2>3. /\ Len(entries) = IF Len(log) < cap THEN Len(log) ELSE cap
        /\ \A i \in 1..Len(entries) : entries[i] = log[Len(log) + 1 - i]
    BY <1>1 DEF FailuresKept
  <2>4. ASSUME NEW e \in Recent("incidents") PROVE e \in Range(entries)
    <3>1. PICK j \in 1..Len(log) : j > Len(log) - cap /\ e = log[j]
      BY <2>1 DEF Recent
    <3>2. Len(log) + 1 - j \in 1..Len(entries) /\ Len(log) + 1 - (Len(log) + 1 - j) = j
      BY <2>1, <2>3, <3>1
    <3>3. entries[Len(log) + 1 - j] = e /\ Len(log) + 1 - j \in DOMAIN entries
      BY <2>1, <2>3, <3>1, <3>2
    <3> QED
      BY <3>3 DEF Range
  <2> QED
    BY <2>2, <2>4
<1> QED
  BY <1>2, <1>3 DEF NothingNotedIsLost, Books

\* No record of an operation is lost: record and Record put each entry into
\* the file they read under the mutex, and of what was noted a readable file
\* holds the newest entries its capacity and its thirty days leave room for.
THEOREM RecordsAreKept == RecordsSpec => []NothingNotedIsLost
  BY InvariantKeepsRecords, RecordsInductiveInvariant, PTL

-----------------------------------------------------------------------------
(***************************************************************************)
(* The loop that finds the latest event                                    *)
(***************************************************************************)
\* What the loop has after i rounds.
LatestRounds(latest, events, p, kinds, n) ==
    latest = [i \in 0..n |->
                IF i = 0 THEN NoEvent
                ELSE IF About(events[i], p, kinds) /\ (latest[i - 1] = NoEvent \/ events[i].at > latest[i - 1].at)
                     THEN events[i] ELSE latest[i - 1]]

LEMMA LatestRuns ==
    ASSUME NEW events \in Seq(Entry), NEW p, NEW kinds
    PROVE  \E latest : LatestRounds(latest, events, p, kinds, Len(events))
<1> DEFINE S == {n \in 0..Len(events) : \E latest : LatestRounds(latest, events, p, kinds, n)}
<1>1. 0 \in S
  <2>1. LatestRounds([i \in 0..0 |-> NoEvent], events, p, kinds, 0)
    BY DEF LatestRounds
  <2> QED
    BY <2>1
<1>2. ASSUME NEW n \in S, n < Len(events) PROVE n + 1 \in S
  <2>1. PICK latest : LatestRounds(latest, events, p, kinds, n)
    OBVIOUS
  <2> DEFINE step(f, i) ==
               IF About(events[i], p, kinds) /\ (f[i - 1] = NoEvent \/ events[i].at > f[i - 1].at)
               THEN events[i] ELSE f[i - 1]
             more == [i \in 0..n + 1 |-> IF i # n + 1 THEN latest[i] ELSE step(latest, i)]
  <2>2. n \in Nat /\ n + 1 \in 0..Len(events)
    BY <1>2
  <2>3. \A i \in 0..n : more[i] = latest[i]
    BY <2>2
  <2>4. ASSUME NEW i \in 0..n + 1 PROVE more[i] = IF i = 0 THEN NoEvent ELSE step(more, i)
    <3>1. CASE i = n + 1
      <4>1. i # 0 /\ i - 1 \in 0..n
        BY <2>2, <3>1
      <4>2. more[i - 1] = latest[i - 1]
        BY <2>3, <4>1
      <4>3. more[i] = step(latest, i)
        BY <3>1
      <4> HIDE DEF more
      <4> QED
        BY <4>1, <4>2, <4>3
    <3>2. CASE i # n + 1
      <4>1. i \in 0..n
        BY <2>2, <3>2
      <4>2. more[i] = latest[i]
        BY <2>3, <4>1
      <4>3. latest[i] = IF i = 0 THEN NoEvent ELSE step(latest, i)
        BY <2>1, <4>1 DEF LatestRounds
      <4>4. i # 0 => more[i - 1] = latest[i - 1]
        BY <2>2, <2>3, <4>1
      <4> HIDE DEF more
      <4> QED
        BY <4>2, <4>3, <4>4
    <3> QED
      BY <3>1, <3>2
  <2> HIDE DEF more
  <2>5. more = [i \in 0..n + 1 |-> more[i]]
    BY DEF more
  <2>6. LatestRounds(more, events, p, kinds, n + 1)
    BY <2>4, <2>5 DEF LatestRounds
  <2> QED
    BY <2>2, <2>6
<1> HIDE DEF S
<1>3. Len(events) \in S
  <2>1. S \in SUBSET Nat /\ Len(events) \in Nat
    BY DEF S
  <2> QED
    BY <1>1, <1>2, <2>1, Reached
<1> QED
  BY <1>3 DEF S

\* l is what the first n events tell last of p.
IsLatest(l, events, p, kinds, n) ==
    IF \E i \in 1..n : About(events[i], p, kinds)
    THEN \E i \in 1..n : /\ About(events[i], p, kinds) /\ l = events[i]
                         /\ \A j \in 1..n : About(events[j], p, kinds) => events[j].at <= l.at
    ELSE l = NoEvent

\* What a round makes of what was latest before it.
Later(l, e, p, kinds) == IF About(e, p, kinds) /\ (l = NoEvent \/ e.at > l.at) THEN e ELSE l

\* A round of the loop keeps its invariant.
LEMMA RoundKeepsLatest ==
    ASSUME NEW events \in Seq(Entry), NEW p, NEW kinds, ~ About(NoEvent, p, kinds), NEW l,
           NEW n \in Nat, n + 1 \in 1..Len(events), IsLatest(l, events, p, kinds, n)
    PROVE  IsLatest(Later(l, events[n + 1], p, kinds), events, p, kinds, n + 1)
<1> DEFINE e == events[n + 1]
<1>1. \A i \in 1..n + 1 : events[i].at \in Nat
  <2>1. \A i \in 1..n + 1 : i \in 1..Len(events)
    OBVIOUS
  <2>2. \A i \in 1..n + 1 : events[i] \in Entry
    BY <2>1, ElementOfSeq
  <2> QED
    BY <2>2, TimesAreNumbers
<1>2. \A i \in 1..n : i \in 1..n + 1
  OBVIOUS
<1>3. \A i \in 1..n + 1 : i = n + 1 \/ i \in 1..n
  OBVIOUS
<1>4. n + 1 \in 1..n + 1
  OBVIOUS
<1> HIDE DEF e
<1>5. CASE ~ About(e, p, kinds)
  <2>1. Later(l, e, p, kinds) = l
    BY <1>5 DEF Later
  <2>2. CASE \E i \in 1..n : About(events[i], p, kinds)
    <3>1. PICK i \in 1..n : /\ About(events[i], p, kinds) /\ l = events[i]
                            /\ \A j \in 1..n : About(events[j], p, kinds) => events[j].at <= l.at
      BY <2>2 DEF IsLatest
    <3>2. \A j \in 1..n + 1 : About(events[j], p, kinds) => events[j].at <= l.at
      BY <1>3, <1>5, <3>1 DEF e
    <3>3. IsLatest(l, events, p, kinds, n + 1)
      BY <1>2, <3>1, <3>2 DEF IsLatest
    <3> QED
      BY <2>1, <3>3 DEF e
  <2>3. CASE ~ \E i \in 1..n : About(events[i], p, kinds)
    <3>1. ~ \E i \in 1..n + 1 : About(events[i], p, kinds)
      BY <1>3, <1>5, <2>3 DEF e
    <3>2. l = NoEvent
      BY <2>3 DEF IsLatest
    <3>3. IsLatest(l, events, p, kinds, n + 1)
      BY <3>1, <3>2 DEF IsLatest
    <3> QED
      BY <2>1, <3>3 DEF e
  <2> QED
    BY <2>2, <2>3
<1>6. CASE About(e, p, kinds)
  <2>1. \E i \in 1..n + 1 : About(events[i], p, kinds)
    BY <1>4, <1>6 DEF e
  <2>2. CASE \E i \in 1..n : About(events[i], p, kinds)
    <3>1. PICK i \in 1..n : /\ About(events[i], p, kinds) /\ l = events[i]
                            /\ \A j \in 1..n : About(events[j], p, kinds) => events[j].at <= l.at
      BY <2>2 DEF IsLatest
    <3>2. l # NoEvent
      BY <3>1
    <3>3. e.at \in Nat /\ l.at \in Nat
      BY <1>1, <1>2, <1>4, <3>1 DEF e
    <3>4. CASE e.at > l.at
      <4>1. Later(l, e, p, kinds) = e
        BY <1>6, <3>4 DEF Later
      <4>2. \A j \in 1..n + 1 : About(events[j], p, kinds) => events[j].at <= e.at
        BY <1>1, <1>3, <3>1, <3>3, <3>4 DEF e
      <4>3. IsLatest(e, events, p, kinds, n + 1)
        BY <1>4, <1>6, <2>1, <4>2 DEF IsLatest, e
      <4> QED
        BY <4>1, <4>3 DEF e
    <3>5. CASE ~ (e.at > l.at)
      <4>1. Later(l, e, p, kinds) = l
        BY <3>2, <3>5 DEF Later
      <4>2. e.at <= l.at
        BY <3>3, <3>5
      <4>3. \A j \in 1..n + 1 : About(events[j], p, kinds) => events[j].at <= l.at
        BY <1>3, <3>1, <4>2 DEF e
      <4>4. IsLatest(l, events, p, kinds, n + 1)
        BY <1>2, <2>1, <3>1, <4>3 DEF IsLatest
      <4> QED
        BY <4>1, <4>4 DEF e
    <3> QED
      BY <3>4, <3>5
  <2>3. CASE ~ \E i \in 1..n : About(events[i], p, kinds)
    <3>1. l = NoEvent
      BY <2>3 DEF IsLatest
    <3>2. Later(l, e, p, kinds) = e
      BY <1>6, <3>1 DEF Later
    <3>3. e.at \in Nat /\ e.at <= e.at
      BY <1>1, <1>4 DEF e
    <3>4. \A j \in 1..n + 1 : About(events[j], p, kinds) => events[j].at <= e.at
      BY <1>3, <2>3, <3>3 DEF e
    <3>5. IsLatest(e, events, p, kinds, n + 1)
      BY <1>4, <1>6, <2>1, <3>4 DEF IsLatest, e
    <3> QED
      BY <3>2, <3>5 DEF e
  <2> QED
    BY <2>2, <2>3
<1> QED
  BY <1>5, <1>6

LEMMA LatestIs ==
    ASSUME NEW events \in Seq(Entry), NEW p, NEW kinds, ~ About(NoEvent, p, kinds)
    PROVE  IsLatest(Latest(events, p, kinds), events, p, kinds, Len(events))
<1> DEFINE latest[i \in 0..Len(events)] ==
             IF i = 0 THEN NoEvent
             ELSE IF About(events[i], p, kinds) /\ (latest[i - 1] = NoEvent \/ events[i].at > latest[i - 1].at)
                  THEN events[i] ELSE latest[i - 1]
<1>1. Latest(events, p, kinds) = latest[Len(events)]
  BY DEF Latest
<1>2. LatestRounds(latest, events, p, kinds, Len(events))
  <2>1. PICK f : LatestRounds(f, events, p, kinds, Len(events))
    BY LatestRuns
  <2> DEFINE IsLoop(g) == g = [i \in 0..Len(events) |->
                IF i = 0 THEN NoEvent
                ELSE IF About(events[i], p, kinds) /\ (g[i - 1] = NoEvent \/ events[i].at > g[i - 1].at)
                     THEN events[i] ELSE g[i - 1]]
  <2>2. IsLoop(f)
    BY <2>1 DEF LatestRounds
  <2>3. latest = CHOOSE g : IsLoop(g)
    OBVIOUS
  <2> HIDE DEF latest, IsLoop
  <2>4. IsLoop(latest)
    BY <2>2, <2>3
  <2> QED
    BY <2>4 DEF IsLoop, LatestRounds
<1> HIDE DEF latest
<1>3. \A i \in 0..Len(events) :
        latest[i] = IF i = 0 THEN NoEvent ELSE Later(latest[i - 1], events[i], p, kinds)
  BY <1>2 DEF LatestRounds, Later
<1> DEFINE Good(n) == IsLatest(latest[n], events, p, kinds, n)
           S == {n \in 0..Len(events) : Good(n)}
<1>4. 0 \in 0..Len(events) /\ ~ \E i \in 1..0 : TRUE
  OBVIOUS
<1>5. Good(0)
  BY <1>3, <1>4 DEF IsLatest
<1>6. ASSUME NEW n \in Nat, n + 1 \in 1..Len(events), Good(n) PROVE Good(n + 1)
  <2>1. n + 1 \in 0..Len(events) /\ n + 1 # 0 /\ (n + 1) - 1 = n
    BY <1>6
  <2>2. latest[n + 1] = Later(latest[n], events[n + 1], p, kinds)
    BY <1>3, <2>1
  <2>3. IsLatest(Later(latest[n], events[n + 1], p, kinds), events, p, kinds, n + 1)
    BY <1>6, RoundKeepsLatest
  <2> QED
    BY <2>2, <2>3
<1> HIDE DEF Good
<1>7. 0 \in S
  BY <1>4, <1>5
<1>8. ASSUME NEW n \in S, n < Len(events) PROVE n + 1 \in S
  <2>1. n \in Nat /\ n + 1 \in 1..Len(events) /\ n + 1 \in 0..Len(events) /\ Good(n)
    BY <1>8
  <2> QED
    BY <1>6, <2>1
<1>9. S \in SUBSET Nat /\ Len(events) \in Nat
  OBVIOUS
<1> HIDE DEF S
<1>10. Len(events) \in S
  BY <1>7, <1>8, <1>9, Reached
<1>11. Good(Len(events))
  BY <1>10 DEF S
<1> QED
  BY <1>1, <1>11 DEF Good
\* The fields of the snapshot that the properties speak of.
LEMMA ShownFields ==
    /\ Shown.metrics = Metrics(states, book["telemetry"].entries)
    /\ Shown.launches = Launches(now, states, book["telemetry"].entries)
BY DEF Shown, buildSnapshot

\* What is in telemetry.json was noted.
LEMMA EventsWereNoted ==
    ASSUME RecordsIInv, NEW i \in 1..Len(book["telemetry"].entries)
    PROVE  \E j \in 1..Len(noted["telemetry"]) : book["telemetry"].entries[i] = noted["telemetry"][j]
<1>1. EventsKept
  BY DEF RecordsIInv
<1> QED
  BY <1>1 DEF EventsKept, Follows

\* If all that nothing is later than is of one kind, the loop finds one of it.
LEMMA LatestIsNewest ==
    ASSUME RecordsIInv, NEW p, NEW kinds, NEW kind, ~ About(NoEvent, p, kinds), AllAre(Newest(p, kinds), kind)
    PROVE  LET l == Latest(book["telemetry"].entries, p, kinds)
           IN  l \in Newest(p, kinds) /\ l.kind = kind
<1> DEFINE events == book["telemetry"].entries
           log == noted["telemetry"]
           l == Latest(events, p, kinds)
           results == {e \in Range(log) : e.profile = p /\ e.kind \in kinds}
<1>1. events \in Seq(Entry) /\ log \in Seq(Entry)
  BY DEF RecordsIInv, RecordsTypeOK, Books
<1>2. Newest(p, kinds) = {e \in results : \A f \in results : f.at <= e.at}
  BY DEF Newest
<1>3. PICK e \in Newest(p, kinds) : e \in Recent("telemetry") /\ Fresh(e)
  BY DEF AllAre
<1>4. e \in Range(log) /\ About(e, p, kinds) /\ \A f \in results : f.at <= e.at
  BY <1>2, <1>3 DEF About
<1>5. PICK i \in 1..Len(events) : events[i] = e
  <2>1. log # <<>>
    BY <1>1, <1>4 DEF Range
  <2>2. e \in Range(events)
    BY <1>3, <2>1, InvariantKeepsRecords DEF NothingNotedIsLost, Books
  <2>3. DOMAIN events = 1..Len(events)
    BY <1>1
  <2> QED
    BY <2>2, <2>3 DEF Range
<1>6. IsLatest(l, events, p, kinds, Len(events))
  BY <1>1, LatestIs
<1>7. PICK k \in 1..Len(events) : /\ About(events[k], p, kinds) /\ l = events[k]
                                 /\ \A j \in 1..Len(events) : About(events[j], p, kinds) => events[j].at <= l.at
  BY <1>4, <1>5, <1>6 DEF IsLatest
<1>8. l \in results
  <2>1. PICK j \in 1..Len(log) : l = log[j]
    BY <1>7, EventsWereNoted
  <2>2. l \in Range(log)
    BY <1>1, <2>1 DEF Range
  <2> QED
    BY <1>7, <2>2 DEF About
<1>9. e.at <= l.at
  BY <1>4, <1>5, <1>7
<1> HIDE DEF events, log, l
<1>10. results \subseteq Entry
  BY <1>1, ElementOfSeq DEF Range
<1>11. e.at \in Nat /\ l.at \in Nat /\ \A f \in results : f.at \in Nat
  <2>1. e \in results
    BY <1>4 DEF About
  <2> QED
    BY <1>8, <1>10, <2>1, TimesAreNumbers
<1>12. \A f \in results : f.at <= l.at
  BY <1>4, <1>9, <1>11
<1>13. l \in Newest(p, kinds)
  BY <1>2, <1>8, <1>12
<1>14. l.kind = kind
  BY <1>13 DEF AllAre
<1> QED
  BY <1>13, <1>14 DEF l, events

\* What the dashboard has read of a profile.
LEMMA StatesRead ==
    ASSUME LastOpenings, states # Free
    PROVE  /\ DOMAIN states = Profiles
           /\ \A p \in Profiles : /\ states[p].proxied = (p \in ProxiedProfiles)
                                 /\ states[p].ready = (p \in ReadyProfiles)
<1>1. PICK times : states = States(times)
  BY DEF LastOpenings
<1> QED
  BY <1>1 DEF States

\* The metric of a profile.
LEMMA MetricOf ==
    ASSUME LastOpenings, states # Free, NEW p \in Profiles
    PROVE  Shown.metrics[p] = profileMetric(states[p], Latest(book["telemetry"].entries, p, LaunchKinds),
                                                       Latest(book["telemetry"].entries, p, ProxyKinds))
<1>1. DOMAIN states = Profiles
  BY StatesRead
<1> QED
  BY <1>1, ShownFields DEF Metrics

LEMMA NoEventIsOfNoKind ==
    \A p : ~ About(NoEvent, p, LaunchKinds) /\ ~ About(NoEvent, p, ProxyKinds)
BY DEF About, NoEvent, LaunchKinds, ProxyKinds

LEMMA NoEventHasNoKind == NoEvent.kind = ""
BY DEF NoEvent

LEMMA LatestResultsShown ==
    ASSUME RecordsIInv, EventsAreSound, LastOpenings, states # Free, NEW p \in Profiles
    PROVE  LET metric == Shown.metrics[p]
           IN  /\ AllAre(Newest(p, LaunchKinds), "launch_failed") => metric.risk = "high"
               /\ AllAre(Newest(p, ProxyKinds), "proxy_failed") => ~ metric.healthy /\ metric.risk = "high"
               /\ AllAre(Newest(p, LaunchKinds), "launch_succeeded")
                  /\ AllAre(Newest(p, ProxyKinds), "proxy_succeeded")
                    => (metric.risk = "high" => p \notin ReadyProfiles)
<1> DEFINE launch == Latest(book["telemetry"].entries, p, LaunchKinds)
           proxy == Latest(book["telemetry"].entries, p, ProxyKinds)
           profile == states[p]
           points == Points(profile, launch, proxy)
           metric == Shown.metrics[p]
<1>1. metric = profileMetric(profile, launch, proxy)
  BY MetricOf
<1>2. ~ About(NoEvent, p, LaunchKinds) /\ ~ About(NoEvent, p, ProxyKinds)
  BY NoEventIsOfNoKind
<1>3. profile.proxied = (p \in ProxiedProfiles) /\ profile.ready = (p \in ReadyProfiles)
  BY StatesRead
<1>4. ASSUME NEW kind, AllAre(Newest(p, LaunchKinds), kind) PROVE launch.kind = kind
  BY <1>2, <1>4, LatestIsNewest
<1>5. ASSUME NEW kind, AllAre(Newest(p, ProxyKinds), kind)
      PROVE  proxy.kind = kind /\ proxy \in Newest(p, ProxyKinds)
  BY <1>2, <1>5, LatestIsNewest
<1>6. metric.healthy = Healthy(profile, proxy) /\ metric.risk = Risk(points)
  BY <1>1 DEF profileMetric
<1>7. proxy \in Newest(p, ProxyKinds) => p \in ProxiedProfiles
  <2>1. SUFFICES ASSUME proxy \in Newest(p, ProxyKinds) PROVE p \in ProxiedProfiles
    OBVIOUS
  <2>2. proxy \in Range(noted["telemetry"]) /\ proxy.profile = p /\ proxy.kind \in ProxyKinds
    BY <2>1 DEF Newest
  <2>3. noted["telemetry"] \in Seq(Entry)
    BY DEF RecordsIInv, RecordsTypeOK, Books
  <2>4. PICK i \in 1..Len(noted["telemetry"]) : noted["telemetry"][i] = proxy
    BY <2>2, <2>3 DEF Range
  <2>5. Sound(proxy, ops, opened)
    BY <2>4 DEF EventsAreSound
  <2> QED
    BY <2>2, <2>5 DEF Sound
<1> HIDE DEF launch, proxy, profile, metric
<1>8. ASSUME AllAre(Newest(p, LaunchKinds), "launch_failed") PROVE metric.risk = "high"
  <2>1. launch.kind = "launch_failed"
    BY <1>4, <1>8
  <2>2. points >= 3
    BY <2>1 DEF Points
  <2> QED
    BY <1>6, <2>2 DEF Risk
<1>9. ASSUME AllAre(Newest(p, ProxyKinds), "proxy_failed") PROVE ~ metric.healthy /\ metric.risk = "high"
  <2>1. proxy.kind = "proxy_failed" /\ p \in ProxiedProfiles
    BY <1>5, <1>7, <1>9
  <2>2. ~ Healthy(profile, proxy)
    BY <2>1 DEF Healthy
  <2>3. proxy # NoEvent
    BY <2>1, NoEventHasNoKind
  <2>4. points >= 3
    <3>1. profile.proxied
      BY <1>3, <2>1
    <3>2. points = (IF profile.ready THEN 0 ELSE IF profile.opened THEN 3 ELSE 1)
                     + (IF launch.kind = "launch_failed" THEN 3 ELSE 0) + 3
      BY <2>1, <2>2, <2>3, <3>1 DEF Points
    <3> HIDE DEF points
    <3> QED
      BY <3>2
  <2> QED
    BY <1>6, <2>2, <2>4 DEF Risk
<1>10. ASSUME AllAre(Newest(p, LaunchKinds), "launch_succeeded"), AllAre(Newest(p, ProxyKinds), "proxy_succeeded"),
              p \in ReadyProfiles
       PROVE  metric.risk # "high"
  <2>1. launch.kind = "launch_succeeded" /\ proxy.kind = "proxy_succeeded" /\ profile.ready
    BY <1>3, <1>4, <1>5, <1>10
  <2>2. proxy # NoEvent
    BY <2>1, NoEventHasNoKind
  <2>3. points \in Nat /\ points < 3
    BY <2>1, <2>2 DEF Points
  <2> QED
    BY <1>6, <2>3 DEF Risk
<1> QED
  BY <1>8, <1>9, <1>10 DEF metric

-----------------------------------------------------------------------------
(***************************************************************************)
(* Events and openings                                                     *)
(***************************************************************************)
\* What is left to do after one book.
LEMMA TailOwes ==
    ASSUME NEW books \in Seq(Books \cup {"stamp"}), books # <<>>, Once(books)
    PROVE  /\ Once(Tail(books)) /\ (Owing(Tail(books)) => Owing(books))
           /\ Head(books) = "telemetry" => Owing(books) /\ ~ Owing(Tail(books))
<1>1. /\ Len(books) \in Nat /\ 1 \in 1..Len(books) /\ Head(books) = books[1]
      /\ Len(Tail(books)) = Len(books) - 1
      /\ \A i \in 1..Len(Tail(books)) : i + 1 \in 1..Len(books) /\ i + 1 # 1 /\ Tail(books)[i] = books[i + 1]
  <2>1. Tail(books) \in Seq(Books \cup {"stamp"}) /\ Len(books) \in Nat /\ Len(books) # 0
        /\ Len(Tail(books)) = Len(books) - 1 /\ \A i \in 1..Len(Tail(books)) : Tail(books)[i] = books[i + 1]
    BY HeadTailProperties, EmptySeq
  <2> QED
    BY <2>1
<1>2. Once(Tail(books))
  <2>1. ASSUME NEW i \in 1..Len(Tail(books)), NEW j \in 1..Len(Tail(books)),
               Tail(books)[i] = "telemetry", Tail(books)[j] = "telemetry"
        PROVE  i = j
    <3>1. i + 1 = j + 1
      BY <1>1, <2>1 DEF Once
    <3> QED
      BY <3>1
  <2> QED
    BY <2>1 DEF Once
<1>3. Owing(Tail(books)) => Owing(books)
  BY <1>1 DEF Owing
<1>4. Head(books) = "telemetry" => Owing(books)
  BY <1>1 DEF Owing
<1>5. Head(books) = "telemetry" => ~ Owing(Tail(books))
  BY <1>1 DEF Owing, Once
<1> QED
  BY <1>2, <1>3, <1>4, <1>5

LEMMA NothingOwed == Once(<<>>) /\ ~ Owing(<<>>)
<1>1. Len(<<>>) = 0 /\ ~ \E i \in 1..0 : TRUE
  OBVIOUS
<1> QED
  BY <1>1 DEF Once, Owing

\* What a launch and a proxy test plan to write.
LEMMA PlansAreOnce ==
    ASSUME NEW books \in {<<"stamp", "telemetry">>, <<"telemetry">>}, NEW kind
    PROVE  Once(books \o Failures(kind))
<1>1. Failures(kind) \in {<<"incidents">>, <<>>}
  BY DEF Failures
<1>2. Once(<<"telemetry">> \o <<"incidents">>) /\ Once(<<"telemetry">> \o <<>>)
  BY DEF Once
<1>3. Once(<<"stamp", "telemetry">> \o <<"incidents">>) /\ Once(<<"stamp", "telemetry">> \o <<>>)
  BY DEF Once
<1> QED
  BY <1>1, <1>2, <1>3

\* An event that says the same of the same operation.
Same(e, f) == e.n = f.n /\ e.kind = f.kind /\ e.profile = f.profile

\* A step after which nobody owes an event that was not owed before.
NoNewDebts == \A c \in Callers : Owes(c)' => Owes(c) /\ Same(entry'[c], entry[c])

\* An operation leaves a book.
LEMMA BookLeft ==
    ASSUME RecordsTypeOK, PlannedOnce, NEW c \in Callers, todo[c] # <<>>,
           todo' = [todo EXCEPT ![c] = Tail(@)],
           \A d \in Callers : Same(entry'[d], entry[d]) \/ (d = c /\ Len(todo[c]) = 1)
    PROVE  /\ PlannedOnce' /\ NoNewDebts
           /\ Head(todo[c]) = "telemetry" => Owes(c) /\ ~ Owes(c)'
<1>1. todo \in [Callers -> Seq(Books \cup {"stamp"})] /\ Once(todo[c])
  BY DEF RecordsTypeOK, PlannedOnce
<1>2. /\ Once(Tail(todo[c])) /\ (Owing(Tail(todo[c])) => Owing(todo[c]))
      /\ Head(todo[c]) = "telemetry" => Owing(todo[c]) /\ ~ Owing(Tail(todo[c]))
  BY <1>1, TailOwes
<1>3. todo'[c] = Tail(todo[c]) /\ \A d \in Callers : d # c => todo'[d] = todo[d]
  BY <1>1
<1>4. Len(todo[c]) = 1 => ~ Owing(Tail(todo[c]))
  <2>1. SUFFICES ASSUME Len(todo[c]) = 1 PROVE ~ Owing(Tail(todo[c]))
    OBVIOUS
  <2>2. Len(Tail(todo[c])) = 0
    BY <1>1, <2>1, HeadTailProperties
  <2>3. ~ \E i \in 1..0 : TRUE
    OBVIOUS
  <2> QED
    BY <2>2, <2>3 DEF Owing
<1>5. PlannedOnce'
  BY <1>2, <1>3 DEF PlannedOnce
<1>6. NoNewDebts
  BY <1>2, <1>3, <1>4 DEF NoNewDebts, Owes
<1> QED
  BY <1>2, <1>3, <1>5, <1>6 DEF Owes

LEMMA SameIsSound ==
    ASSUME NEW e, NEW f, NEW count, NEW openings, Same(e, f), Sound(f, count, openings)
    PROVE  Sound(e, count, openings)
BY DEF Same, Sound

\* Nothing new is owed or noted.
LEMMA LessToKnow ==
    ASSUME NoNewDebts, noted'["telemetry"] \in {noted["telemetry"], <<>>}, ops' = ops, opened' = opened
    PROVE  (EventsAreSound => EventsAreSound') /\ (EventsOnce => EventsOnce')
<1>1. \A i \in 1..Len(noted'["telemetry"]) :
        i \in 1..Len(noted["telemetry"]) /\ noted'["telemetry"][i] = noted["telemetry"][i]
  <2>1. Len(<<>>) = 0 /\ ~ \E i \in 1..0 : TRUE
    OBVIOUS
  <2> QED
    BY <2>1
<1>2. EventsAreSound => EventsAreSound'
  <2>1. SUFFICES ASSUME EventsAreSound PROVE EventsAreSound'
    OBVIOUS
  <2>2. \A c \in Callers : Owes(c)' => Sound(entry'[c], ops', opened')
    BY <2>1, SameIsSound DEF EventsAreSound, NoNewDebts
  <2>3. \A i \in 1..Len(noted'["telemetry"]) : Sound(noted'["telemetry"][i], ops', opened')
    BY <1>1, <2>1 DEF EventsAreSound
  <2> QED
    BY <2>2, <2>3 DEF EventsAreSound
<1>3. EventsOnce => EventsOnce'
  <2>1. SUFFICES ASSUME EventsOnce PROVE EventsOnce'
    OBVIOUS
  <2>2. \A c, d \in Callers : Owes(c)' /\ Owes(d)' /\ entry'[c].n = entry'[d].n => c = d
    BY <2>1 DEF EventsOnce, NoNewDebts, Same
  <2>3. \A c \in Callers, i \in 1..Len(noted'["telemetry"]) : Owes(c)' => noted'["telemetry"][i].n # entry'[c].n
    BY <1>1, <2>1 DEF EventsOnce, NoNewDebts, Same
  <2>4. \A i, j \in 1..Len(noted'["telemetry"]) : noted'["telemetry"][i].n = noted'["telemetry"][j].n => i = j
    BY <1>1, <2>1 DEF EventsOnce
  <2> QED
    BY <2>2, <2>3, <2>4 DEF EventsOnce
<1> QED
  BY <1>2, <1>3

\* An event that was owed is noted.
LEMMA DebtPaid ==
    ASSUME RecordsTypeOK, NoNewDebts, NEW c \in Callers, Owes(c), ~ Owes(c)',
           noted'["telemetry"] = Append(noted["telemetry"], entry[c]), ops' = ops, opened' = opened
    PROVE  (EventsAreSound => EventsAreSound') /\ (EventsOnce => EventsOnce')
<1> DEFINE log == noted["telemetry"]
           e == entry[c]
<1>1. log \in Seq(Entry) /\ e \in Entry
  BY DEF RecordsTypeOK, Books
<1>2. /\ Len(Append(log, e)) = Len(log) + 1 /\ Append(log, e)[Len(log) + 1] = e
      /\ \A i \in 1..Len(log) : Append(log, e)[i] = log[i]
  BY <1>1, AppendProperties
<1>3. \A i \in 1..Len(log) + 1 : i \in 1..Len(log) \/ i = Len(log) + 1
  BY <1>1
<1>4. EventsAreSound => EventsAreSound'
  <2>1. SUFFICES ASSUME EventsAreSound PROVE EventsAreSound'
    OBVIOUS
  <2>2. \A d \in Callers : Owes(d)' => Sound(entry'[d], ops', opened')
    BY <2>1, SameIsSound DEF EventsAreSound, NoNewDebts
  <2>3. \A i \in 1..Len(noted'["telemetry"]) : Sound(noted'["telemetry"][i], ops', opened')
    BY <1>2, <1>3, <2>1 DEF EventsAreSound
  <2> QED
    BY <2>2, <2>3 DEF EventsAreSound
<1>5. EventsOnce => EventsOnce'
  <2>1. SUFFICES ASSUME EventsOnce PROVE EventsOnce'
    OBVIOUS
  <2>2. \A a, d \in Callers : Owes(a)' /\ Owes(d)' /\ entry'[a].n = entry'[d].n => a = d
    BY <2>1 DEF EventsOnce, NoNewDebts, Same
  <2>3. \A d \in Callers : Owes(d)' => d # c /\ Owes(d) /\ entry'[d].n = entry[d].n /\ entry[d].n # e.n
    BY <2>1 DEF EventsOnce, NoNewDebts, Same
  <2>4. ASSUME NEW d \in Callers, NEW i \in 1..Len(log) + 1, Owes(d)' PROVE Append(log, e)[i].n # entry'[d].n
    BY <1>2, <1>3, <2>1, <2>3, <2>4 DEF EventsOnce
  <2>5. ASSUME NEW i \in 1..Len(log) + 1, NEW j \in 1..Len(log) + 1,
               Append(log, e)[i].n = Append(log, e)[j].n
        PROVE  i = j
    BY <1>2, <1>3, <2>1, <2>5 DEF EventsOnce
  <2> QED
    BY <1>2, <2>2, <2>4, <2>5 DEF EventsOnce
<1> QED
  BY <1>4, <1>5

\* A further operation changes nothing about the events there are.
LEMMA SoundStays ==
    ASSUME NEW count \in Nat, NEW openings, NEW more, openings \subseteq more,
           \A o \in more : o \in openings \/ o.n = count + 1,
           NEW e, Sound(e, count, openings)
    PROVE  Sound(e, count + 1, more) /\ e.n # count + 1
<1>1. e.n \in 1..count /\ e.n \in 1..count + 1 /\ e.n # count + 1
  BY DEF Sound
<1> QED
  BY <1>1 DEF Sound

\* An operation begins.
LEMMA OperationBegins ==
    ASSUME RecordsTypeOK, PlannedOnce, EventsAreSound, EventsOnce, \A o \in opened : o.n \in 1..ops,
           NEW c \in Callers, NEW kind, NEW p, NEW latency,
           NEW books \in {<<"stamp", "telemetry">>, <<"telemetry">>},
           Begin(c, kind, p, latency, books), kind \in ProxyKinds => p \in ProxiedProfiles,
           opened' = IF kind = "launch_succeeded" THEN opened \cup {[n |-> ops + 1, profile |-> p, at |-> now]}
                     ELSE opened
    PROVE  PlannedOnce' /\ EventsAreSound' /\ EventsOnce'
<1> DEFINE new == [n |-> ops + 1, kind |-> kind, profile |-> p, at |-> now, latency |-> latency]
           opening == [n |-> ops + 1, profile |-> p, at |-> now]
           log == noted["telemetry"]
<1>1. /\ ops \in Nat /\ ops' = ops + 1 /\ noted' = noted
      /\ entry'[c] = new /\ todo'[c] = books \o Failures(kind)
      /\ \A d \in Callers : d # c => entry'[d] = entry[d] /\ todo'[d] = todo[d]
  BY RecordBoundsAssumption DEF Begin, RecordsTypeOK
<1>2. PlannedOnce'
  BY <1>1, PlansAreOnce DEF PlannedOnce
<1>3. opened \subseteq opened' /\ \A o \in opened' : o \in opened \/ o.n = ops + 1
  OBVIOUS
<1>4. \A d \in Callers : d # c /\ Owes(d)' => Owes(d) /\ entry'[d] = entry[d]
  BY <1>1 DEF Owes
<1>5. \A d \in Callers : d # c /\ Owes(d)' => Sound(entry'[d], ops', opened') /\ entry'[d].n # ops + 1
  BY <1>1, <1>3, <1>4, SoundStays DEF EventsAreSound
<1>6. \A i \in 1..Len(log) : Sound(log[i], ops', opened') /\ log[i].n # ops + 1
  BY <1>1, <1>3, SoundStays DEF EventsAreSound
<1>7. Sound(new, ops', opened')
  <2>1. new.n = ops + 1 /\ new.kind = kind /\ new.profile = p /\ opening.n = ops + 1 /\ opening.profile = p
    OBVIOUS
  <2>2. new.n \in 1..ops + 1
    BY <1>1, <2>1
  <2>3. kind = "launch_succeeded" => opening \in opened'
    OBVIOUS
  <2>4. ASSUME NEW o \in opened', o.n = new.n PROVE kind = "launch_succeeded" /\ o.profile = p
    <3>1. ops + 1 \notin 1..ops
      BY <1>1
    <3>2. o \notin opened
      BY <2>1, <2>4, <3>1
    <3> QED
      BY <2>1, <3>2
  <2> HIDE DEF new, opening
  <2> QED
    BY <1>1, <2>1, <2>2, <2>3, <2>4 DEF Sound
<1> HIDE DEF new
<1>8. EventsAreSound'
  BY <1>1, <1>5, <1>6, <1>7 DEF EventsAreSound
<1>9. new.n = ops + 1
  BY DEF new
<1>10. EventsOnce'
  <2>1. ASSUME NEW a \in Callers, NEW d \in Callers, Owes(a)', Owes(d)', entry'[a].n = entry'[d].n PROVE a = d
    BY <1>1, <1>4, <1>5, <1>9, <2>1 DEF EventsOnce
  <2>2. ASSUME NEW d \in Callers, NEW i \in 1..Len(log), Owes(d)' PROVE log[i].n # entry'[d].n
    BY <1>1, <1>4, <1>6, <1>9, <2>2 DEF EventsOnce
  <2> QED
    BY <1>1, <2>1, <2>2 DEF EventsOnce
<1> QED
  BY <1>2, <1>8, <1>10

\* Restart, or a step that leaves the operations alone.
LEMMA NobodyOwes ==
    ASSUME todo' = [c \in Callers |-> <<>>]
    PROVE  PlannedOnce' /\ NoNewDebts
BY NothingOwed DEF PlannedOnce, NoNewDebts, Owes

LEMMA DebtsAsBefore ==
    ASSUME PlannedOnce, todo' = todo, entry' = entry
    PROVE  PlannedOnce' /\ NoNewDebts
BY DEF PlannedOnce, NoNewDebts, Owes, Same

\* One step per operation.
LEMMA EventsSoundStep ==
    RecordsTypeOK /\ PlannedOnce /\ EventsAreSound /\ EventsOnce /\ LastOpenings /\ [RecordsNext]_recordsVars
      => PlannedOnce' /\ EventsAreSound' /\ EventsOnce'
<1> SUFFICES ASSUME RecordsTypeOK, PlannedOnce, EventsAreSound, EventsOnce, LastOpenings, [RecordsNext]_recordsVars
             PROVE  PlannedOnce' /\ EventsAreSound' /\ EventsOnce'
  OBVIOUS
<1> USE DEF recordObservers
<1>0. \A o \in opened : o.n \in 1..ops
  BY DEF LastOpenings
<1>1. ASSUME NEW c \in Callers, NEW p \in Profiles, LaunchSucceeds(c, p)
      PROVE  PlannedOnce' /\ EventsAreSound' /\ EventsOnce'
  <2>1. /\ Begin(c, "launch_succeeded", p, 0, <<"stamp", "telemetry">>)
        /\ opened' = opened \cup {[n |-> ops + 1, profile |-> p, at |-> now]}
    BY <1>1 DEF LaunchSucceeds
  <2>2. "launch_succeeded" \notin ProxyKinds
    BY DEF ProxyKinds
  <2> QED
    BY <1>0, <2>1, <2>2, OperationBegins
<1>2. ASSUME NEW c \in Callers, NEW p \in Profiles, LaunchFails(c, p)
      PROVE  PlannedOnce' /\ EventsAreSound' /\ EventsOnce'
  <2>1. Begin(c, "launch_failed", p, 0, <<"stamp", "telemetry">>) /\ opened' = opened
    BY <1>2 DEF LaunchFails
  <2>2. "launch_failed" \notin ProxyKinds /\ "launch_failed" # "launch_succeeded"
    BY DEF ProxyKinds
  <2> QED
    BY <1>0, <2>1, <2>2, OperationBegins
<1>3. ASSUME NEW c \in Callers, NEW p \in Profiles, NEW l \in Latencies \cup {0}, TestProxy(c, p, l)
      PROVE  PlannedOnce' /\ EventsAreSound' /\ EventsOnce'
  <2> DEFINE kind == IF l = 0 THEN "proxy_failed" ELSE "proxy_succeeded"
  <2>1. Begin(c, kind, p, l, <<"telemetry">>) /\ opened' = opened /\ p \in ProxiedProfiles
    BY <1>3 DEF TestProxy
  <2>2. kind # "launch_succeeded"
    OBVIOUS
  <2> HIDE DEF kind
  <2> QED
    BY <1>0, <2>1, <2>2, OperationBegins
<1>4. ASSUME NEW c \in Callers, Stamp(c) PROVE PlannedOnce' /\ EventsAreSound' /\ EventsOnce'
  <2>1. todo[c] # <<>> /\ todo' = [todo EXCEPT ![c] = Tail(@)] /\ noted' = noted /\ ops' = ops /\ opened' = opened
    BY <1>4 DEF Stamp
  <2>2. \A d \in Callers : Same(entry'[d], entry[d])
    BY <1>4 DEF Stamp, Same, RecordsTypeOK, Entry
  <2>3. PlannedOnce' /\ NoNewDebts
    BY <2>1, <2>2, BookLeft
  <2> QED
    BY <2>1, <2>3, LessToKnow
<1>5. ASSUME NEW c \in Callers, NEW b \in Books, Write(c, b) \/ WriteFails(c, b)
      PROVE  PlannedOnce' /\ EventsAreSound' /\ EventsOnce'
  <2>1. /\ todo[c] # <<>> /\ Head(todo[c]) = b /\ todo' = [todo EXCEPT ![c] = Tail(@)]
        /\ entry' = (IF Len(todo[c]) = 1 THEN [entry EXCEPT ![c] = NoEvent] ELSE entry)
        /\ ops' = ops /\ opened' = opened
    BY <1>5 DEF Write, WriteFails, Done, Wants
  <2>2. \A d \in Callers : Same(entry'[d], entry[d]) \/ (d = c /\ Len(todo[c]) = 1)
    BY <2>1 DEF Same, RecordsTypeOK
  <2>3. PlannedOnce' /\ NoNewDebts /\ (b = "telemetry" => Owes(c) /\ ~ Owes(c)')
    BY <2>1, <2>2, BookLeft
  <2>4. CASE noted'["telemetry"] = noted["telemetry"]
    BY <2>1, <2>3, <2>4, LessToKnow
  <2>5. CASE noted'["telemetry"] # noted["telemetry"]
    <3>1. b = "telemetry" /\ noted'["telemetry"] = Append(noted["telemetry"], entry[c])
      BY <1>5, <2>5 DEF Write, WriteFails, RecordsTypeOK, Books
    <3> QED
      BY <2>1, <2>3, <3>1, DebtPaid
  <2> QED
    BY <2>4, <2>5
<1>6. CASE Clear
  <2>1. noted'["telemetry"] = noted["telemetry"]
    BY <1>6 DEF Clear, RecordsTypeOK, Books
  <2>2. todo' = todo /\ entry' = entry /\ ops' = ops /\ opened' = opened
    BY <1>6 DEF Clear
  <2> QED
    BY <2>1, <2>2, DebtsAsBefore, LessToKnow
<1>7. ASSUME NEW bad \in SUBSET Books, Restart(bad) PROVE PlannedOnce' /\ EventsAreSound' /\ EventsOnce'
  <2>1. noted'["telemetry"] \in {noted["telemetry"], <<>>}
    BY <1>7 DEF Restart, Books
  <2>2. todo' = [c \in Callers |-> <<>>] /\ ops' = ops /\ opened' = opened
    BY <1>7 DEF Restart
  <2> QED
    BY <2>1, <2>2, NobodyOwes, LessToKnow
<1>8. ASSUME UNCHANGED <<todo, entry, noted, ops, opened>> PROVE PlannedOnce' /\ EventsAreSound' /\ EventsOnce'
  <2>1. /\ todo' = todo /\ entry' = entry /\ ops' = ops /\ opened' = opened
        /\ noted'["telemetry"] = noted["telemetry"]
    BY <1>8
  <2> QED
    BY <2>1, DebtsAsBefore, LessToKnow
<1>9. ASSUME NEW c \in Callers, NEW b \in Books, Lock(c, b) PROVE UNCHANGED <<todo, entry, noted, ops, opened>>
  BY <1>9 DEF Lock
<1>10. ASSUME ReadStates \/ Show \/ \E t \in 0..MaxClock : Tick(t)
       PROVE  UNCHANGED <<todo, entry, noted, ops, opened>>
  BY <1>10 DEF ReadStates, Show, Tick
<1>11. CASE UNCHANGED recordsVars
  BY <1>8, <1>11 DEF recordsVars
<1> QED
  BY <1>1, <1>2, <1>3, <1>4, <1>5, <1>6, <1>7, <1>8, <1>9, <1>10, <1>11 DEF RecordsNext

\* What was told of openings stays so when there are more.
LEMMA StillTells ==
    ASSUME NEW times, NEW openings, NEW more, openings \subseteq more, Tells(times, openings)
    PROVE  Tells(times, more)
BY DEF Tells

LEMMA LastOpeningsStep == RecordsTypeOK /\ LastOpenings /\ [RecordsNext]_recordsVars => LastOpenings'
<1> SUFFICES ASSUME RecordsTypeOK, LastOpenings, [RecordsNext]_recordsVars PROVE LastOpenings'
  OBVIOUS
<1> USE DEF recordObservers
<1>1. ASSUME NEW c \in Callers, NEW p \in Profiles, LaunchSucceeds(c, p) PROVE LastOpenings'
  <2> DEFINE opening == [n |-> ops + 1, profile |-> p, at |-> now]
  <2>1. /\ opened' = opened \cup {opening} /\ ops' = ops + 1 /\ ops \in Nat /\ states' = states
        /\ launched' = [launched EXCEPT ![p] = now] /\ launched \in [Profiles -> 0..MaxClock \cup {Never}]
    BY <1>1, RecordBoundsAssumption DEF LaunchSucceeds, Begin, RecordsTypeOK
  <2>2. opening.n = ops + 1 /\ opening.profile = p /\ opening.at = now
    OBVIOUS
  <2> HIDE DEF opening
  <2>3. IsFiniteSet(opened')
    BY <2>1, FS_AddElement DEF LastOpenings
  <2>4. \A o \in opened : o.n \in 1..ops' /\ o.n # ops + 1
    BY <2>1 DEF LastOpenings
  <2>5. \A o \in opened' : o.n \in 1..ops'
    <3>1. ops + 1 \in 1..ops'
      BY <2>1
    <3> QED
      BY <2>1, <2>2, <2>4, <3>1
  <2>6. \A o, q \in opened' : o.n = q.n => o = q
    BY <2>1, <2>2, <2>4 DEF LastOpenings
  <2>7. Tells(launched', opened')
    <3>1. ASSUME NEW r \in Profiles, launched'[r] # Never
          PROVE  \E o \in opened' : o.profile = r /\ o.at = launched'[r]
      <4>1. CASE r = p
        BY <2>1, <2>2, <4>1
      <4>2. CASE r # p
        BY <2>1, <3>1, <4>2 DEF LastOpenings, Tells
      <4> QED
        BY <4>1, <4>2
    <3> QED
      BY <3>1 DEF Tells
  <2>8. states' # Free => \E times \in [Profiles -> 0..MaxClock \cup {Never}] :
                             states' = States(times) /\ Tells(times, opened')
    BY <2>1, StillTells DEF LastOpenings
  <2> QED
    BY <2>3, <2>5, <2>6, <2>7, <2>8 DEF LastOpenings
<1>2. ASSUME opened' = opened, launched' = launched, ops' = ops \/ ops' = ops + 1,
             states' # Free => states' = states \/ states' = States(launched)
      PROVE  LastOpenings'
  <2>1. ops \in Nat /\ launched \in [Profiles -> 0..MaxClock \cup {Never}]
    BY RecordBoundsAssumption DEF RecordsTypeOK
  <2>2. 1..ops \subseteq 1..ops'
    BY <1>2, <2>1
  <2>3. \A o \in opened' : o.n \in 1..ops'
    BY <1>2, <2>2 DEF LastOpenings
  <2>4. states' # Free => \E times \in [Profiles -> 0..MaxClock \cup {Never}] :
                             states' = States(times) /\ Tells(times, opened')
    BY <1>2, <2>1 DEF LastOpenings
  <2> QED
    BY <1>2, <2>3, <2>4 DEF LastOpenings
<1>3. ASSUME NEW c \in Callers, NEW p \in Profiles, LaunchFails(c, p) PROVE LastOpenings'
  BY <1>2, <1>3 DEF LaunchFails, Begin
<1>4. ASSUME NEW c \in Callers, NEW p \in Profiles, NEW l \in Latencies \cup {0}, TestProxy(c, p, l)
      PROVE  LastOpenings'
  BY <1>2, <1>4 DEF TestProxy, Begin
<1>5. ASSUME NEW c \in Callers, Stamp(c) PROVE LastOpenings'
  BY <1>2, <1>5 DEF Stamp
<1>6. ASSUME NEW c \in Callers, NEW b \in Books, Lock(c, b) \/ Write(c, b) \/ WriteFails(c, b) PROVE LastOpenings'
  BY <1>2, <1>6 DEF Lock, Write, WriteFails
<1>7. CASE Clear \/ ReadStates \/ Show \/ \E t \in 0..MaxClock : Tick(t)
  BY <1>2, <1>7 DEF Clear, ReadStates, Show, Tick
<1>8. ASSUME NEW bad \in SUBSET Books, Restart(bad) PROVE LastOpenings'
  BY <1>2, <1>8 DEF Restart
<1>9. CASE UNCHANGED recordsVars
  BY <1>2, <1>9 DEF recordsVars
<1> QED
  BY <1>1, <1>3, <1>4, <1>5, <1>6, <1>7, <1>8, <1>9 DEF RecordsNext

LEMMA InitOpenings == RecordsInit => OpeningsIInv
<1> SUFFICES ASSUME RecordsInit PROVE OpeningsIInv
  OBVIOUS
<1>1. /\ noted["telemetry"] = <<>> /\ Len(<<>>) = 0 /\ ~ (\E i \in 1..0 : TRUE) /\ opened = {} /\ states = Free
      /\ \A c \in Callers : todo[c] = <<>>
      /\ \A p \in Profiles : launched[p] = Never
  BY DEF RecordsInit, Books
<1>2. PlannedOnce /\ \A c \in Callers : ~ Owes(c)
  BY <1>1, NothingOwed DEF PlannedOnce, Owes
<1>3. EventsAreSound /\ EventsOnce
  BY <1>1, <1>2 DEF EventsAreSound, EventsOnce
<1>4. LastOpenings
  BY <1>1, FS_EmptySet DEF LastOpenings, Tells
<1> QED
  BY <1>2, <1>3, <1>4 DEF OpeningsIInv

-----------------------------------------------------------------------------
(***************************************************************************)
(* Openings are counted once                                               *)
(***************************************************************************)
\* Two sets that go one to one to different elements of a third.
LEMMA TwoIntoOne ==
    ASSUME NEW A, NEW B, NEW C, IsFiniteSet(C), NEW f \in [A -> C], NEW g \in [B -> C],
           \A i, j \in A : f[i] = f[j] => i = j, \A p, q \in B : g[p] = g[q] => p = q,
           \A i \in A, p \in B : f[i] # g[p]
    PROVE  Cardinality(A) + Cardinality(B) <= Cardinality(C)
<1> DEFINE C1 == {f[i] : i \in A}
           C2 == C \ C1
<1>1. C1 \in SUBSET C /\ C2 \in SUBSET C /\ C1 \cup C2 = C /\ C1 \cap C2 = {}
  OBVIOUS
<1>2. f \in Injection(A, C1) /\ g \in Injection(B, C2)
  BY DEF Injection, IsInjective
<1> HIDE DEF C1, C2
<1>3. IsFiniteSet(C1) /\ IsFiniteSet(C2)
  BY <1>1, FS_Subset
<1>4. IsFiniteSet(A) /\ Cardinality(A) <= Cardinality(C1)
  BY <1>2, <1>3, FS_Injection
<1>5. IsFiniteSet(B) /\ Cardinality(B) <= Cardinality(C2)
  BY <1>2, <1>3, FS_Injection
<1>6. Cardinality(C) = Cardinality(C1) + Cardinality(C2) - Cardinality({})
  BY <1>1, <1>3, FS_Union
<1>7. Cardinality({}) = 0
  BY FS_EmptySet
<1>8. /\ Cardinality(A) \in Nat /\ Cardinality(B) \in Nat
      /\ Cardinality(C1) \in Nat /\ Cardinality(C2) \in Nat
  BY <1>3, <1>4, <1>5, FS_CardinalityType
<1> QED
  BY <1>4, <1>5, <1>6, <1>7, <1>8

\* Each event of telemetry.json stands there once and is sound.
LEMMA EventsInFile ==
    ASSUME RecordsIInv, EventsAreSound, EventsOnce
    PROVE  LET events == book["telemetry"].entries
           IN  /\ events \in Seq(Entry) /\ DOMAIN events = 1..Len(events) /\ Len(events) \in Nat
               /\ \A i \in DOMAIN events : Sound(events[i], ops, opened)
               /\ \A i, j \in DOMAIN events : events[i].n = events[j].n => i = j
<1> DEFINE events == book["telemetry"].entries
           log == noted["telemetry"]
<1>1. events \in Seq(Entry) /\ log \in Seq(Entry)
  BY DEF RecordsIInv, RecordsTypeOK, Books
<1>2. DOMAIN events = 1..Len(events) /\ Len(events) \in Nat /\ Len(log) \in Nat
  BY <1>1
<1>3. PICK place \in [1..Len(events) -> 1..Len(log)] :
        /\ Places(place, Len(events), Len(log))
        /\ \A i \in 1..Len(events) : events[i] = log[place[i]]
  BY DEF RecordsIInv, EventsKept, Follows
<1>4. \A i \in 1..Len(events) : Sound(events[i], ops, opened)
  BY <1>3 DEF EventsAreSound
<1>5. ASSUME NEW i \in 1..Len(events), NEW j \in 1..Len(events), events[i].n = events[j].n PROVE i = j
  <2>1. place[i] = place[j]
    <3>1. place[i] \in 1..Len(log) /\ place[j] \in 1..Len(log) /\ log[place[i]].n = log[place[j]].n
      BY <1>3, <1>5
    <3> QED
      BY <3>1 DEF EventsOnce
  <2>2. i <= j => place[j] - place[i] >= j - i
    BY <1>3 DEF Places
  <2>3. j <= i => place[i] - place[j] >= i - j
    BY <1>3 DEF Places
  <2>4. place[i] \in Nat /\ place[j] \in Nat
    BY <1>2, <1>3
  <2> QED
    BY <1>2, <2>1, <2>2, <2>3, <2>4
<1> QED
  BY <1>1, <1>2, <1>4, <1>5

\* What the dashboard has read of an opening.
LEMMA OpeningRead ==
    ASSUME LastOpenings, states # Free
    PROVE  \A p \in DOMAIN states : states[p].launched # Never
             => \E o \in opened : o.profile = p /\ o.at = states[p].launched
<1>1. PICK times : states = States(times) /\ Tells(times, opened)
  BY DEF LastOpenings
<1> QED
  BY <1>1 DEF States, Tells

LEMMA OpeningsCounted ==
    ASSUME RecordsIInv, EventsAreSound, EventsOnce, LastOpenings, states # Free
    PROVE  /\ Shown.launches <= Cardinality(Countable)
           /\ {o.n : o \in opened} \subseteq {e.n : e \in Range(book["telemetry"].entries)}
                => Shown.launches = Cardinality({e \in Range(book["telemetry"].entries) :
                                                    e.kind = "launch_succeeded" /\ InChart(now, e.at)})
<1> DEFINE events == book["telemetry"].entries
           I == {i \in DOMAIN events : events[i].kind = "launch_succeeded" /\ InChart(now, events[i].at)}
           P == {p \in Unrecorded(states, events) : InChart(now, states[p].launched)}
           R == {e \in Range(events) : e.kind = "launch_succeeded" /\ InChart(now, e.at)}
<1>1. /\ DOMAIN events = 1..Len(events) /\ Len(events) \in Nat
      /\ \A i \in DOMAIN events : Sound(events[i], ops, opened)
      /\ \A i, j \in DOMAIN events : events[i].n = events[j].n => i = j
  BY EventsInFile
<1>2. Shown.launches = Cardinality(I) + Cardinality(P)
  BY ShownFields DEF Launches, Charted
<1>3. IsFiniteSet(Countable)
  <2>1. Countable \in SUBSET opened /\ IsFiniteSet(opened)
    BY DEF Countable, LastOpenings
  <2> QED
    BY <2>1, FS_Subset
<1>4. \A i \in I : \E o \in Countable : o.n = events[i].n
  <2>1. SUFFICES ASSUME NEW i \in I PROVE \E o \in Countable : o.n = events[i].n
    OBVIOUS
  <2>2. PICK o \in opened : o.n = events[i].n
    BY <1>1 DEF Sound
  <2>3. events[i] \in Range(events) /\ InChart(now, events[i].at)
    BY DEF Range
  <2> QED
    BY <2>2, <2>3 DEF Countable
<1>5. \A p \in P : \E o \in Countable : o.profile = p
  BY OpeningRead DEF Countable, Unrecorded
<1>6. \A i \in I, o \in opened : o.n = events[i].n => o.profile \notin P
  BY <1>1 DEF Sound, Unrecorded
<1> DEFINE f == [i \in I |-> CHOOSE o \in Countable : o.n = events[i].n]
           g == [p \in P |-> CHOOSE o \in Countable : o.profile = p]
<1>7. f \in [I -> Countable] /\ \A i \in I : f[i].n = events[i].n
  BY <1>4
<1>8. g \in [P -> Countable] /\ \A p \in P : g[p].profile = p
  BY <1>5
<1>9. \A i, j \in I : f[i] = f[j] => i = j
  BY <1>1, <1>7
<1>10. \A p, q \in P : g[p] = g[q] => p = q
  BY <1>8
<1> HIDE DEF I, P, f, g
<1>11. \A i \in I, p \in P : f[i] # g[p]
  <2>1. SUFFICES ASSUME NEW i \in I, NEW p \in P, f[i] = g[p] PROVE FALSE
    OBVIOUS
  <2>2. f[i] \in opened
    BY <1>7 DEF Countable
  <2>3. f[i].n = events[i].n /\ f[i].profile = p
    BY <1>7, <1>8, <2>1
  <2> QED
    BY <1>6, <2>2, <2>3
<1>12. Shown.launches <= Cardinality(Countable)
  BY <1>2, <1>3, <1>7, <1>8, <1>9, <1>10, <1>11, TwoIntoOne
<1>13. ASSUME {o.n : o \in opened} \subseteq {e.n : e \in Range(events)}
       PROVE  Shown.launches = Cardinality(R)
  <2>1. P = {}
    <3>1. SUFFICES ASSUME NEW p \in P PROVE FALSE
      OBVIOUS
    <3>2. p \in Unrecorded(states, events)
      BY DEF P
    <3>3. PICK o \in opened : o.profile = p
      BY <3>2, OpeningRead DEF Unrecorded
    <3>4. PICK i \in DOMAIN events : events[i].n = o.n
      BY <1>13, <3>3 DEF Range
    <3>5. events[i].kind = "launch_succeeded" /\ events[i].profile = p
      BY <1>1, <3>3, <3>4 DEF Sound
    <3> QED
      BY <3>2, <3>4, <3>5 DEF Unrecorded
  <2>2. IsFiniteSet(I)
    <3>1. IsFiniteSet(DOMAIN events)
      BY <1>1, FS_Interval
    <3>2. I \in SUBSET DOMAIN events
      BY DEF I
    <3> QED
      BY <3>1, <3>2, FS_Subset
  <2> DEFINE h == [i \in I |-> events[i]]
  <2>3. h \in Bijection(I, R)
    <3>1. h \in [I -> R]
      BY DEF I, Range
    <3>2. \A i, j \in I : h[i] = h[j] => i = j
      BY <1>1 DEF I
    <3>3. \A e \in R : \E i \in I : h[i] = e
      BY DEF I, Range
    <3> QED
      BY <3>1, <3>2, <3>3 DEF Bijection, Injection, Surjection, IsInjective
  <2>4. Cardinality(R) = Cardinality(I)
    BY <2>2, <2>3, FS_Bijection DEF ExistsBijection
  <2>5. Cardinality(I) \in Nat /\ Cardinality({}) = 0
    BY <2>2, FS_CardinalityType, FS_EmptySet
  <2> QED
    BY <1>2, <2>1, <2>4, <2>5
<1> QED
  BY <1>12, <1>13

-----------------------------------------------------------------------------
(***************************************************************************)
(* The theorems about the dashboard                                        *)
(***************************************************************************)
\* What is known of events and openings holds in every state: an event is
\* planned, written down and kept once, says of its operation what happened,
\* and LastLaunchedAt is of an opening.
THEOREM OpeningsInvariant == RecordsSpec => []OpeningsIInv
<1>1. RecordsInit => OpeningsIInv
  BY InitOpenings
<1>2. RecordsIInv /\ OpeningsIInv /\ [RecordsNext]_recordsVars => OpeningsIInv'
  <2>1. RecordsIInv => RecordsTypeOK
    BY DEF RecordsIInv
  <2> QED
    BY <2>1, EventsSoundStep, LastOpeningsStep DEF OpeningsIInv
<1> QED
  BY <1>1, <1>2, RecordsInductiveInvariant, PTL DEF RecordsSpec

\* The dashboard judges a profile by what happened to it last, in whatever
\* order the goroutines that saw it happen came to write it down.
THEOREM LatestIsShown == RecordsSpec => LatestResultsAreShown
<1>1. RecordsIInv /\ OpeningsIInv /\ [RecordsNext]_recordsVars
        => [Show /\ Loads("telemetry") => \A p \in Profiles :
              LET metric == Shown.metrics[p]
              IN  /\ AllAre(Newest(p, LaunchKinds), "launch_failed") => metric.risk = "high"
                  /\ AllAre(Newest(p, ProxyKinds), "proxy_failed") => ~ metric.healthy /\ metric.risk = "high"
                  /\ AllAre(Newest(p, LaunchKinds), "launch_succeeded")
                     /\ AllAre(Newest(p, ProxyKinds), "proxy_succeeded")
                       => (metric.risk = "high" => p \notin ReadyProfiles)]_recordsVars
  BY LatestResultsShown DEF OpeningsIInv, Show
<1> QED
  BY <1>1, RecordsInductiveInvariant, OpeningsInvariant, PTL DEF RecordsSpec, LatestResultsAreShown

\* An opening is counted once, by its event or by LastLaunchedAt, whenever the
\* dashboard reads the one and the other; and when every opening has its event
\* the number is that of the events in the chart.
THEOREM CountedOnce == RecordsSpec => OpeningsAreCountedOnce
<1>1. RecordsIInv /\ OpeningsIInv /\ [RecordsNext]_recordsVars
        => [Show /\ Loads("telemetry") =>
              /\ Shown.launches <= Cardinality(Countable)
              /\ {o.n : o \in opened} \subseteq {e.n : e \in Range(book["telemetry"].entries)}
                   => Shown.launches =
                        Cardinality({e \in Range(book["telemetry"].entries) :
                                       e.kind = "launch_succeeded" /\ InChart(now, e.at)})]_recordsVars
  BY OpeningsCounted DEF OpeningsIInv, Show
<1> QED
  BY <1>1, RecordsInductiveInvariant, OpeningsInvariant, PTL DEF RecordsSpec, OpeningsAreCountedOnce
=============================================================================
