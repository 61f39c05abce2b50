--------------------------- MODULE ConnectionProofs ---------------------------
(***************************************************************************)
(* Theorems about what a browser is connected to.  ProxyBridge, for any    *)
(* number of tunnels and chunks and any settings: no path of a handler     *)
(* keeps a connection, and while the browser runs a tunnel ends only when  *)
(* all of its stream has been delivered, unless the far side reset its     *)
(* connection.  CdpSession, for any number of targets and any capacity of  *)
(* the event channel: no page goes on without its script unless its        *)
(* goroutine knows or was cut off.                                         *)
(***************************************************************************)
EXTENDS ProxyBridge, CdpSession, SequenceTheorems, TLAPS

USE DEF Dialing, Dialed, Hijacked, Ends

LEMMA InitIInv == Init => IInv
<1> SUFFICES ASSUME Init PROVE IInv
  OBVIOUS
<1> USE SettingsAssumption, MaxChunksAssumption DEF Init
<1>1. TypeOK
  <2>1. stage \in [Tunnels -> Stages] /\ copying \in [Tunnels -> SUBSET {"up", "down"}]
    BY DEF Stages
  <2>2. deadline \in [Tunnels -> BOOLEAN] /\ left \in [Tunnels -> BOOLEAN]
        /\ ended \in [Tunnels -> BOOLEAN] /\ stalled \in [Tunnels -> BOOLEAN]
        /\ reset \in [Tunnels -> BOOLEAN]
    OBVIOUS
  <2>3. sent \in [Tunnels -> 0..MaxChunks] /\ down \in [Tunnels -> 0..MaxChunks]
    OBVIOUS
  <2>4. client \in [Tunnels -> {"server", "hijacked", "closed"}]
        /\ upstream \in [Tunnels -> {"none", "open", "closed"}]
    OBVIOUS
  <2> QED
    BY <2>1, <2>2, <2>3, <2>4 DEF TypeOK
<1>2. HeldByStage /\ ConnectionsAreReleased
  BY DEF HeldByStage, ConnectionsAreReleased
<1>3. WholeWhileOpen /\ ResponsesArriveWhole /\ NothingIsInvented
  BY DEF WholeWhileOpen, ResponsesArriveWhole, NothingIsInvented
<1> QED
  BY <1>1, <1>2, <1>3 DEF IInv

LEMMA GotoKeepsTypes ==
    ASSUME TypeOK, NEW t \in Tunnels, NEW s \in Stages, Goto(t, s)
    PROVE  /\ stage' \in [Tunnels -> Stages] /\ stage'[t] = s
           /\ \A u \in Tunnels \ {t} : stage'[u] = stage[u]
BY DEF TypeOK, Goto

-----------------------------------------------------------------------------
(***************************************************************************)
(* The dial.                                                               *)
(***************************************************************************)
LEMMA DialingKeepsIInv ==
    ASSUME IInv, NEW t \in Tunnels,
           Connect(t) \/ Dial(t) \/ Greet(t) \/ Authenticate(t) \/ Request(t)
    PROVE  IInv'
<1> USE DEF IInv
<1>1. UNCHANGED <<settings, client, tracked, copying, closer, listed, world>>
  BY DEF Connect, Dial, Greet, Authenticate, Request
<1>2. PICK s \in {"connect"} \cup Dialed :
        /\ Goto(t, s)
        /\ \/ /\ stage[t] = "off" /\ s = "connect" /\ UNCHANGED <<upstream, deadline>>
           \/ /\ stage[t] = "connect" /\ s \in {"greet", "request"}
              /\ upstream' = [upstream EXCEPT ![t] = "open"]
              /\ deadline' = [deadline EXCEPT ![t] = TRUE]
           \/ /\ stage[t] \in {"greet", "auth"} /\ s \in {"auth", "request"}
              /\ UNCHANGED <<upstream, deadline>>
           \/ /\ stage[t] = "request" /\ s = "hijack" /\ UNCHANGED upstream
              /\ deadline' = [deadline EXCEPT ![t] = FALSE]
  BY DEF Connect, Dial, Greet, Authenticate, Request
<1>3. /\ stage' \in [Tunnels -> Stages] /\ stage'[t] = s
      /\ \A u \in Tunnels \ {t} : stage'[u] = stage[u]
  BY <1>2, GotoKeepsTypes DEF Stages
<1>4. /\ upstream' \in [Tunnels -> {"none", "open", "closed"}] /\ deadline' \in [Tunnels -> BOOLEAN]
      /\ \A u \in Tunnels \ {t} : upstream'[u] = upstream[u] /\ deadline'[u] = deadline[u]
  BY <1>2 DEF TypeOK
<1>5. TypeOK'
  BY <1>1, <1>3, <1>4 DEF TypeOK, world
<1>6. HeldByStage'
  <2>1. ASSUME NEW u \in Tunnels \ {t}
        PROVE  stage'[u] = stage[u] /\ upstream'[u] = upstream[u] /\ deadline'[u] = deadline[u]
    BY <1>3, <1>4
  <2>2. /\ client[t] # "hijacked" /\ <<t, "client">> \notin tracked
        /\ <<t, "upstream">> \notin tracked /\ <<t, "upstream">> \notin listed
    BY <1>2 DEF HeldByStage, Dialed
  <2>3. stage'[t] = "connect" => upstream'[t] = "none"
    BY <1>2, <1>3 DEF HeldByStage
  <2>4. deadline'[t] => stage'[t] \in Dialed \ {"hijack"}
    <3>1. CASE s = "connect"
      BY <1>2, <3>1 DEF HeldByStage, Dialed
    <3>2. CASE s = "hijack"
      BY <1>2, <3>2 DEF TypeOK
    <3> QED
      BY <1>3, <3>1, <3>2 DEF Dialed
  <2>5. stage'[t] # "off"
    BY <1>3 DEF Dialed
  <2> QED
    BY <1>1, <2>1, <2>2, <2>3, <2>4, <2>5 DEF HeldByStage
<1>7. ConnectionsAreReleased'
  BY <1>1, <1>3, <1>4 DEF ConnectionsAreReleased, world
<1>8. WholeWhileOpen'
  BY <1>1, <1>2, <1>3, <1>4 DEF WholeWhileOpen, TypeOK, world
<1>10. NothingIsInvented'
  BY <1>1 DEF NothingIsInvented, world
<1>9. ResponsesArriveWhole'
  BY <1>1, <1>3 DEF ResponsesArriveWhole, world
<1> QED
  BY <1>5, <1>6, <1>7, <1>8, <1>9, <1>10

LEMMA DialFailsKeepsIInv ==
    ASSUME IInv, NEW t \in Tunnels, DialFails(t)
    PROVE  IInv'
<1> USE DEF IInv
<1>1. /\ UNCHANGED <<settings, client, tracked, copying, closer, listed, world>>
      /\ stage[t] \in Dialing
      /\ upstream' = [upstream EXCEPT ![t] = IF @ = "open" THEN "closed" ELSE @]
      /\ deadline' = [deadline EXCEPT ![t] = FALSE]
  BY DEF DialFails
<1>2. /\ stage' \in [Tunnels -> Stages] /\ stage'[t] = "done"
      /\ \A u \in Tunnels \ {t} : stage'[u] = stage[u]
  BY GotoKeepsTypes DEF DialFails, Stages
<1>3. TypeOK'
  BY <1>1, <1>2 DEF TypeOK, world
<1>4. HeldByStage'
  BY <1>1, <1>2 DEF HeldByStage, TypeOK
<1>5. ConnectionsAreReleased'
  <2>1. stage[t] \notin {"trackUpstream", "copy"}
    BY <1>1
  <2>2. <<t, "client">> \notin tracked /\ <<t, "upstream">> \notin tracked
    BY <2>1 DEF HeldByStage
  <2>3. upstream'[t] # "open" /\ client[t] # "hijacked"
    BY <1>1 DEF HeldByStage, TypeOK
  <2>4. \A u \in Tunnels \ {t} : upstream'[u] = upstream[u]
    BY <1>1 DEF TypeOK
  <2> QED
    BY <1>1, <1>2, <2>2, <2>3, <2>4 DEF ConnectionsAreReleased
<1>6. WholeWhileOpen'
  BY <1>1, <1>2 DEF WholeWhileOpen, TypeOK, world
<1>7. ResponsesArriveWhole'
  BY <1>1, <1>2 DEF ResponsesArriveWhole, WholeWhileOpen, TypeOK, world
<1>8. NothingIsInvented'
  BY <1>1 DEF NothingIsInvented, world
<1> QED
  BY <1>3, <1>4, <1>5, <1>6, <1>7, <1>8

-----------------------------------------------------------------------------
(***************************************************************************)
(* From the hijack to the start of the copies.                             *)
(***************************************************************************)
LEMMA SetUpKeepsIInv ==
    ASSUME IInv, NEW t \in Tunnels, Hijack(t) \/ Answer(t) \/ TrackClient(t) \/ TrackUpstream(t)
    PROVE  IInv'
<1> USE DEF IInv
<1>1. UNCHANGED <<settings, upstream, deadline, closer, listed, world>>
  BY DEF Hijack, Answer, TrackClient, TrackUpstream
<1>2. PICK s \in Hijacked :
        /\ Goto(t, s)
        /\ \/ /\ stage[t] = "hijack" /\ s = "answer" /\ UNCHANGED <<tracked, copying>>
              /\ client' = [client EXCEPT ![t] = IF @ = "server" THEN "hijacked" ELSE @]
           \/ /\ stage[t] = "answer" /\ s = "trackClient" /\ UNCHANGED <<client, tracked, copying>>
           \/ /\ stage[t] = "trackClient" /\ s = "trackUpstream" /\ UNCHANGED <<client, copying>>
              /\ tracked' = tracked \cup {<<t, "client">>}
           \/ /\ stage[t] = "trackUpstream" /\ s = "copy" /\ UNCHANGED client
              /\ tracked' = tracked \cup {<<t, "upstream">>}
              /\ copying' = [copying EXCEPT ![t] = {"up", "down"}]
  BY DEF Hijack, Answer, TrackClient, TrackUpstream
<1>3. /\ stage' \in [Tunnels -> Stages] /\ stage'[t] = s
      /\ \A u \in Tunnels \ {t} : stage'[u] = stage[u]
  BY <1>2, GotoKeepsTypes DEF Stages
<1>4. /\ client' \in [Tunnels -> {"server", "hijacked", "closed"}]
      /\ copying' \in [Tunnels -> SUBSET {"up", "down"}]
      /\ tracked' \subseteq Tunnels \X {"client", "upstream"}
      /\ \A u \in Tunnels \ {t} : client'[u] = client[u] /\ copying'[u] = copying[u]
  BY <1>2 DEF TypeOK
<1>5. TypeOK'
  BY <1>1, <1>3, <1>4 DEF TypeOK, world
<1>6. HeldByStage'
  <2>1. ASSUME NEW u \in Tunnels \ {t}
        PROVE  /\ <<u, "client">> \in tracked' => <<u, "client">> \in tracked
               /\ <<u, "upstream">> \in tracked' => <<u, "upstream">> \in tracked
    BY <1>2
  <2>2. /\ ~ deadline[t]
        /\ <<t, "client">> \in tracked' => s \in {"trackUpstream", "copy"}
        /\ <<t, "upstream">> \in tracked' => s = "copy"
        /\ <<t, "upstream">> \notin listed
    BY <1>2 DEF HeldByStage
  <2> QED
    BY <1>1, <1>3, <1>4, <2>1, <2>2 DEF HeldByStage
<1>7. ConnectionsAreReleased'
  BY <1>1, <1>2, <1>3, <1>4 DEF ConnectionsAreReleased, TypeOK
<1>8. WholeWhileOpen'
  BY <1>1, <1>2, <1>3, <1>4 DEF WholeWhileOpen, TypeOK, world
<1>10. NothingIsInvented'
  BY <1>1 DEF NothingIsInvented, world
<1>9. ResponsesArriveWhole'
  BY <1>1, <1>3, <1>4 DEF ResponsesArriveWhole, world
<1> QED
  BY <1>5, <1>6, <1>7, <1>8, <1>9, <1>10

\* The three ways out after the dial.
LEMMA ReturnKeepsIInv ==
    ASSUME IInv, NEW t \in Tunnels, HijackFails(t) \/ AnswerFails(t) \/ Finish(t)
    PROVE  IInv'
<1> USE DEF IInv
<1>1. /\ UNCHANGED <<settings, deadline, copying, closer, listed, world>>
      /\ upstream' = [upstream EXCEPT ![t] = "closed"]
  BY DEF HijackFails, AnswerFails, Finish
<1>2. \/ /\ stage[t] = "hijack" /\ UNCHANGED <<client, tracked>>
      \/ /\ stage[t] = "answer" /\ (client[t] = "closed" \/ left[t]) /\ UNCHANGED tracked
         /\ client' = [client EXCEPT ![t] = "closed"]
      \/ /\ stage[t] = "copy" /\ copying[t] # {"up", "down"}
         /\ tracked' = tracked \ Ends(t)
         /\ client' = [client EXCEPT ![t] = "closed"]
  BY DEF HijackFails, AnswerFails, Finish
<1>3. /\ stage' \in [Tunnels -> Stages] /\ stage'[t] = "done"
      /\ \A u \in Tunnels \ {t} : stage'[u] = stage[u]
  BY GotoKeepsTypes DEF HijackFails, AnswerFails, Finish, Stages
<1>4. /\ client' \in [Tunnels -> {"server", "hijacked", "closed"}]
      /\ upstream' \in [Tunnels -> {"none", "open", "closed"}]
      /\ \A u \in Tunnels \ {t} : client'[u] = client[u] /\ upstream'[u] = upstream[u]
      /\ upstream'[t] = "closed"
      /\ tracked' \subseteq tracked
      /\ client'[t] # "hijacked" /\ Ends(t) \cap tracked' = {}
  BY <1>1, <1>2 DEF TypeOK, HeldByStage
<1>5. TypeOK'
  BY <1>1, <1>3, <1>4 DEF TypeOK, world
<1>6. HeldByStage'
  <2>1. <<t, "client">> \notin tracked' /\ <<t, "upstream">> \notin tracked'
    BY <1>4
  <2>2. ~ deadline[t]
    BY <1>2 DEF HeldByStage
  <2>3. <<t, "upstream">> \in listed' => stage'[t] \in {"copy", "done"}
    BY <1>3
  <2>4. ASSUME NEW u \in Tunnels \ {t}
        PROVE  /\ stage'[u] = stage[u] /\ client'[u] = client[u] /\ upstream'[u] = upstream[u]
               /\ deadline'[u] = deadline[u] /\ UNCHANGED listed
               /\ <<u, "client">> \in tracked' => <<u, "client">> \in tracked
               /\ <<u, "upstream">> \in tracked' => <<u, "upstream">> \in tracked
    BY <1>1, <1>3, <1>4
  <2>5. stage'[t] = "done" /\ ~ deadline'[t]
    BY <1>1, <1>3, <2>2
  <2> QED
    BY <2>1, <2>3, <2>4, <2>5 DEF HeldByStage, Dialed
<1>7. ConnectionsAreReleased'
  BY <1>3, <1>4 DEF ConnectionsAreReleased
<1>8. WholeWhileOpen'
  BY <1>1, <1>3, <1>4 DEF WholeWhileOpen, world
<1>10. NothingIsInvented'
  BY <1>1 DEF NothingIsInvented, world
<1>9. ResponsesArriveWhole'
  <2>1. closer = "open" /\ client'[t] = "closed" /\ ~ left[t] /\ ~ reset[t] => ended[t] /\ down[t] = 0
    <3> SUFFICES ASSUME closer = "open", client'[t] = "closed", ~ left[t], ~ reset[t]
                 PROVE  ended[t] /\ down[t] = 0
      OBVIOUS
    <3>1. stage[t] = "copy" /\ copying[t] # {"up", "down"}
      BY <1>2 DEF WholeWhileOpen
    <3>2. copying[t] \subseteq {"up", "down"} /\ "up" \in copying[t]
      BY <3>1 DEF WholeWhileOpen, TypeOK
    <3>3. "down" \notin copying[t]
      BY <3>1, <3>2
    <3> QED
      BY <3>1, <3>3 DEF WholeWhileOpen
  <2> QED
    BY <2>1, <1>1, <1>3, <1>4 DEF ResponsesArriveWhole, world
<1> QED
  BY <1>5, <1>6, <1>7, <1>8, <1>9, <1>10

-----------------------------------------------------------------------------
(***************************************************************************)
(* The copies, Close, Chromium and the far side.                           *)
(***************************************************************************)
LEMMA CopiesKeepIInv ==
    ASSUME IInv, NEW t \in Tunnels, Deliver(t) \/ DownEnds(t) \/ UpEnds(t) \/ CopyFails(t)
    PROVE  IInv'
<1> USE MaxChunksAssumption DEF IInv
<1>1. UNCHANGED <<settings, stage, client, upstream, deadline, tracked, closer, listed, exited, left,
                  ended, stalled, reset, sent>>
  BY DEF Deliver, DownEnds, UpEnds, CopyFails, EndCopy, handlers, world
<1>2. \/ /\ down[t] > 0 /\ UNCHANGED copying
         /\ down' = [down EXCEPT ![t] = @ - 1]
      \/ /\ UNCHANGED down
         /\ \/ /\ Gone(t) \/ upstream[t] = "closed" \/ deadline[t] \/ reset[t] \/ (ended[t] /\ down[t] = 0)
               /\ copying' = [copying EXCEPT ![t] = @ \ {"down"}]
            \/ /\ Gone(t) \/ upstream[t] = "closed" \/ reset[t]
               /\ copying' = [copying EXCEPT ![t] = @ \ {"up"}]
  BY DEF Deliver, DownEnds, UpEnds, CopyFails, EndCopy, handlers, world
<1>3. TypeOK'
  BY <1>1, <1>2 DEF TypeOK
<1>4. HeldByStage' /\ ConnectionsAreReleased'
  BY <1>1 DEF HeldByStage, ConnectionsAreReleased
<1>5. WholeWhileOpen'
  <2> SUFFICES ASSUME closer = "open", NEW u \in Tunnels, stage[u] = "copy", ~ left[u], ~ reset[u]
               PROVE  "up" \in copying'[u] /\ ("down" \in copying'[u] \/ (ended[u] /\ down'[u] = 0))
    BY <1>1 DEF WholeWhileOpen
  <2>1. /\ ~ Gone(u) /\ upstream[u] # "closed" /\ ~ deadline[u] /\ "up" \in copying[u]
        /\ "down" \in copying[u] \/ (ended[u] /\ down[u] = 0)
    BY DEF WholeWhileOpen, HeldByStage, Gone
  <2> QED
    BY <1>2, <2>1 DEF TypeOK
<1>6. ResponsesArriveWhole'
  BY <1>1, <1>2 DEF ResponsesArriveWhole, TypeOK
<1>7. NothingIsInvented'
  BY <1>1, <1>2 DEF NothingIsInvented, TypeOK
<1> QED
  BY <1>3, <1>4, <1>5, <1>6, <1>7

LEMMA CloseKeepsIInv ==
    ASSUME IInv, Close
    PROVE  IInv'
<1> USE DEF IInv
<1>1. /\ UNCHANGED <<settings, stage, deadline, tracked, copying, world>>
      /\ closer' \in {"server", "list", "closed"} /\ listed' \in {listed, tracked}
  BY DEF Close, CloseServer, CloseLists, CloseConnections, handlers
<1>2. /\ client' \in [Tunnels -> {"server", "hijacked", "closed"}]
      /\ upstream' \in [Tunnels -> {"none", "open", "closed"}]
      /\ \A t \in Tunnels : client'[t] \in {client[t], "closed"}
  BY DEF Close, CloseServer, CloseLists, CloseConnections, handlers, TypeOK
<1>3. \A t \in Tunnels : upstream'[t] = upstream[t] \/ (upstream'[t] = "closed" /\ <<t, "upstream">> \in listed)
  BY DEF Close, CloseServer, CloseLists, CloseConnections, handlers, TypeOK
<1>4. TypeOK'
  BY <1>1, <1>2 DEF TypeOK, world
<1>5. HeldByStage'
  BY <1>1, <1>2, <1>3 DEF HeldByStage
<1>6. ConnectionsAreReleased'
  BY <1>1, <1>2, <1>3 DEF ConnectionsAreReleased
<1>7. WholeWhileOpen' /\ ResponsesArriveWhole'
  BY <1>1 DEF WholeWhileOpen, ResponsesArriveWhole
<1>8. NothingIsInvented'
  BY <1>1 DEF NothingIsInvented, world
<1> QED
  BY <1>4, <1>5, <1>6, <1>7, <1>8

LEMMA WorldKeepsIInv ==
    ASSUME IInv, Exit \/ \E t \in Tunnels : Leave(t) \/ Send(t) \/ End(t) \/ Stall(t) \/ Reset(t)
    PROVE  IInv'
<1> USE MaxChunksAssumption DEF IInv
<1>1. UNCHANGED <<settings, stage, client, upstream, deadline, tracked, copying, closer, listed>>
  BY DEF Exit, Leave, Send, End, Stall, Reset, handlers
<1>2. HeldByStage' /\ ConnectionsAreReleased'
  BY <1>1 DEF HeldByStage, ConnectionsAreReleased
<1>3. CASE Exit
  <2>1. exited' \in BOOLEAN /\ UNCHANGED <<left, ended, stalled, reset, sent, down>>
    BY <1>3 DEF Exit
  <2> QED
    BY <1>1, <1>2, <2>1 DEF TypeOK, NothingIsInvented, WholeWhileOpen, ResponsesArriveWhole
<1>4. ASSUME NEW t \in Tunnels, Leave(t) \/ Stall(t) \/ Reset(t) PROVE IInv'
  <2>1. /\ UNCHANGED <<exited, ended, sent, down>>
        /\ left' \in [Tunnels -> BOOLEAN] /\ stalled' \in [Tunnels -> BOOLEAN] /\ reset' \in [Tunnels -> BOOLEAN]
        /\ \A u \in Tunnels : (left[u] => left'[u]) /\ (reset[u] => reset'[u])
    BY <1>4 DEF Leave, Stall, Reset, TypeOK
  <2> QED
    BY <1>1, <1>2, <2>1 DEF TypeOK, NothingIsInvented, WholeWhileOpen, ResponsesArriveWhole
<1>5. ASSUME NEW t \in Tunnels, End(t) PROVE IInv'
  <2>1. /\ UNCHANGED <<exited, left, stalled, reset, sent, down>>
        /\ ended' \in [Tunnels -> BOOLEAN]
        /\ \A u \in Tunnels : ended[u] => ended'[u]
    BY <1>5 DEF End, TypeOK
  <2> QED
    BY <1>1, <1>2, <2>1 DEF TypeOK, NothingIsInvented, WholeWhileOpen, ResponsesArriveWhole
<1>6. ASSUME NEW t \in Tunnels, Send(t) PROVE IInv'
  <2>1. /\ UNCHANGED <<exited, left, stalled, reset, ended>>
        /\ ~ ended[t] /\ stage[t] # "done" /\ sent[t] < MaxChunks
        /\ sent' = [sent EXCEPT ![t] = @ + 1] /\ down' = [down EXCEPT ![t] = @ + 1]
    BY <1>6 DEF Send, Reached
  <2>2. sent' \in [Tunnels -> 0..MaxChunks]
    BY <2>1 DEF TypeOK
  <2>3. down' \in [Tunnels -> 0..MaxChunks]
    BY <2>1 DEF TypeOK, NothingIsInvented
  <2>4. TypeOK'
    BY <1>1, <2>1, <2>2, <2>3 DEF TypeOK
  <2>5. NothingIsInvented'
    BY <2>1 DEF TypeOK, NothingIsInvented
  <2>6. WholeWhileOpen' /\ ResponsesArriveWhole'
    BY <1>1, <2>1 DEF TypeOK, WholeWhileOpen, ResponsesArriveWhole
  <2> QED
    BY <1>2, <2>4, <2>5, <2>6
<1> QED
  BY <1>3, <1>4, <1>5, <1>6

-----------------------------------------------------------------------------
(***************************************************************************)
(* The theorems.                                                           *)
(***************************************************************************)
LEMMA NextKeepsIInv == IInv /\ [Next]_vars => IInv'
<1> SUFFICES ASSUME IInv, [Next]_vars PROVE IInv'
  OBVIOUS
<1>1. CASE UNCHANGED vars
  BY <1>1 DEF IInv, TypeOK, HeldByStage, ConnectionsAreReleased, NothingIsInvented, WholeWhileOpen,
       ResponsesArriveWhole,
     vars, handlers, world
<1>2. ASSUME NEW t \in Tunnels, Connect(t) \/ Handler(t) PROVE IInv'
  BY <1>2, DialingKeepsIInv, DialFailsKeepsIInv, SetUpKeepsIInv, ReturnKeepsIInv DEF Handler
<1>3. ASSUME NEW t \in Tunnels, Deliver(t) \/ DownEnds(t) \/ UpEnds(t) \/ CopyFails(t) PROVE IInv'
  BY <1>3, CopiesKeepIInv
<1>4. CASE Close
  BY <1>4, CloseKeepsIInv
<1>5. CASE Exit \/ \E t \in Tunnels : Leave(t) \/ Send(t) \/ End(t) \/ Stall(t) \/ Reset(t)
  BY <1>5, WorldKeepsIInv
<1> QED
  BY <1>1, <1>2, <1>3, <1>4, <1>5 DEF Next, Rest

\* The invariant holds in every reachable state.
THEOREM InductiveInvariant == Spec => []IInv
BY InitIInv, NextKeepsIInv, PTL DEF Spec

\* The bridge's variables keep their types.
THEOREM TypeCorrect == Spec => []TypeOK
BY InductiveInvariant, PTL DEF IInv

\* A handler that has returned keeps no connection and no entry of the map.
THEOREM NothingIsKept == Spec => []ConnectionsAreReleased
BY InductiveInvariant, PTL DEF IInv

\* While the browser runs, a tunnel whose far side did not reset its
\* connection ends only with its stream delivered.
THEOREM NothingIsCut == Spec => []ResponsesArriveWhole
BY InductiveInvariant, PTL DEF IInv

-----------------------------------------------------------------------------
(***************************************************************************)
(* The DevTools session.                                                   *)
(***************************************************************************)
USE DEF Calls, NoCall

LEMMA CdpInitIInv == CdpInit => CdpIInv
<1> SUFFICES ASSUME CdpInit PROVE CdpIInv
  OBVIOUS
<1> USE EventCapAssumption DEF CdpInit
<1>1. wire \in Seq(Messages) /\ events \in Seq(Targets) /\ Len(wire) = 0 /\ Len(events) = 0
  BY EmptySeq
<1>2. CdpTypeOK
  <2>1. /\ tab \in [Targets -> {"none", "paused", "running", "closed"}]
        /\ inbox \in [Targets -> Calls \cup {NoCall}]
        /\ pc \in [Targets -> Calls \cup {"none", "finished"}]
    OBVIOUS
  <2>2. Len(events) <= EventCap
    BY <1>1
  <2>3. waits \subseteq {t \in Targets : pc[t] \in Calls}
    OBVIOUS
  <2> QED
    BY <1>1, <2>1, <2>2, <2>3 DEF CdpTypeOK
<1>3. OneCallAtATime /\ AnswersAreTrue /\ GoroutineKnows
  BY <1>1 DEF OneCallAtATime, AnswersAreTrue, GoroutineKnows, Cut
<1> QED
  BY <1>2, <1>3 DEF CdpIInv

\* The messages Chromium sends.
LEMMA MessageFields ==
    /\ \A t \in Targets : Attached(t) \in Messages /\ Attached(t).kind = "attached"
    /\ \A t \in Targets, c \in Calls, ok \in BOOLEAN :
          /\ Reply(t, c, ok) \in Messages /\ Reply(t, c, ok).kind = "reply"
          /\ Reply(t, c, ok).target = t /\ Reply(t, c, ok).call = c /\ Reply(t, c, ok).ok = ok
    /\ \A m \in Messages :
          /\ m.target \in Targets
          /\ m.kind = "reply" => m.call \in Calls /\ m.ok \in BOOLEAN
<1>1. \A t \in Targets : Attached(t) \in Messages /\ Attached(t).kind = "attached"
  BY DEF Messages, Attached
<1>2. \A t \in Targets, c \in Calls, ok \in BOOLEAN :
        /\ Reply(t, c, ok) \in Messages /\ Reply(t, c, ok).kind = "reply"
        /\ Reply(t, c, ok).target = t /\ Reply(t, c, ok).call = c /\ Reply(t, c, ok).ok = ok
  BY DEF Messages, Reply
<1>3. ASSUME NEW m \in Messages
      PROVE  m.target \in Targets /\ (m.kind = "reply" => m.call \in Calls /\ m.ok \in BOOLEAN)
  BY <1>3 DEF Messages, Attached, Reply
<1> QED
  BY <1>1, <1>2, <1>3

-----------------------------------------------------------------------------
(***************************************************************************)
(* Chromium.                                                               *)
(***************************************************************************)
LEMMA OpenTargetKeepsIInv ==
    ASSUME CdpIInv, NEW u \in Targets, OpenTarget(u)
    PROVE  CdpIInv'
<1> USE DEF CdpIInv
<1>1. /\ tab[u] = "none" /\ tab' = [tab EXCEPT ![u] = "paused"] /\ wire' = Append(wire, Attached(u))
      /\ UNCHANGED <<alive, scripted, inbox, events, done, reader, loop, pc, waits, bad, expired, close>>
  BY DEF OpenTarget, cdpClient, goroutines
<1>2. /\ wire' \in Seq(Messages) /\ Len(wire') = Len(wire) + 1 /\ Len(wire) \in Nat
      /\ \A i \in 1..Len(wire) : wire'[i] = wire[i]
      /\ wire'[Len(wire) + 1].kind = "attached"
  <2>1. Attached(u) \in Messages /\ Attached(u).kind = "attached"
    BY MessageFields
  <2>2. wire \in Seq(Messages)
    BY DEF CdpTypeOK
  <2>3. /\ wire' \in Seq(Messages) /\ Len(wire') = Len(wire) + 1
        /\ \A i \in 1..Len(wire) : wire'[i] = wire[i]
        /\ wire'[Len(wire) + 1] = Attached(u)
    BY <1>1, <2>1, <2>2, AppendProperties
  <2> QED
    BY <2>1, <2>2, <2>3
<1>3. CdpTypeOK'
  BY <1>1, <1>2 DEF CdpTypeOK
<1>4. \A i \in 1..Len(wire') : wire'[i].kind = "reply" => i \in 1..Len(wire) /\ wire'[i] = wire[i]
  BY <1>2
<1>5. OneCallAtATime'
  BY <1>1, <1>2, <1>4 DEF OneCallAtATime, IsReply, Cut
<1>6. AnswersAreTrue'
  BY <1>1, <1>2, <1>4 DEF AnswersAreTrue, IsReply, Cut, CdpTypeOK
<1>7. GoroutineKnows'
  BY <1>1 DEF GoroutineKnows, Cut, CdpTypeOK
<1> QED
  BY <1>3, <1>5, <1>6, <1>7

LEMMA RespondKeepsIInv ==
    ASSUME CdpIInv, NEW u \in Targets, Respond(u)
    PROVE  CdpIInv'
<1> USE DEF CdpIInv
<1>1. PICK ok \in BOOLEAN :
        /\ inbox[u] = "close" => ok
        /\ wire' = Append(wire, Reply(u, inbox[u], ok))
        /\ scripted' = IF ok /\ inbox[u] = "script" THEN scripted \cup {u} ELSE scripted
        /\ tab' = IF ok /\ inbox[u] = "resume" THEN [tab EXCEPT ![u] = "running"]
                  ELSE IF ok /\ inbox[u] = "close" THEN [tab EXCEPT ![u] = "closed"]
                  ELSE tab
  BY DEF Respond
<1>2. /\ inbox[u] \in Calls /\ inbox' = [inbox EXCEPT ![u] = NoCall]
      /\ UNCHANGED <<alive, events, done, reader, loop, pc, waits, bad, expired, close>>
  BY DEF Respond, CdpTypeOK, cdpClient, goroutines
<1>3. /\ wire' \in Seq(Messages) /\ Len(wire') = Len(wire) + 1 /\ Len(wire) \in Nat
      /\ \A i \in 1..Len(wire) : wire'[i] = wire[i]
      /\ wire'[Len(wire) + 1] = Reply(u, inbox[u], ok)
  <2>1. Reply(u, inbox[u], ok) \in Messages
    BY <1>2, MessageFields
  <2>2. wire \in Seq(Messages)
    BY DEF CdpTypeOK
  <2> QED
    BY <1>1, <2>1, <2>2, AppendProperties
<1>4. CdpTypeOK'
  BY <1>1, <1>2, <1>3 DEF CdpTypeOK
<1>5. /\ wire'[Len(wire) + 1].kind = "reply" /\ wire'[Len(wire) + 1].target = u
      /\ wire'[Len(wire) + 1].call = inbox[u] /\ wire'[Len(wire) + 1].ok = ok
  <2>1. /\ Reply(u, inbox[u], ok).kind = "reply" /\ Reply(u, inbox[u], ok).target = u
        /\ Reply(u, inbox[u], ok).call = inbox[u] /\ Reply(u, inbox[u], ok).ok = ok
    BY DEF Reply
  <2> QED
    BY <1>3, <2>1
<1>6. \A t \in Targets : Cut(t)' <=> Cut(t)
  BY <1>2 DEF Cut
<1>7. /\ inbox'[u] = NoCall
      /\ \A t \in Targets \ {u} : inbox'[t] = inbox[t] /\ tab'[t] = tab[t] /\ (t \in scripted' <=> t \in scripted)
  BY <1>1, <1>2 DEF CdpTypeOK
<1>8. ~ Cut(u) => /\ u \in waits /\ pc[u] = inbox[u]
                  /\ \A i \in 1..Len(wire) : ~ IsReply(i, u)
  BY <1>2 DEF OneCallAtATime
<1>9. \A i \in 1..Len(wire') : i = Len(wire) + 1 \/ (i \in 1..Len(wire) /\ wire'[i] = wire[i])
  BY <1>3
<1>10. ASSUME NEW t \in Targets, ~ Cut(t)
       PROVE  /\ inbox'[t] # NoCall => t \in waits /\ pc[t] = inbox'[t]
              /\ \A i \in 1..Len(wire') : wire'[i].kind = "reply" /\ wire'[i].target = t =>
                   /\ t \in waits /\ inbox'[t] = NoCall /\ pc[t] = wire'[i].call
                   /\ wire'[i].call = "script" /\ wire'[i].ok => t \in scripted'
                   /\ wire'[i].call = "close" => tab'[t] = "closed"
                   /\ \A j \in 1..Len(wire') : wire'[j].kind = "reply" /\ wire'[j].target = t => j = i
  <2>1. CASE t = u
    <3>1. \A i \in 1..Len(wire') : wire'[i].kind = "reply" /\ wire'[i].target = u => i = Len(wire) + 1
      BY <1>8, <1>9, <1>10, <2>1 DEF IsReply
    <3>2. inbox[u] = "script" /\ ok => u \in scripted'
      BY <1>1
    <3>3. inbox[u] = "close" => tab'[u] = "closed"
      BY <1>1 DEF CdpTypeOK
    <3> QED
      BY <1>5, <1>7, <1>8, <1>10, <2>1, <3>1, <3>2, <3>3
  <2>2. CASE t # u
    <3>1. \A i \in 1..Len(wire') : wire'[i].kind = "reply" /\ wire'[i].target = t =>
            i \in 1..Len(wire) /\ IsReply(i, t) /\ wire'[i] = wire[i]
      BY <1>5, <1>9, <2>2 DEF IsReply
    <3> QED
      BY <1>7, <1>10, <2>2, <3>1 DEF OneCallAtATime, AnswersAreTrue
  <2> QED
    BY <2>1, <2>2
<1>11. OneCallAtATime'
  BY <1>2, <1>6, <1>10 DEF OneCallAtATime, IsReply
<1>12. AnswersAreTrue'
  BY <1>2, <1>6, <1>10 DEF AnswersAreTrue, IsReply
<1>13. GoroutineKnows'
  <2>1. ~ Cut(u) => (tab'[u] = "running" => pc[u] \in {"resume", "close", "finished"})
    BY <1>1, <1>8 DEF GoroutineKnows, CdpTypeOK
  <2>2. ~ Cut(u) => pc[u] # "finished"
    BY <1>2, <1>8
  <2>3. scripted \subseteq scripted'
    BY <1>1
  <2> QED
    BY <1>2, <1>6, <1>7, <2>1, <2>2, <2>3 DEF GoroutineKnows
<1> QED
  BY <1>4, <1>11, <1>12, <1>13

\* When Chromium ends every target is cut off; likewise when the connection is
\* closed, and the goroutine whose time is over.
LEMMA CutOffKeepsIInv ==
    ASSUME CdpIInv, ChromiumEnds \/ ReaderEnds \/ CloseClient \/ \E t \in Targets : Expire(t)
    PROVE  CdpIInv'
<1> USE DEF CdpIInv
<1>1. UNCHANGED <<scripted, wire, events, loop, pc, waits, bad>>
  BY DEF ChromiumEnds, ReaderEnds, CloseClient, Expire, chromium, cdpClient, goroutines
<1>2. CASE ChromiumEnds
  <2>1. /\ ~ alive' /\ alive' \in BOOLEAN /\ UNCHANGED <<done, reader, expired, close>>
        /\ tab' \in [Targets -> {"none", "paused", "running", "closed"}]
        /\ inbox' \in [Targets -> Calls \cup {NoCall}]
    BY <1>2 DEF ChromiumEnds, cdpClient, goroutines
  <2>2. CdpTypeOK'
    BY <1>1, <2>1 DEF CdpTypeOK
  <2>3. \A t \in Targets : Cut(t)'
    BY <2>1 DEF Cut
  <2> QED
    BY <1>1, <2>1, <2>2, <2>3 DEF OneCallAtATime, AnswersAreTrue, GoroutineKnows
<1>3. CASE ReaderEnds \/ CloseClient
  <2>1. /\ done' /\ done' \in BOOLEAN /\ reader' \in BOOLEAN /\ (reader' => reader)
        /\ close' = close \/ (close = "marked" /\ close' = "client")
        /\ UNCHANGED <<alive, tab, inbox, expired>>
    <3>1. CASE ReaderEnds
      <4>1. reader' = FALSE /\ done' = TRUE /\ UNCHANGED close
        BY <3>1 DEF ReaderEnds
      <4> QED
        BY <3>1, <4>1 DEF ReaderEnds, chromium, goroutines
    <3>2. CASE CloseClient
      <4>1. done' = TRUE /\ UNCHANGED reader /\ reader \in BOOLEAN
        BY <3>2 DEF CloseClient, CdpTypeOK
      <4> QED
        BY <3>2, <4>1 DEF CloseClient, chromium, goroutines
    <3> QED
      BY <1>3, <3>1, <3>2
  <2>2. CdpTypeOK'
    BY <1>1, <2>1 DEF CdpTypeOK
  <2>3. \A t \in Targets : Cut(t)'
    BY <2>1 DEF Cut
  <2> QED
    BY <2>2, <2>3 DEF OneCallAtATime, AnswersAreTrue, GoroutineKnows
<1>4. ASSUME NEW u \in Targets, Expire(u) PROVE CdpIInv'
  <2>1. expired' = expired \cup {u} /\ UNCHANGED <<alive, tab, inbox, done, reader, close>>
    BY <1>4 DEF Expire, chromium, cdpClient
  <2>2. CdpTypeOK'
    BY <1>1, <2>1 DEF CdpTypeOK
  <2>3. \A t \in Targets : ~ Cut(t)' => ~ Cut(t)
    BY <2>1 DEF Cut
  <2> QED
    BY <1>1, <2>1, <2>2, <2>3
       DEF OneCallAtATime, AnswersAreTrue, GoroutineKnows, IsReply
<1> QED
  BY <1>2, <1>3, <1>4

-----------------------------------------------------------------------------
(***************************************************************************)
(* The goroutines of the targets.                                          *)
(***************************************************************************)
LEMMA SendCallKeepsIInv ==
    ASSUME CdpIInv, NEW u \in Targets, SendCall(u)
    PROVE  CdpIInv'
<1> USE DEF CdpIInv
<1>1. /\ pc[u] \in Calls /\ u \notin waits /\ waits' = waits \cup {u}
      /\ inbox' = IF alive THEN [inbox EXCEPT ![u] = pc[u]] ELSE inbox
      /\ UNCHANGED <<alive, tab, scripted, wire, events, done, reader, loop, pc, bad, expired, close>>
  BY DEF SendCall, cdpClient
<1>2. CdpTypeOK'
  BY <1>1 DEF CdpTypeOK
<1>3. \A t \in Targets : Cut(t)' <=> Cut(t)
  BY <1>1 DEF Cut
<1>4. ~ Cut(u) => inbox'[u] = pc[u] /\ \A i \in 1..Len(wire) : ~ IsReply(i, u)
  BY <1>1 DEF OneCallAtATime, Cut, CdpTypeOK
<1>5. \A t \in Targets \ {u} : inbox'[t] = inbox[t]
  BY <1>1 DEF CdpTypeOK
<1>6. OneCallAtATime'
  BY <1>1, <1>3, <1>4, <1>5 DEF OneCallAtATime, IsReply
<1>7. AnswersAreTrue' /\ GoroutineKnows'
  BY <1>1, <1>3 DEF AnswersAreTrue, GoroutineKnows, IsReply
<1> QED
  BY <1>2, <1>6, <1>7

\* A call that returned: what follows it.
LEMMA AdvanceResult ==
    ASSUME CdpTypeOK, NEW u \in Targets, pc[u] \in Calls, NEW ok \in BOOLEAN, Advance(u, ok)
    PROVE  /\ waits' = waits \ {u} /\ bad' = (IF ok THEN bad ELSE bad \cup {u})
           /\ pc' \in [Targets -> Calls \cup {"none", "finished"}]
           /\ \A t \in Targets \ {u} : pc'[t] = pc[t]
           /\ \/ pc[u] = "script" /\ pc'[u] = "autoAttach"
              \/ pc[u] = "autoAttach" /\ pc'[u] = "resume"
              \/ pc[u] = "resume" /\ u \in bad' /\ pc'[u] = "close"
              \/ pc[u] = "resume" /\ u \notin bad' /\ pc'[u] = "finished"
              \/ pc[u] = "close" /\ pc'[u] = "finished"
BY DEF CdpTypeOK, Advance, NextCall

\* A call that was refused or given up: its goroutine was cut off before.
LEMMA GivingUpKeepsIInv ==
    ASSUME CdpIInv, NEW u \in Targets, Refuse(u) \/ GiveUp(u)
    PROVE  CdpIInv'
<1> USE DEF CdpIInv
<1>1. /\ pc[u] \in Calls /\ Cut(u) /\ Advance(u, FALSE)
      /\ UNCHANGED <<alive, tab, scripted, inbox, wire, events, done, reader, loop, expired, close>>
  BY DEF Refuse, GiveUp, Cut, CdpTypeOK, chromium, cdpClient
<1>2. /\ waits' = waits \ {u} /\ bad' = bad \cup {u}
      /\ pc' \in [Targets -> Calls \cup {"none", "finished"}]
      /\ \A t \in Targets \ {u} : pc'[t] = pc[t]
  BY <1>1, AdvanceResult
<1>3. CdpTypeOK'
  BY <1>1, <1>2 DEF CdpTypeOK
<1>4. \A t \in Targets : ~ Cut(t)' => t # u /\ ~ Cut(t)
  BY <1>1 DEF Cut
<1>5. OneCallAtATime' /\ AnswersAreTrue'
  BY <1>1, <1>2, <1>4 DEF OneCallAtATime, AnswersAreTrue, IsReply
<1>6. GoroutineKnows'
  BY <1>1, <1>2, <1>4 DEF GoroutineKnows
<1> QED
  BY <1>3, <1>5, <1>6

-----------------------------------------------------------------------------
(***************************************************************************)
(* The reader, the event loop and Close.                                   *)
(***************************************************************************)
LEMMA ReadReplyKeepsIInv ==
    ASSUME CdpIInv, ReadReply
    PROVE  CdpIInv'
<1> USE DEF CdpIInv
<1> DEFINE m == Head(wire)
           u == m.target
<1>1. /\ wire # <<>> /\ m.kind = "reply" /\ wire' = Tail(wire)
      /\ UNCHANGED <<alive, tab, scripted, inbox, events, done, reader, loop, expired, close>>
  BY DEF ReadReply, chromium, cdpClient
<1>2. /\ m \in Messages /\ m = wire[1] /\ 1 \in 1..Len(wire)
      /\ wire' \in Seq(Messages) /\ Len(wire') = Len(wire) - 1 /\ Len(wire) \in Nat
      /\ \A i \in 1..Len(wire') : wire'[i] = wire[i + 1] /\ i + 1 \in 1..Len(wire)
  BY <1>1, HeadTailProperties, EmptySeq DEF CdpTypeOK
<1>3. u \in Targets /\ m.call \in Calls /\ m.ok \in BOOLEAN /\ IsReply(1, u)
  BY <1>1, <1>2, MessageFields DEF IsReply
<1>4. \A t \in Targets : Cut(t)' <=> Cut(t)
  BY <1>1 DEF Cut
<1>5. \A t \in Targets, i \in 1..Len(wire') :
        wire'[i].kind = "reply" /\ wire'[i].target = t => IsReply(i + 1, t) /\ wire'[i] = wire[i + 1]
  BY <1>2 DEF IsReply
<1>6. ~ Cut(u) => \A i \in 1..Len(wire') : ~ (wire'[i].kind = "reply" /\ wire'[i].target = u)
  BY <1>2, <1>3, <1>5 DEF OneCallAtATime
<1>7. CASE u \in waits /\ pc[u] = m.call
  <2>1. Advance(u, m.ok)
    BY <1>7 DEF ReadReply
  <2>2. /\ waits' = waits \ {u} /\ bad' = (IF m.ok THEN bad ELSE bad \cup {u})
        /\ pc' \in [Targets -> Calls \cup {"none", "finished"}]
        /\ \A t \in Targets \ {u} : pc'[t] = pc[t]
        /\ \/ pc[u] = "script" /\ pc'[u] = "autoAttach"
           \/ pc[u] = "autoAttach" /\ pc'[u] = "resume"
           \/ pc[u] = "resume" /\ u \in bad' /\ pc'[u] = "close"
           \/ pc[u] = "resume" /\ u \notin bad' /\ pc'[u] = "finished"
           \/ pc[u] = "close" /\ pc'[u] = "finished"
    BY <1>3, <1>7, <2>1, AdvanceResult
  <2>3. CdpTypeOK'
    BY <1>1, <1>2, <1>3, <2>2 DEF CdpTypeOK
  <2>4. OneCallAtATime'
    <3> SUFFICES ASSUME NEW t \in Targets, ~ Cut(t)
                 PROVE  /\ inbox[t] # NoCall => t \in waits' /\ pc'[t] = inbox[t]
                        /\ \A i \in 1..Len(wire') : wire'[i].kind = "reply" /\ wire'[i].target = t =>
                             /\ t \in waits' /\ inbox[t] = NoCall /\ pc'[t] = wire'[i].call
                             /\ \A j \in 1..Len(wire') : wire'[j].kind = "reply" /\ wire'[j].target = t => j = i
      BY <1>1, <1>4 DEF OneCallAtATime, IsReply
    <3>1. CASE t = u
      BY <1>2, <1>3, <1>6, <3>1 DEF OneCallAtATime
    <3>2. CASE t # u
      <4>1. inbox[t] # NoCall => t \in waits' /\ pc'[t] = inbox[t]
        BY <2>2, <3>2 DEF OneCallAtATime
      <4>2. ASSUME NEW i \in 1..Len(wire'), wire'[i].kind = "reply", wire'[i].target = t
            PROVE  /\ t \in waits' /\ inbox[t] = NoCall /\ pc'[t] = wire'[i].call
                   /\ \A j \in 1..Len(wire') : wire'[j].kind = "reply" /\ wire'[j].target = t => j = i
        <5>1. IsReply(i + 1, t) /\ wire'[i] = wire[i + 1] /\ i + 1 \in 1..Len(wire)
          BY <1>2, <1>5, <4>2
        <5>2. t \in waits /\ inbox[t] = NoCall /\ pc[t] = wire[i + 1].call
          BY <5>1 DEF OneCallAtATime
        <5>3. ASSUME NEW j \in 1..Len(wire'), wire'[j].kind = "reply", wire'[j].target = t
              PROVE  j = i
          <6>1. IsReply(j + 1, t) /\ j + 1 \in 1..Len(wire)
            BY <1>2, <1>5, <5>3
          <6>2. j + 1 = i + 1
            BY <5>1, <6>1 DEF OneCallAtATime
          <6> QED
            BY <6>2
        <5> QED
          BY <2>2, <3>2, <5>1, <5>2, <5>3
      <4> QED
        BY <4>1, <4>2
    <3> QED
      BY <3>1, <3>2
  <2>5. AnswersAreTrue'
    BY <1>1, <1>2, <1>4, <1>5 DEF AnswersAreTrue, IsReply
  <2>6. GoroutineKnows'
    <3>1. ~ Cut(u) => /\ m.call = "script" /\ m.ok => u \in scripted
                      /\ m.call = "close" => tab[u] = "closed"
      BY <1>2, <1>3 DEF AnswersAreTrue
    <3>2. ~ Cut(u) => /\ tab[u] = "running" => pc'[u] \in {"resume", "close", "finished"}
                      /\ u \in scripted \cup bad'
                      /\ pc'[u] = "finished" /\ u \in bad' => tab[u] = "closed"
      BY <1>3, <1>7, <2>2, <3>1 DEF GoroutineKnows
    <3>3. \A t \in Targets \ {u} : t \in bad' <=> t \in bad
      BY <2>2
    <3> QED
      BY <1>1, <1>4, <2>2, <3>2, <3>3 DEF GoroutineKnows
  <2> QED
    BY <2>3, <2>4, <2>5, <2>6
<1>8. CASE ~ (u \in waits /\ pc[u] = m.call)
  <2>1. UNCHANGED <<pc, waits, bad>>
    BY <1>8 DEF ReadReply
  <2>2. Cut(u)
    BY <1>2, <1>3, <1>8 DEF OneCallAtATime
  <2>3. CdpTypeOK'
    BY <1>1, <1>2, <2>1 DEF CdpTypeOK
  <2>4. OneCallAtATime'
    <3> SUFFICES ASSUME NEW t \in Targets, ~ Cut(t)
                 PROVE  \A i \in 1..Len(wire') : wire'[i].kind = "reply" /\ wire'[i].target = t =>
                          /\ t \in waits /\ inbox[t] = NoCall /\ pc[t] = wire'[i].call
                          /\ \A j \in 1..Len(wire') : wire'[j].kind = "reply" /\ wire'[j].target = t => j = i
      BY <1>1, <1>4, <2>1 DEF OneCallAtATime, IsReply
    <3> SUFFICES ASSUME NEW i \in 1..Len(wire'), wire'[i].kind = "reply", wire'[i].target = t
                 PROVE  /\ t \in waits /\ inbox[t] = NoCall /\ pc[t] = wire'[i].call
                        /\ \A j \in 1..Len(wire') : wire'[j].kind = "reply" /\ wire'[j].target = t => j = i
      OBVIOUS
    <3>1. IsReply(i + 1, t) /\ wire'[i] = wire[i + 1] /\ i + 1 \in 1..Len(wire)
      BY <1>2, <1>5
    <3>2. t \in waits /\ inbox[t] = NoCall /\ pc[t] = wire[i + 1].call
      BY <3>1 DEF OneCallAtATime
    <3>3. ASSUME NEW j \in 1..Len(wire'), wire'[j].kind = "reply", wire'[j].target = t
          PROVE  j = i
      <4>1. IsReply(j + 1, t) /\ j + 1 \in 1..Len(wire)
        BY <1>2, <1>5, <3>3
      <4>2. j + 1 = i + 1
        BY <3>1, <4>1 DEF OneCallAtATime
      <4> QED
        BY <4>2
    <3> QED
      BY <3>1, <3>2, <3>3
  <2>5. AnswersAreTrue'
    BY <1>1, <1>2, <1>4, <1>5 DEF AnswersAreTrue, IsReply
  <2>6. GoroutineKnows'
    BY <1>1, <1>4, <2>1 DEF GoroutineKnows
  <2> QED
    BY <2>3, <2>4, <2>5, <2>6
<1> QED
  BY <1>7, <1>8

LEMMA ReadEventKeepsIInv ==
    ASSUME CdpIInv, ReadEvent
    PROVE  CdpIInv'
<1> USE EventCapAssumption DEF CdpIInv
<1>1. /\ wire # <<>> /\ Head(wire).kind = "attached" /\ wire' = Tail(wire)
      /\ Len(events) < EventCap /\ events' = Append(events, Head(wire).target)
      /\ UNCHANGED <<alive, tab, scripted, inbox, done, reader, loop, pc, waits, bad, expired, close>>
  BY DEF ReadEvent, chromium, goroutines
<1>2. /\ Head(wire) \in Messages
      /\ wire' \in Seq(Messages) /\ Len(wire') = Len(wire) - 1 /\ Len(wire) \in Nat
      /\ \A i \in 1..Len(wire') : wire'[i] = wire[i + 1] /\ i + 1 \in 1..Len(wire)
  BY <1>1, HeadTailProperties, EmptySeq DEF CdpTypeOK
<1>3. events' \in Seq(Targets) /\ Len(events') = Len(events) + 1
  BY <1>1, <1>2, MessageFields, AppendProperties DEF CdpTypeOK
<1>4. CdpTypeOK'
  BY <1>1, <1>2, <1>3 DEF CdpTypeOK
<1>5. \A t \in Targets : Cut(t)' <=> Cut(t)
  BY <1>1 DEF Cut
<1>6. OneCallAtATime'
  <2>4. ASSUME NEW t \in Targets, ~ Cut(t)
        PROVE  inbox'[t] # NoCall => t \in waits' /\ pc'[t] = inbox'[t]
    BY <1>1, <2>4 DEF OneCallAtATime
  <2> SUFFICES ASSUME NEW t \in Targets, ~ Cut(t), NEW i \in 1..Len(wire'),
                      wire'[i].kind = "reply", wire'[i].target = t
               PROVE  /\ t \in waits' /\ inbox'[t] = NoCall /\ pc'[t] = wire'[i].call
                      /\ \A j \in 1..Len(wire') : wire'[j].kind = "reply" /\ wire'[j].target = t => j = i
    BY <1>5, <2>4 DEF OneCallAtATime, IsReply
  <2>1. IsReply(i + 1, t) /\ wire'[i] = wire[i + 1] /\ i + 1 \in 1..Len(wire)
    BY <1>2 DEF IsReply
  <2>2. t \in waits /\ inbox[t] = NoCall /\ pc[t] = wire[i + 1].call
    BY <2>1 DEF OneCallAtATime
  <2>3. ASSUME NEW j \in 1..Len(wire'), wire'[j].kind = "reply", wire'[j].target = t
        PROVE  j = i
    <3>1. IsReply(j + 1, t) /\ j + 1 \in 1..Len(wire)
      BY <1>2, <2>3 DEF IsReply
    <3>2. j + 1 = i + 1
      BY <2>1, <3>1 DEF OneCallAtATime
    <3> QED
      BY <3>2
  <2> QED
    BY <1>1, <2>1, <2>2, <2>3
<1>7. AnswersAreTrue'
  BY <1>1, <1>2, <1>5 DEF AnswersAreTrue, IsReply
<1>8. GoroutineKnows'
  BY <1>1, <1>5 DEF GoroutineKnows
<1> QED
  BY <1>4, <1>6, <1>7, <1>8

LEMMA TakeEventKeepsIInv ==
    ASSUME CdpIInv, TakeEvent
    PROVE  CdpIInv'
<1> USE EventCapAssumption DEF CdpIInv
<1>1. /\ loop /\ events # <<>> /\ events' = Tail(events)
      /\ pc' = IF close = "open" /\ pc[Head(events)] = "none" THEN [pc EXCEPT ![Head(events)] = "script"] ELSE pc
      /\ UNCHANGED <<alive, tab, scripted, inbox, wire, done, reader, loop, waits, bad, expired, close>>
  BY DEF TakeEvent, chromium
<1>2. Head(events) \in Targets /\ events' \in Seq(Targets) /\ Len(events') = Len(events) - 1
      /\ Len(events) \in Nat
  BY <1>1, HeadTailProperties, EmptySeq DEF CdpTypeOK
<1>3. CdpTypeOK'
  BY <1>1, <1>2 DEF CdpTypeOK
<1>4. \A t \in Targets : Cut(t)' <=> Cut(t)
  BY <1>1 DEF Cut
<1>5. \A t \in Targets : pc'[t] = pc[t] \/ (pc[t] = "none" /\ pc'[t] = "script" /\ t \notin waits)
  BY <1>1, <1>2 DEF CdpTypeOK
<1>6. OneCallAtATime'
  BY <1>1, <1>4, <1>5 DEF OneCallAtATime, IsReply
<1>7. AnswersAreTrue'
  BY <1>1, <1>4 DEF AnswersAreTrue, IsReply
<1>8. GoroutineKnows'
  BY <1>1, <1>4, <1>5 DEF GoroutineKnows
<1> QED
  BY <1>3, <1>6, <1>7, <1>8

LEMMA EndsKeepIInv ==
    ASSUME CdpIInv, LoopEnds \/ CloseMarks \/ CloseReturns
    PROVE  CdpIInv'
<1> USE DEF CdpIInv
<1>1. UNCHANGED <<alive, tab, scripted, inbox, wire, events, done, reader, pc, waits, bad, expired>>
  BY DEF LoopEnds, CloseMarks, CloseReturns, chromium, cdpClient, goroutines
<1>2. /\ loop' \in BOOLEAN /\ close' \in {"open", "marked", "client", "closed"}
      /\ loop' => loop
      /\ close' = "closed" => close = "closed" \/
           (~ reader /\ ~ loop /\ \A t \in Targets : pc[t] \notin Calls)
  <2>1. CASE LoopEnds
    BY <2>1 DEF LoopEnds, CdpTypeOK
  <2>2. CASE CloseMarks
    BY <2>2 DEF CloseMarks, CdpTypeOK
  <2>3. CASE CloseReturns
    BY <2>3 DEF CloseReturns, CdpTypeOK
  <2> QED
    BY <2>1, <2>2, <2>3
<1>3. CdpTypeOK'
  BY <1>1, <1>2 DEF CdpTypeOK
<1>4. OneCallAtATime' /\ AnswersAreTrue' /\ GoroutineKnows'
  BY <1>1 DEF OneCallAtATime, AnswersAreTrue, GoroutineKnows, IsReply, Cut
<1> QED
  BY <1>3, <1>4

-----------------------------------------------------------------------------
(***************************************************************************)
(* The theorems.                                                           *)
(***************************************************************************)
LEMMA CdpNextKeepsIInv == CdpIInv /\ [CdpNext]_cdpVars => CdpIInv'
<1> SUFFICES ASSUME CdpIInv, [CdpNext]_cdpVars PROVE CdpIInv'
  OBVIOUS
<1>1. CASE UNCHANGED cdpVars
  BY <1>1 DEF CdpIInv, CdpTypeOK, OneCallAtATime, AnswersAreTrue, GoroutineKnows,
     IsReply, Cut, cdpVars, chromium, cdpClient, goroutines
<1>2. ASSUME NEW t \in Targets, OpenTarget(t) \/ Respond(t) \/ Protector(t) \/ Expire(t) PROVE CdpIInv'
  BY <1>2, OpenTargetKeepsIInv, RespondKeepsIInv, SendCallKeepsIInv, GivingUpKeepsIInv, CutOffKeepsIInv
     DEF Protector
<1>3. CASE ChromiumEnds \/ Reader
  BY <1>3, CutOffKeepsIInv, ReadReplyKeepsIInv, ReadEventKeepsIInv DEF Reader
<1>4. CASE EventLoop \/ CloseMarks \/ Closer
  BY <1>4, TakeEventKeepsIInv, EndsKeepIInv, CutOffKeepsIInv DEF EventLoop, Closer
<1> QED
  BY <1>1, <1>2, <1>3, <1>4 DEF CdpNext

\* The invariant holds in every reachable state.
THEOREM CdpInductiveInvariant == CdpSpec => []CdpIInv
BY CdpInitIInv, CdpNextKeepsIInv, PTL DEF CdpSpec

\* The variables of the session keep their types, the channel its capacity.
THEOREM CdpTypeCorrect == CdpSpec => []CdpTypeOK
BY CdpInductiveInvariant, PTL DEF CdpIInv

\* A page that runs without the script is about to be closed or is cut off.
THEOREM NoPageRunsBare == CdpSpec => []NothingRunsBare
<1>1. CdpIInv => NothingRunsBare
  BY DEF CdpIInv, GoroutineKnows, NothingRunsBare
<1> QED
  BY <1>1, CdpInductiveInvariant, PTL
=============================================================================
