-------------------------- MODULE ApplicationProofs --------------------------
(***************************************************************************)
(* Theorems about the application as a whole.  Access, for any users,      *)
(* keys, calls and logins: the gate judges the activation that is on disk, *)
(* and a login is completed by its own callback.  UpdateInstall, for any   *)
(* processes, profiles and number of versions: the last confirmed          *)
(* installation is never lost, and a failed update is undone unless        *)
(* something kept the helper from it.                                      *)
(***************************************************************************)
EXTENDS Access, UpdateInstall, TLAPS

USE DEF Callback

LEMMA InitIInv == Init => IInv
<1> SUFFICES ASSUME Init PROVE IInv
  OBVIOUS
<1> USE FreshNames, MaxClockAssumption DEF Init
<1>1. TypeOK
  BY DEF TypeOK, Steps, Stages
<1>2. JudgesTheFile /\ SpentIsGone
  BY DEF JudgesTheFile, SpentIsGone
<1>3. OneLoginAtATime /\ OwnAnswers
  BY DEF OneLoginAtATime, OwnAnswers
<1> QED
  BY <1>1, <1>2, <1>3 DEF IInv

-----------------------------------------------------------------------------
(***************************************************************************)
(* The license service.                                                    *)
(***************************************************************************)
\* The part of the invariant that speaks of logins does not read what the
\* license service writes.
LEMMA LoginsStand ==
    ASSUME OneLoginAtATime, OwnAnswers, UNCHANGED oauth
    PROVE  OneLoginAtATime' /\ OwnAnswers'
BY DEF oauth, OneLoginAtATime, OwnAnswers

LEMMA ReturnKeepsTypes ==
    ASSUME TypeOK, NEW c \in Calls, Return(c)
    PROVE  /\ pc' \in [Calls -> Steps] /\ user' \in [Calls -> Users \cup {None}]
           /\ key' \in [Calls -> Keys \cup {None, Damaged}]
           /\ pc'[c] = "idle"
           /\ \A d \in Calls \ {c} : pc'[d] = pc[d] /\ key'[d] = key[d]
BY DEF TypeOK, Return, Steps

LEMMA GotoKeepsTypes ==
    ASSUME TypeOK, NEW c \in Calls, NEW from, NEW to \in Steps, Goto(c, from, to)
    PROVE  /\ pc[c] = from /\ pc' \in [Calls -> Steps] /\ pc'[c] = to
           /\ \A d \in Calls \ {c} : pc'[d] = pc[d]
BY DEF TypeOK, Goto

LEMMA JudgeKeepsIInv ==
    ASSUME IInv, NEW c \in Calls, Judge(c)
    PROVE  IInv'
<1> USE FreshNames DEF IInv
<1>1. /\ pc[c] = "judge" /\ mu = c /\ key[c] = activation /\ mu' = None
      /\ UNCHANGED <<account, now, oauth>>
  BY DEF Judge, JudgesTheFile
<1>2. \A d \in Calls \ {c} : pc[d] # "judge"
  BY <1>1 DEF JudgesTheFile
<1>3. OneLoginAtATime' /\ OwnAnswers'
  BY <1>1, LoginsStand
<1>4. CASE JudgeActive(c)
  <2>1. /\ pc' \in [Calls -> Steps] /\ pc'[c] = "active"
        /\ \A d \in Calls \ {c} : pc'[d] = pc[d]
    BY <1>4, GotoKeepsTypes DEF JudgeActive, Steps
  <2>2. UNCHANGED <<activation, user, key, spent>>
    BY <1>4 DEF JudgeActive
  <2>3. TypeOK'
    BY <1>1, <2>1, <2>2 DEF TypeOK, oauth
  <2>4. JudgesTheFile' /\ SpentIsGone'
    BY <1>2, <2>1, <2>2 DEF JudgesTheFile, SpentIsGone
  <2> QED
    BY <1>3, <2>3, <2>4
<1>5. CASE JudgeExpired(c) \/ JudgeDamaged(c) \/ JudgeNone(c)
  <2>1. /\ pc' \in [Calls -> Steps] /\ user' \in [Calls -> Users \cup {None}]
        /\ key' \in [Calls -> Keys \cup {None, Damaged}]
        /\ pc'[c] = "idle"
        /\ \A d \in Calls \ {c} : pc'[d] = pc[d] /\ key'[d] = key[d]
    BY <1>5, ReturnKeepsTypes DEF JudgeExpired, JudgeDamaged, JudgeNone
  <2>2. /\ activation' \in {None, activation}
        /\ \/ spent' = spent
           \/ activation' = None /\ key[c] \in Keys /\ spent' = spent \cup {key[c]}
    BY <1>5 DEF JudgeExpired, JudgeDamaged, JudgeNone
  <2>3. TypeOK'
    BY <1>1, <2>1, <2>2 DEF TypeOK, oauth
  <2>4. JudgesTheFile'
    BY <1>2, <2>1 DEF JudgesTheFile
  <2>5. SpentIsGone'
    BY <2>2 DEF SpentIsGone, TypeOK
  <2> QED
    BY <1>3, <2>3, <2>4, <2>5
<1> QED
  BY <1>4, <1>5 DEF Judge

LEMMA WriteKeepsIInv ==
    ASSUME IInv, NEW c \in Calls, WriteActivation(c)
    PROVE  IInv'
<1> USE FreshNames DEF IInv
<1>1. /\ pc[c] = "write" /\ mu = None /\ mu' = mu /\ key[c] \in Keys
      /\ UNCHANGED <<account, now, oauth>>
  BY DEF WriteActivation, JudgesTheFile
<1>2. \A d \in Calls : pc[d] # "judge"
  BY <1>1 DEF JudgesTheFile
<1>3. /\ pc' \in [Calls -> Steps] /\ user' \in [Calls -> Users \cup {None}]
      /\ key' \in [Calls -> Keys \cup {None, Damaged}]
      /\ pc'[c] = "idle"
      /\ \A d \in Calls \ {c} : pc'[d] = pc[d] /\ key'[d] = key[d]
  BY ReturnKeepsTypes DEF WriteActivation
<1>4. \/ activation' = key[c] /\ spent' = spent \ {key[c]}
      \/ activation' = activation /\ spent' = spent
  BY DEF WriteActivation
<1>5. TypeOK'
  BY <1>1, <1>3, <1>4 DEF TypeOK, oauth
<1>6. JudgesTheFile' /\ SpentIsGone'
  BY <1>2, <1>3, <1>4 DEF JudgesTheFile, SpentIsGone
<1>7. OneLoginAtATime' /\ OwnAnswers'
  BY <1>1, LoginsStand
<1> QED
  BY <1>5, <1>6, <1>7

\* The steps of a call that write no file.
LEMMA ReadersKeepIInv ==
    ASSUME IInv, NEW c \in Calls,
           \/ BeginCheck(c) \/ (\E k \in Keys : BeginActivate(c, k)) \/ ReadActivation(c)
           \/ Operate(c) \/ Examine(c)
    PROVE  IInv'
<1> USE FreshNames DEF IInv
<1>1. UNCHANGED <<account, now, activation, oauth, spent>>
  BY DEF BeginCheck, BeginActivate, ReadActivation, Operate, Examine
<1>2. /\ pc' \in [Calls -> Steps] /\ user' \in [Calls -> Users \cup {None}]
      /\ key' \in [Calls -> Keys \cup {None, Damaged}]
      /\ \A d \in Calls \ {c} : pc'[d] = pc[d] /\ key'[d] = key[d]
  <2>1. CASE BeginCheck(c)
    BY <2>1, GotoKeepsTypes DEF BeginCheck, TypeOK, Steps
  <2>2. CASE \E k \in Keys : BeginActivate(c, k)
    BY <2>2, GotoKeepsTypes DEF BeginActivate, TypeOK, Steps
  <2>3. CASE ReadActivation(c)
    BY <2>3, GotoKeepsTypes DEF ReadActivation, TypeOK, Steps
  <2>4. CASE Operate(c)
    BY <2>4, ReturnKeepsTypes DEF Operate
  <2>5. CASE Examine(c)
    BY <2>5, ReturnKeepsTypes, GotoKeepsTypes DEF Examine, TypeOK, Steps
  <2> QED
    BY <2>1, <2>2, <2>3, <2>4, <2>5
<1>3. /\ mu' \in {mu, c} /\ (mu' # mu => mu = None)
      /\ pc'[c] = "judge" => mu' = c /\ key'[c] = activation
      /\ pc'[c] \in {"activate", "write"} => key'[c] \in Keys
      /\ pc[c] # "judge"
  <2>1. CASE BeginCheck(c)
    BY <2>1 DEF BeginCheck, Goto, TypeOK
  <2>2. CASE \E k \in Keys : BeginActivate(c, k)
    BY <2>2 DEF BeginActivate, Goto, TypeOK
  <2>3. CASE ReadActivation(c)
    BY <2>3 DEF ReadActivation, Goto, TypeOK
  <2>4. CASE Operate(c)
    BY <2>4 DEF Operate, Return, TypeOK
  <2>5. CASE Examine(c)
    BY <2>5 DEF Examine, Goto, Return, TypeOK, JudgesTheFile
  <2> QED
    BY <2>1, <2>2, <2>3, <2>4, <2>5
<1>4. TypeOK'
  BY <1>1, <1>2, <1>3 DEF TypeOK, oauth
<1>5. JudgesTheFile'
  BY <1>1, <1>2, <1>3 DEF JudgesTheFile
<1>6. SpentIsGone'
  BY <1>1 DEF SpentIsGone
<1>7. OneLoginAtATime' /\ OwnAnswers'
  BY <1>1, LoginsStand
<1> QED
  BY <1>4, <1>5, <1>6, <1>7

-----------------------------------------------------------------------------
(***************************************************************************)
(* The account service.                                                    *)
(***************************************************************************)
LEMMA AtKeepsTypes ==
    ASSUME TypeOK, NEW l \in Logins, NEW from, NEW to \in Stages, At(l, from, to)
    PROVE  /\ stage[l] = from /\ stage' \in [Logins -> Stages] /\ stage'[l] = to
           /\ \A m \in Logins \ {l} : stage'[m] = stage[m]
BY DEF TypeOK, At

\* The license service's part of the invariant does not read what a login
\* writes.
LEMMA LicensingStands ==
    ASSUME JudgesTheFile, SpentIsGone, UNCHANGED <<licensing, spent>>
    PROVE  JudgesTheFile' /\ SpentIsGone'
BY DEF licensing, JudgesTheFile, SpentIsGone

\* The steps of a login that take no answer and give nothing back.
LEMMA StagesKeepIInv ==
    ASSUME IInv, NEW l \in Logins,
           \/ Login(l) \/ LockLogin(l) \/ Listen(l) \/ OpenBrowser(l)
           \/ ExchangeCode(l) \/ FetchUser(l) \/ SaveAccount(l)
    PROVE  IInv'
<1> USE FreshNames DEF IInv
<1>1. UNCHANGED <<now, licensing, spent>>
  BY DEF Login, LockLogin, Listen, OpenBrowser, ExchangeCode, FetchUser, SaveAccount
<1>2. JudgesTheFile' /\ SpentIsGone'
  BY <1>1, LicensingStands
<1>3. PICK from \in Stages, to \in Stages :
        /\ At(l, from, to)
        /\ to \in {"exchange", "fetch", "save"} => from \in {"exchange", "fetch", "save"}
        /\ \/ from = "off" /\ to = "queued" /\ UNCHANGED <<loginMu, port, channel, answer>>
           \/ /\ from = "queued" /\ to = "listen" /\ loginMu = None /\ loginMu' = l
              /\ channel' = [channel EXCEPT ![l] = None] /\ answer' = [answer EXCEPT ![l] = None]
              /\ UNCHANGED port
           \/ /\ from = "listen" /\ to = "open" /\ port' = l /\ UNCHANGED <<loginMu, channel, answer>>
           \/ /\ from = "listen" /\ to = "unlock" /\ UNCHANGED <<loginMu, port, channel, answer>>
           \/ /\ from \in {"open", "exchange", "fetch", "save"}
              /\ to \in {"wait", "fetch", "save", "shutdown"}
              /\ UNCHANGED <<loginMu, port, channel, answer>>
  BY DEF Login, LockLogin, Listen, OpenBrowser, ExchangeCode, FetchUser, SaveAccount, Stages
<1>4. /\ stage[l] = from /\ stage' \in [Logins -> Stages] /\ stage'[l] = to
      /\ \A m \in Logins \ {l} : stage'[m] = stage[m]
  BY <1>3, AtKeepsTypes
<1>5. account' \in Users \cup {None, Damaged}
  <2>1. CASE SaveAccount(l)
    <3>1. stage[l] = "save" /\ account' \in {account, answer[l].who}
      BY <2>1 DEF SaveAccount, At
    <3>2. answer[l] \in Callback
      BY <3>1 DEF OwnAnswers, TypeOK
    <3> QED
      BY <3>1, <3>2 DEF TypeOK
  <2>2. CASE ~SaveAccount(l)
    BY <2>2 DEF Login, LockLogin, Listen, OpenBrowser, ExchangeCode, FetchUser, TypeOK
  <2> QED
    BY <2>1, <2>2
<1>6. TypeOK'
  BY <1>1, <1>3, <1>4, <1>5 DEF TypeOK, licensing
<1>7. OneLoginAtATime'
  BY <1>3, <1>4 DEF OneLoginAtATime, TypeOK
<1>8. OwnAnswers'
  BY <1>3, <1>4 DEF OwnAnswers, TypeOK
<1> QED
  BY <1>2, <1>6, <1>7, <1>8

LEMMA ArriveKeepsIInv ==
    ASSUME IInv, NEW l \in Logins, NEW callback \in Callback, Arrive(l, callback)
    PROVE  IInv'
<1> USE DEF IInv
<1>1. /\ callback.of = l /\ channel' = [channel EXCEPT ![l] = callback]
      /\ UNCHANGED <<account, now, licensing, loginMu, port, stage, answer, spent>>
  BY DEF Arrive, Matches
<1>2. JudgesTheFile' /\ SpentIsGone'
  BY <1>1, LicensingStands
<1>3. TypeOK'
  BY <1>1 DEF TypeOK, licensing
<1>4. OneLoginAtATime'
  BY <1>1 DEF OneLoginAtATime
<1>5. OwnAnswers'
  BY <1>1 DEF OwnAnswers, TypeOK
<1> QED
  BY <1>2, <1>3, <1>4, <1>5

\* The answer is taken, or given up; the listener and the lock are given back.
LEMMA EndsKeepIInv ==
    ASSUME IInv, NEW l \in Logins, Receive(l) \/ TimeOut(l) \/ Shutdown(l) \/ UnlockLogin(l)
    PROVE  IInv'
<1> USE FreshNames DEF IInv
<1>1. UNCHANGED <<account, now, licensing, spent>>
  BY DEF Receive, TimeOut, Shutdown, UnlockLogin
<1>2. JudgesTheFile' /\ SpentIsGone'
  BY <1>1, LicensingStands
<1>3. CASE Receive(l)
  <2>1. PICK to \in {"shutdown", "exchange"} : At(l, "wait", to)
    BY <1>3 DEF Receive
  <2>2. /\ channel[l] # None
        /\ answer' = [answer EXCEPT ![l] = channel[l]] /\ channel' = [channel EXCEPT ![l] = None]
        /\ UNCHANGED <<loginMu, port>>
    BY <1>3 DEF Receive
  <2>3. /\ stage[l] = "wait" /\ stage' \in [Logins -> Stages] /\ stage'[l] = to
        /\ \A m \in Logins \ {l} : stage'[m] = stage[m]
    BY <2>1, AtKeepsTypes DEF Stages
  <2>4. TypeOK'
    BY <1>1, <2>2, <2>3 DEF TypeOK, licensing
  <2>5. OneLoginAtATime'
    BY <2>2, <2>3 DEF OneLoginAtATime, TypeOK
  <2>6. OwnAnswers'
    BY <2>2, <2>3 DEF OwnAnswers, TypeOK
  <2> QED
    BY <1>2, <2>4, <2>5, <2>6
<1>4. CASE TimeOut(l)
  <2>1. /\ stage[l] = "wait" /\ stage' \in [Logins -> Stages] /\ stage'[l] = "shutdown"
        /\ \A m \in Logins \ {l} : stage'[m] = stage[m]
    BY <1>4, AtKeepsTypes DEF TimeOut, Stages
  <2>2. channel' = [channel EXCEPT ![l] = None] /\ UNCHANGED <<loginMu, port, answer>>
    BY <1>4 DEF TimeOut
  <2>3. TypeOK'
    BY <1>1, <2>1, <2>2 DEF TypeOK, licensing
  <2>4. OneLoginAtATime' /\ OwnAnswers'
    BY <2>1, <2>2 DEF OneLoginAtATime, OwnAnswers, TypeOK
  <2> QED
    BY <1>2, <2>3, <2>4
<1>5. CASE Shutdown(l)
  <2>1. /\ stage[l] = "shutdown" /\ stage' \in [Logins -> Stages] /\ stage'[l] = "unlock"
        /\ \A m \in Logins \ {l} : stage'[m] = stage[m]
    BY <1>5, AtKeepsTypes DEF Shutdown, Stages
  <2>2. port' = None /\ UNCHANGED <<loginMu, channel, answer>>
    BY <1>5 DEF Shutdown
  <2>3. TypeOK'
    BY <1>1, <2>1, <2>2 DEF TypeOK, licensing
  <2>4. OneLoginAtATime' /\ OwnAnswers'
    BY <2>1, <2>2 DEF OneLoginAtATime, OwnAnswers, TypeOK
  <2> QED
    BY <1>2, <2>3, <2>4
<1>6. CASE UnlockLogin(l)
  <2>1. /\ stage[l] = "unlock" /\ stage' \in [Logins -> Stages] /\ stage'[l] = "off"
        /\ \A m \in Logins \ {l} : stage'[m] = stage[m]
    BY <1>6, AtKeepsTypes DEF UnlockLogin, Stages
  <2>2. /\ loginMu = l /\ loginMu' = None /\ UNCHANGED port
        /\ channel' = [channel EXCEPT ![l] = None] /\ answer' = [answer EXCEPT ![l] = None]
    BY <1>6, <2>1 DEF UnlockLogin, OneLoginAtATime
  <2>3. port = None
    BY <2>1, <2>2 DEF OneLoginAtATime
  <2>4. TypeOK'
    BY <1>1, <2>1, <2>2 DEF TypeOK, licensing
  <2>5. OneLoginAtATime'
    BY <2>1, <2>2, <2>3 DEF OneLoginAtATime
  <2>6. OwnAnswers'
    BY <2>1, <2>2 DEF OwnAnswers, TypeOK
  <2> QED
    BY <1>2, <2>4, <2>5, <2>6
<1> QED
  BY <1>3, <1>4, <1>5, <1>6

-----------------------------------------------------------------------------
(***************************************************************************)
(* The theorems.                                                           *)
(***************************************************************************)
\* What users do to the files and the clock.
LEMMA OthersKeepIInv ==
    ASSUME IInv, Deactivate \/ Logout \/ SetClock \/ Damage
    PROVE  IInv'
<1> USE FreshNames DEF IInv
<1>1. /\ UNCHANGED <<mu, pc, user, key, oauth, spent>>
      /\ account' \in {account, None, Damaged} /\ now' \in 0..MaxClock
      /\ activation' = activation \/ (mu = None /\ activation' \in {None, Damaged})
  BY DEF Deactivate, Logout, SetClock, Damage, licensing, TypeOK
<1>2. TypeOK'
  BY <1>1 DEF TypeOK, oauth
<1>3. JudgesTheFile'
  BY <1>1 DEF JudgesTheFile
<1>4. SpentIsGone'
  BY <1>1 DEF SpentIsGone, TypeOK
<1>5. OneLoginAtATime' /\ OwnAnswers'
  BY <1>1, LoginsStand
<1> QED
  BY <1>2, <1>3, <1>4, <1>5

LEMMA NextKeepsIInv == IInv /\ [Next]_vars => IInv'
<1> SUFFICES ASSUME IInv, [Next]_vars PROVE IInv'
  OBVIOUS
<1>1. CASE UNCHANGED vars
  BY <1>1 DEF IInv, TypeOK, JudgesTheFile, SpentIsGone, OneLoginAtATime, OwnAnswers, vars, licensing, oauth
<1>2. ASSUME NEW c \in Calls, CallStep(c) \/ BeginCheck(c)
      PROVE  IInv'
  <2>1. CASE Judge(c)
    BY <2>1, JudgeKeepsIInv
  <2>2. CASE WriteActivation(c)
    BY <2>2, WriteKeepsIInv
  <2>3. CASE BeginCheck(c) \/ ReadActivation(c) \/ Operate(c) \/ Examine(c)
    BY <2>3, ReadersKeepIInv
  <2> QED
    BY <1>2, <2>1, <2>2, <2>3 DEF CallStep
<1>3. ASSUME NEW c \in Calls, NEW k \in Keys, BeginActivate(c, k)
      PROVE  IInv'
  BY <1>3, ReadersKeepIInv
<1>4. ASSUME NEW l \in Logins, Login(l) \/ LoginStep(l)
      PROVE  IInv'
  BY <1>4, StagesKeepIInv, EndsKeepIInv DEF LoginStep
<1>5. ASSUME NEW l \in Logins, NEW callback \in Callback, Arrive(l, callback)
      PROVE  IInv'
  BY <1>5, ArriveKeepsIInv
<1> QED
  BY <1>1, <1>2, <1>3, <1>4, <1>5, OthersKeepIInv DEF Next

\* The invariant holds in every reachable state.
THEOREM InductiveInvariant == Spec => []IInv
BY InitIInv, NextKeepsIInv, PTL DEF Spec

\* Every variable of the account and license services keeps its type.
THEOREM TypeCorrect == Spec => []TypeOK
BY InductiveInvariant, PTL DEF IInv

\* A login finds the port free when it begins to listen.
THEOREM ListenersTakeTurns == Spec => []PortIsFreed
<1>1. IInv => PortIsFreed
  BY DEF IInv, OneLoginAtATime, PortIsFreed
<1> QED
  BY <1>1, InductiveInvariant, PTL

\* The account that is saved is of whoever authorized this login.
THEOREM LoginsKeepApart == Spec => []LoginsAreNotMixedUp
<1>1. IInv => LoginsAreNotMixedUp
  BY DEF IInv, OwnAnswers, LoginsAreNotMixedUp
<1> QED
  BY <1>1, InductiveInvariant, PTL

\* A call is admitted by judging an activation that is on disk.
LEMMA AdmittedByJudging ==
    ASSUME IInv, [Next]_vars, NEW c \in Calls, Admitted(c)
    PROVE  JudgeActive(c) /\ key[c] = activation
<1>1. pc[c] # "active" /\ pc'[c] = "active" /\ pc \in [Calls -> Steps]
  BY DEF Admitted, IInv, TypeOK
<1>2. PICK d \in Calls : BeginCheck(d) \/ (\E k \in Keys : BeginActivate(d, k)) \/ CallStep(d)
  <2>1. pc' # pc
    BY <1>1
  <2> QED
    BY <2>1 DEF Next, vars, licensing, Deactivate, Login, LoginStep, LockLogin, Listen, OpenBrowser,
       Receive, TimeOut, ExchangeCode, FetchUser, SaveAccount, Shutdown, UnlockLogin, Arrive, Logout,
       SetClock, Damage
<1>3. JudgeActive(d) /\ d = c
  <2>1. ~BeginCheck(d) /\ ~(\E k \in Keys : BeginActivate(d, k)) /\ ~ReadActivation(d)
    BY <1>1 DEF BeginCheck, BeginActivate, ReadActivation, Goto
  <2>2. ~Operate(d) /\ ~Examine(d) /\ ~WriteActivation(d)
    BY <1>1 DEF Operate, Examine, WriteActivation, Goto, Return
  <2>3. Judge(d)
    BY <1>2, <2>1, <2>2 DEF CallStep
  <2>4. ~JudgeExpired(d) /\ ~JudgeDamaged(d) /\ ~JudgeNone(d)
    BY <1>1 DEF JudgeExpired, JudgeDamaged, JudgeNone, Return
  <2>5. JudgeActive(d)
    BY <2>3, <2>4 DEF Judge
  <2> QED
    BY <1>1, <2>5 DEF JudgeActive, Goto
<1>4. pc[c] = "judge"
  BY <1>3 DEF JudgeActive, Goto
<1> QED
  BY <1>3, <1>4 DEF IInv, JudgesTheFile

\* The gate opens for the activation on disk, and for its user.
THEOREM EntitledOnly == Spec => AdmittedIsEntitled
<1>1. IInv /\ [Next]_vars => [\A c \in Calls : Admitted(c) =>
          activation = key[c] /\ Allows(key[c], user[c]) /\ ~Expired(key[c])]_vars
  BY AdmittedByJudging DEF JudgeActive
<1> QED
  BY <1>1, InductiveInvariant, PTL DEF Spec, AdmittedIsEntitled

\* A key that was found expired and removed opens the gate to nobody.
THEOREM ExpiryIsFinal == Spec => SpentKeysStaySpent
<1>1. IInv /\ [Next]_vars => [\A c \in Calls : Admitted(c) => key[c] \notin spent]_vars
  BY AdmittedByJudging DEF IInv, SpentIsGone
<1> QED
  BY <1>1, InductiveInvariant, PTL DEF Spec, SpentKeysStaySpent

\* A check never removes the activation that a concurrent ActivateKey wrote.
THEOREM ActivationsStand == Spec => ActivationIsNotLost
<1>1. IInv /\ [Next]_vars =>
        [activation' = None /\ activation \in Keys => Deactivate \/ Expired(activation)]_vars
  <2> SUFFICES ASSUME IInv, [Next]_vars, activation' = None, activation \in Keys
               PROVE  Deactivate \/ Expired(activation)
    OBVIOUS
  <2>1. activation' # activation
    BY FreshNames
  <2>2. Deactivate \/ \E c \in Calls : Judge(c) \/ WriteActivation(c)
    BY <2>1, FreshNames DEF Next, vars, licensing, CallStep, BeginCheck, BeginActivate, ReadActivation,
       Operate, Examine, Login, LoginStep, LockLogin, Listen, OpenBrowser, Receive, TimeOut, ExchangeCode,
       FetchUser, SaveAccount, Shutdown, UnlockLogin, Arrive, Logout, SetClock, Damage
  <2>3. ASSUME NEW c \in Calls, Judge(c) PROVE Expired(activation)
    <3>1. key[c] = activation
      BY <2>3 DEF IInv, JudgesTheFile, Judge
    <3> QED
      BY <2>1, <2>3, <3>1, FreshNames DEF Judge, JudgeExpired, JudgeDamaged, JudgeNone, JudgeActive
  <2>4. ASSUME NEW c \in Calls, WriteActivation(c) PROVE FALSE
    <3>1. key[c] \in Keys
      BY <2>4 DEF IInv, JudgesTheFile, WriteActivation
    <3> QED
      BY <2>1, <2>4, <3>1, FreshNames DEF WriteActivation
  <2> QED
    BY <2>2, <2>3, <2>4
<1> QED
  BY <1>1, InductiveInvariant, PTL DEF Spec, ActivationIsNotLost

-----------------------------------------------------------------------------
(***************************************************************************)
(* The installation of an update.                                          *)
(***************************************************************************)
\* Versions and installations that the actions name.
LEMMA VersionFacts ==
  /\ 0 \in Versions /\ 1 \in Versions
  /\ \A v \in Versions : v < MaxVersion => v + 1 \in Versions
  /\ Nothing \in Installations /\ Whole(1) \in Installations
  /\ \A f \in Installations, x \in Parts, v \in Versions : [f EXCEPT ![x] = v] \in Installations
  <1>1. /\ 0 \in Versions /\ 1 \in Versions
        /\ \A v \in Versions : v < MaxVersion => v + 1 \in Versions
    BY MaxVersionAssumption DEF Versions
  <1>2. Nothing \in Installations /\ Whole(1) \in Installations
    BY <1>1 DEF Nothing, Whole, Installations
  <1>3. \A f \in Installations, x \in Parts, v \in Versions : [f EXCEPT ![x] = v] \in Installations
    BY DEF Installations
  <1> QED
    BY <1>1, <1>2, <1>3

\* Installations that agree on every part are the same.
LEMMA SameParts ==
  ASSUME NEW f \in Installations, NEW g \in Installations, \A x \in Parts : f[x] = g[x]
  PROVE  f = g
  BY DEF Installations

\* What a helper that ends leaves is well typed.
LEMMA OverTypes ==
  ASSUME UpdateTypeOK, NEW why, why \subseteq {"killed", "disk", "in use"}, Over(why)
  PROVE  /\ helper' = "off" /\ left' = {} /\ parent' = NoApp /\ fresh' = NoApp
         /\ target' \in Versions /\ backup' \in Installations
         /\ marker' \in BOOLEAN /\ kept' \in BOOLEAN
         /\ spoilt' \subseteq {"killed", "disk", "in use"}
  <1>1. kept' \in BOOLEAN
    BY Zenon DEF Over
  <1> QED
    BY <1>1, VersionFacts DEF Over, UpdateTypeOK

\* The initial installation is the confirmed one.
LEMMA UpdateInitIInv == UpdateInit => UpdateIInv
  <1>1. UpdateInit => UpdateTypeOK
    BY VersionFacts DEF UpdateInit, UpdateTypeOK
  <1> QED
    BY <1>1 DEF UpdateInit, UpdateIInv, Untouched, Saving, Saved, Restoring, Undone, Restorable

\* Every action keeps the types.
LEMMA UpdateTypes == ASSUME UpdateTypeOK, [UpdateNext]_updateVars PROVE UpdateTypeOK'
  <1> USE VersionFacts DEF UpdateTypeOK, Restorable
  <1>1. ASSUME NEW a \in Apps, AppStarts(a) PROVE UpdateTypeOK'
    BY <1>1 DEF AppStarts, steps, observers, Installations, Parts
  <1>2. ASSUME NEW a \in Apps, AppEnds(a) PROVE UpdateTypeOK'
    BY <1>2 DEF AppEnds, Gone, observers
  <1>3. ASSUME NEW a \in Apps, InstallAsked(a) \/ InstallFails(a) \/ HelperStarts(a) PROVE UpdateTypeOK'
    <2>1. CASE InstallAsked(a) \/ InstallFails(a)
      BY <2>1 DEF InstallAsked, InstallFails, steps, observers
    <2>2. CASE HelperStarts(a)
      <3>1. apps[a] \in Versions /\ apps[a] < MaxVersion
        BY <2>2 DEF HelperStarts
      <3>2. target' \in Versions
        BY <2>2, <3>1, VersionFacts DEF HelperStarts
      <3> QED
        BY <2>2, <3>2 DEF HelperStarts, observers
    <2> QED
      BY <1>3, <2>1, <2>2
  <1>4. ASSUME NEW p \in Profiles, NEW a \in Apps, LaunchBegins(p, a) PROVE UpdateTypeOK'
    BY <1>4 DEF LaunchBegins, steps, observers
  <1>5. ASSUME NEW p \in Profiles, LaunchStarts(p) \/ LaunchPublishes(p) \/ BrowserEnds(p) PROVE UpdateTypeOK'
    BY <1>5 DEF LaunchStarts, LaunchPublishes, BrowserEnds, steps, observers
  <1>6. ASSUME MarkHealthy \/ ParentGone \/ CopyEnds \/ InstallerEnds \/ InstallerFails \/ StartFails
               \/ RemoveEnds \/ RestoreEnds
        PROVE UpdateTypeOK'
    BY <1>6 DEF MarkHealthy, ParentGone, CopyEnds, InstallerEnds, InstallerFails, StartFails, RemoveEnds,
       RestoreEnds, To, users, observers
  <1>7. ASSUME GivesUp \/ CopyFails \/ Discard \/ HelperDies PROVE UpdateTypeOK'
    BY <1>7, OverTypes DEF GivesUp, CopyFails, Discard, HelperDies, users
  <1>8. ASSUME Reopen PROVE UpdateTypeOK'
    BY <1>8, OverTypes DEF Reopen, Open, Installations, Parts
  <1>9. ASSUME Confirmed \/ RemoveFails \/ RestoreFails PROVE UpdateTypeOK'
    BY <1>9 DEF Confirmed, RemoveFails, RestoreFails, To, users
  <1>10. ASSUME ConfirmFails PROVE UpdateTypeOK'
    <2>1. CASE fresh = NoApp
      BY <1>10, <2>1 DEF ConfirmFails, To, users, observers
    <2>2. CASE fresh # NoApp
      <3>1. fresh \in Apps /\ Gone(fresh)
        BY <1>10, <2>2 DEF ConfirmFails
      <3>2. /\ apps' \in [Apps -> Versions] /\ call' \in [Apps -> {"none", "stopping", "quitting"}]
            /\ \A a \in Apps : call'[a] # "none" => apps'[a] # 0 /\ apps'[a] < MaxVersion
        BY <3>1 DEF Gone
      <3>3. /\ browser' \in [Profiles -> {"closed", "launching", "started", "running"}]
            /\ owner' \in [Profiles -> Apps \cup {NoApp}]
        BY <3>1 DEF Gone
      <3> QED
        BY <1>10, <3>2, <3>3 DEF ConfirmFails, To, observers
    <2> QED
      BY <2>1, <2>2
  <1>11. ASSUME NEW x \in Parts, CopyPart(x) \/ InstallerWrites(x) \/ InstallerSkips(x) \/ RemovePart(x)
                                \/ RestorePart(x)
         PROVE UpdateTypeOK'
    <2>1. CASE CopyPart(x)
      BY <2>1 DEF CopyPart, Installations, users, observers
    <2>2. CASE InstallerWrites(x)
      <3>1. inst' \in Installations
        <4>1. inst' = [inst EXCEPT ![x] = 0] \/ inst' = [inst EXCEPT ![x] = target]
          BY <2>2 DEF InstallerWrites
        <4>2. [inst EXCEPT ![x] = 0] \in Installations /\ [inst EXCEPT ![x] = target] \in Installations
          BY VersionFacts, 0 \in Versions, target \in Versions, inst \in Installations
        <4> QED
          BY <4>1, <4>2
      <3>2. left' \subseteq Parts
        BY <2>2 DEF InstallerWrites
      <3> QED
        BY <2>2, <3>1, <3>2 DEF InstallerWrites, users, observers
    <2>3. CASE InstallerSkips(x)
      BY <2>3 DEF InstallerSkips, users, observers
    <2>4. CASE RemovePart(x)
      BY <2>4 DEF RemovePart, users, observers
    <2>5. CASE RestorePart(x)
      BY <2>5 DEF RestorePart, Installations, users, observers
    <2> QED
      BY <1>11, <2>1, <2>2, <2>3, <2>4, <2>5
  <1>12. ASSUME NEW a \in Apps, StartNew(a) PROVE UpdateTypeOK'
    BY <1>12 DEF StartNew, Open, To, observers, Installations, Parts
  <1>13. CASE UNCHANGED updateVars
    BY <1>13 DEF updateVars, users, steps, observers
  <1> QED
    BY <1>1, <1>2, <1>3, <1>4, <1>5, <1>6, <1>7, <1>8, <1>9, <1>10, <1>11, <1>12, <1>13
       DEF UpdateNext, HelperWork, InstallerWork

\* Steps of the users leave everything the invariant speaks of.
LEMMA UpdateUserStep ==
  ASSUME UpdateIInv, UpdateTypeOK', UNCHANGED <<inst, helper, left, backup, good, kept, spoilt>>
  PROVE  UpdateIInv'
  BY DEF UpdateIInv, Untouched, Saving, Saved, Restoring, Undone

\* Every action keeps the invariant.
LEMMA UpdateStep == ASSUME UpdateIInv, [UpdateNext]_updateVars PROVE UpdateIInv'
  <1>0. UpdateTypeOK /\ UpdateTypeOK'
    BY UpdateTypes DEF UpdateIInv
  <1> USE <1>0 DEF Untouched, Saving, Saved, Restoring, Undone, Restorable
  <1>1. ASSUME NEW a \in Apps, AppStarts(a) \/ AppEnds(a) \/ InstallAsked(a) \/ InstallFails(a) PROVE UpdateIInv'
    BY <1>1, UpdateUserStep DEF AppStarts, AppEnds, InstallAsked, InstallFails, steps, observers
  <1>2. ASSUME NEW a \in Apps, HelperStarts(a) PROVE UpdateIInv'
    BY <1>2 DEF UpdateIInv, HelperStarts, observers
  <1>3. ASSUME NEW p \in Profiles, NEW a \in Apps, LaunchBegins(p, a) PROVE UpdateIInv'
    BY <1>3, UpdateUserStep DEF LaunchBegins, steps, observers
  <1>4. ASSUME NEW p \in Profiles, LaunchStarts(p) \/ LaunchPublishes(p) \/ BrowserEnds(p) PROVE UpdateIInv'
    BY <1>4, UpdateUserStep DEF LaunchStarts, LaunchPublishes, BrowserEnds, steps, observers
  <1>5. CASE MarkHealthy
    BY <1>5, UpdateUserStep DEF MarkHealthy, observers
  <1>6. CASE ParentGone
    BY <1>6 DEF UpdateIInv, ParentGone, To, observers
  <1>7. CASE GivesUp \/ CopyFails \/ Discard \/ HelperDies
    <2>1. PICK why : Over(why) /\ UNCHANGED <<inst, good>> /\ (why = {} => helper \in {"wait", "copy", "discard"})
      BY <1>7 DEF GivesUp, CopyFails, Discard, HelperDies, users
    <2>2. kept' <=> kept \/ (helper \in Restorable /\ backup = good)
      BY <2>1, Zenon DEF Over
    <2>3. helper' = "off" /\ spoilt' = spoilt \cup why
      BY <2>1 DEF Over
    <2> QED
      BY <2>1, <2>2, <2>3 DEF UpdateIInv, UpdateTypeOK
  <1>8. CASE CopyEnds
    <2>1. backup = inst
      <3>1. /\ \A x \in Parts : backup[x] = inst[x]
            /\ backup \in Installations /\ inst \in Installations
        BY <1>8 DEF UpdateIInv, CopyEnds, UpdateTypeOK
      <3> QED
        BY <3>1, SameParts
    <2> QED
      BY <1>8, <2>1 DEF UpdateIInv, CopyEnds, To, observers
  <1>9. CASE InstallerEnds \/ InstallerFails \/ StartFails
    BY <1>9 DEF UpdateIInv, InstallerEnds, InstallerFails, StartFails, To, observers
  <1>10. CASE Confirmed
    BY <1>10 DEF UpdateIInv, Confirmed, To
  <1>11. CASE ConfirmFails
    BY <1>11 DEF UpdateIInv, ConfirmFails, To, observers
  <1>12. CASE RemoveEnds
    BY <1>12 DEF UpdateIInv, RemoveEnds, To, observers
  <1>13. CASE RemoveFails \/ RestoreFails
    BY <1>13 DEF UpdateIInv, RemoveFails, RestoreFails, To
  <1>14. CASE RestoreEnds
    <2>1. inst = backup
      <3>1. /\ \A x \in Parts : inst[x] = backup[x]
            /\ backup \in Installations /\ inst \in Installations
        BY <1>14 DEF UpdateIInv, RestoreEnds, UpdateTypeOK
      <3> QED
        BY <3>1, SameParts
    <2> QED
      BY <1>14, <2>1 DEF UpdateIInv, RestoreEnds, To, observers
  <1>15. CASE Reopen
    <2>1. kept' <=> kept \/ (helper \in Restorable /\ backup = good)
      BY <1>15, Zenon DEF Reopen, Over
    <2>2. helper = "reopen" /\ helper' = "off" /\ spoilt' = spoilt /\ UNCHANGED <<inst, good>>
      BY <1>15 DEF Reopen, Over
    <2> QED
      BY <2>1, <2>2 DEF UpdateIInv
  <1>16. ASSUME NEW x \in Parts, CopyPart(x) PROVE UpdateIInv'
    BY <1>16 DEF UpdateIInv, CopyPart, UpdateTypeOK, Installations, observers
  <1>17. ASSUME NEW x \in Parts, InstallerWrites(x) \/ InstallerSkips(x) \/ RemovePart(x) PROVE UpdateIInv'
    BY <1>17 DEF UpdateIInv, InstallerWrites, InstallerSkips, RemovePart, observers
  <1>18. ASSUME NEW x \in Parts, RestorePart(x) PROVE UpdateIInv'
    BY <1>18 DEF UpdateIInv, RestorePart, UpdateTypeOK, Installations, observers
  <1>19. ASSUME NEW a \in Apps, StartNew(a) PROVE UpdateIInv'
    BY <1>19 DEF UpdateIInv, StartNew, To, observers
  <1>20. CASE UNCHANGED updateVars
    BY <1>20, UpdateUserStep DEF updateVars, steps, observers
  <1> QED
    BY <1>1, <1>2, <1>3, <1>4, <1>5, <1>6, <1>7, <1>8, <1>9, <1>10, <1>11, <1>12, <1>13, <1>14, <1>15,
       <1>16, <1>17, <1>18, <1>19, <1>20 DEF UpdateNext, HelperWork, InstallerWork

\* The invariant of the update holds for any processes, profiles and versions.
THEOREM UpdateInductiveInvariant == UpdateSpec => []UpdateIInv
  BY UpdateInitIInv, UpdateStep, PTL DEF UpdateSpec

\* The installation confirmed last is installed or there is a complete copy of it
\* on the disk, whatever fails and whenever the helper dies.
THEOREM NothingConfirmedIsLost == UpdateSpec => []RestorePointStands
  <1>1. UpdateIInv => RestorePointStands
    BY DEF UpdateIInv, UpdateTypeOK, Untouched, Saved, RestorePointStands
  <1> QED
    BY <1>1, UpdateInductiveInvariant, PTL

\* A helper that has ended leaves a confirmed installation unless it was killed, met
\* an error of the disk or found files in use.
THEOREM FailuresAreUndone == UpdateSpec => []FailedUpdateIsUndone
  <1>1. UpdateIInv => FailedUpdateIsUndone
    BY DEF UpdateIInv, Undone, FailedUpdateIsUndone
  <1> QED
    BY <1>1, UpdateInductiveInvariant, PTL
=============================================================================
