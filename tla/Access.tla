------------------------------- MODULE Access -------------------------------
(***************************************************************************)
(* Who may use the program: internal/account/service.go (the Discord       *)
(* login and account.json), internal/license/service.go (license.json) and *)
(* the gate of desktop.go in front of the paid operations.                 *)
(*                                                                         *)
(* Calls are Wails calls, each on a goroutine of its own: a check (the     *)
(* gate, or LicenseStatus) or an ActivateKey asks the account service for  *)
(* the user first and the license service afterwards, under another lock.  *)
(* The account is one file read or replaced in one step under account.mu.  *)
(*                                                                         *)
(* A key is its claims: the user it is bound to, if any, and when it       *)
(* expires.  The clock is the computer's: its owner can set it back.       *)
(***************************************************************************)
EXTENDS Naturals

CONSTANTS Users, Keys,
          Bound,       \* claims.DiscordID of each key, None if for anybody
          Expiry,      \* claims.ExpiresAt of each key, 0 if lifetime
          Calls,       \* goroutines checking or activating
          Logins,      \* goroutines inside account.Login
          None,        \* no file, no user, no holder of a lock
          Damaged,     \* a file that does not decode, or whose fields disagree
          MaxClock     \* bound: the clock's range

ASSUME BoundAssumption == Bound \in [Keys -> Users \cup {None}]
ASSUME ExpiryAssumption == Expiry \in [Keys -> Nat]
ASSUME FreshNames == None # Damaged /\ {None, Damaged} \cap (Users \cup Keys \cup Calls \cup Logins) = {}
ASSUME MaxClockAssumption == MaxClock \in Nat

VARIABLES
    account,      \* account.json
    activation,   \* license.json
    now,          \* s.clock()
    mu,           \* the call that holds license.Service.mu
    pc,           \* where each call is
    user,         \* the user each call was told by the account service
    key,          \* the key a call activates, or the file content it read
    loginMu,      \* the login that holds account.Service.loginMu
    port,         \* the login whose callback server listens
    stage,        \* where each login is
    channel,      \* resultChannel of each login, of capacity 1
    answer,       \* what a login took from its channel
    spent         \* observer: keys a check found expired and removed, and that
                  \* nobody activated since

licensing == <<activation, mu, pc, user, key>>
oauth == <<loginMu, port, stage, channel, answer>>
vars == <<account, now, licensing, oauth, spent>>

Steps == {"idle", "check", "read", "judge", "active", "activate", "write"}
Stages == {"off", "queued", "listen", "open", "wait", "exchange", "fetch", "save", "shutdown", "unlock"}
\* What a callback carries: whose login it belongs to (its state), and the
\* user who authorized it, or None if the user denied.
Callback == [of: Logins, who: Users \cup {None}]

TypeOK ==
    /\ account \in Users \cup {None, Damaged}
    /\ activation \in Keys \cup {None, Damaged}
    /\ now \in 0..MaxClock
    /\ mu \in Calls \cup {None}
    /\ pc \in [Calls -> Steps]
    /\ user \in [Calls -> Users \cup {None}]
    /\ key \in [Calls -> Keys \cup {None, Damaged}]
    /\ loginMu \in Logins \cup {None} /\ port \in Logins \cup {None}
    /\ stage \in [Logins -> Stages]
    /\ channel \in [Logins -> Callback \cup {None}] /\ answer \in [Logins -> Callback \cup {None}]
    /\ spent \subseteq Keys

Init ==
    /\ account \in Users \cup {None, Damaged} /\ activation \in Keys \cup {None, Damaged}
    /\ now = 0
    /\ mu = None /\ pc = [c \in Calls |-> "idle"]
    /\ user = [c \in Calls |-> None] /\ key = [c \in Calls |-> None]
    /\ loginMu = None /\ port = None /\ stage = [l \in Logins |-> "off"]
    /\ channel = [l \in Logins |-> None] /\ answer = [l \in Logins |-> None]
    /\ spent = {}

-----------------------------------------------------------------------------
(***************************************************************************)
(* license.Service                                                         *)
(***************************************************************************)
Allows(k, u) == Bound[k] \in {None, u}
Expired(k) == Expiry[k] # 0 /\ now >= Expiry[k]

Goto(c, from, to) == pc[c] = from /\ pc' = [pc EXCEPT ![c] = to]
Return(c) ==
    /\ pc' = [pc EXCEPT ![c] = "idle"]
    /\ user' = [user EXCEPT ![c] = None] /\ key' = [key EXCEPT ![c] = None]

\* loggedUser, or LicenseStatus, which takes an unreadable account for none:
\* without a user there is no plan.
BeginCheck(c) ==
    /\ account \in Users
    /\ Goto(c, "idle", "check")
    /\ user' = [user EXCEPT ![c] = account]
    /\ UNCHANGED <<account, now, activation, mu, key, oauth, spent>>

\* Status, s.mu.Lock() and readActivation.
ReadActivation(c) ==
    /\ mu = None /\ Goto(c, "check", "judge")
    /\ mu' = c
    /\ key' = [key EXCEPT ![c] = activation]
    /\ UNCHANGED <<account, now, activation, user, oauth, spent>>

\* Bug: an expired activation is reported and never removed.
BugJudgeExpired(c) ==
    /\ key[c] \in Keys /\ Allows(key[c], user[c]) /\ Expired(key[c])
    /\ spent' = spent \cup {key[c]}
    /\ UNCHANGED activation
    /\ Return(c)

\* The file is removed, or the removal fails and nobody hears of it.
JudgeExpired(c) ==
    /\ key[c] \in Keys /\ Allows(key[c], user[c]) /\ Expired(key[c])
    /\ activation' \in {None, activation}
    /\ spent' = IF activation' = None THEN spent \cup {key[c]} ELSE spent
    /\ Return(c)

JudgeDamaged(c) ==
    /\ key[c] = Damaged
    /\ activation' \in {None, activation}
    /\ UNCHANGED spent
    /\ Return(c)

\* No activation, or the one of another user, which stays.
JudgeNone(c) ==
    /\ key[c] # Damaged
    /\ key[c] \in Keys => ~Allows(key[c], user[c])
    /\ UNCHANGED <<activation, spent>>
    /\ Return(c)

\* Bug: whose key it is was only checked when it was activated.
BugJudgeActive(c) ==
    /\ key[c] \in Keys /\ ~Expired(key[c])
    /\ Goto(c, "judge", "active")
    /\ UNCHANGED <<activation, user, key, spent>>

JudgeActive(c) ==
    /\ key[c] \in Keys /\ Allows(key[c], user[c]) /\ ~Expired(key[c])
    /\ Goto(c, "judge", "active")
    /\ UNCHANGED <<activation, user, key, spent>>

\* Status after the read, up to the deferred unlock.  A check of the gate that
\* ends in "active" goes on to its operation.
Judge(c) ==
    /\ pc[c] = "judge"
    /\ JudgeExpired(c) \/ JudgeDamaged(c) \/ JudgeNone(c) \/ JudgeActive(c)
    /\ mu' = None
    /\ UNCHANGED <<account, now, oauth>>

Operate(c) ==
    /\ pc[c] = "active"
    /\ Return(c)
    /\ UNCHANGED <<account, now, activation, mu, oauth, spent>>

BeginActivate(c, k) ==
    /\ account \in Users
    /\ Goto(c, "idle", "activate")
    /\ user' = [user EXCEPT ![c] = account] /\ key' = [key EXCEPT ![c] = k]
    /\ UNCHANGED <<account, now, activation, mu, oauth, spent>>

\* Activate before s.mu: the claims, the user and the clock.
Examine(c) ==
    /\ pc[c] = "activate"
    /\ IF Allows(key[c], user[c]) /\ ~Expired(key[c])
       THEN Goto(c, "activate", "write") /\ UNCHANGED <<user, key>>
       ELSE Return(c)
    /\ UNCHANGED <<account, now, activation, mu, oauth, spent>>

\* Bug: the file is replaced without s.mu.
BugWriteActivation(c) ==
    /\ pc[c] = "write"
    /\ activation' = key[c] /\ spent' = spent \ {key[c]}
    /\ Return(c)
    /\ UNCHANGED <<account, now, mu, oauth>>

\* Activate under s.mu: license.json is replaced whole, or the write fails.
WriteActivation(c) ==
    /\ pc[c] = "write" /\ mu = None
    /\ \/ activation' = key[c] /\ spent' = spent \ {key[c]}
       \/ UNCHANGED <<activation, spent>>
    /\ Return(c)
    /\ UNCHANGED <<account, now, mu, oauth>>

Deactivate ==
    /\ mu = None
    /\ activation' \in {None, activation}
    /\ UNCHANGED <<account, now, mu, pc, user, key, oauth, spent>>

-----------------------------------------------------------------------------
(***************************************************************************)
(* account.Service                                                         *)
(***************************************************************************)
At(l, from, to) == stage[l] = from /\ stage' = [stage EXCEPT ![l] = to]

Login(l) ==
    /\ At(l, "off", "queued")
    /\ UNCHANGED <<account, now, licensing, loginMu, port, channel, answer, spent>>

\* s.loginMu.Lock(); the login makes a state and a channel of its own.
LockLogin(l) ==
    /\ loginMu = None /\ At(l, "queued", "listen")
    /\ loginMu' = l
    /\ channel' = [channel EXCEPT ![l] = None] /\ answer' = [answer EXCEPT ![l] = None]
    /\ UNCHANGED <<account, now, licensing, port, spent>>

\* net.Listen on the fixed address, or another program has it.
Listen(l) ==
    /\ \/ port = None /\ port' = l /\ At(l, "listen", "open")
       \/ At(l, "listen", "unlock") /\ UNCHANGED port
    /\ UNCHANGED <<account, now, licensing, loginMu, channel, answer, spent>>

\* The browser is opened, or cannot be.
OpenBrowser(l) ==
    /\ At(l, "open", "wait") \/ At(l, "open", "shutdown")
    /\ UNCHANGED <<account, now, licensing, loginMu, port, channel, answer, spent>>

\* Bug: the state of the callback is not compared.
BugMatches(l, callback) == port = l

\* query.Get("state") == state, of the login whose server answers.
Matches(l, callback) == port = l /\ callback.of = l

\* The browser comes to /callback, as often as the user reloads the page and
\* for any login whose consent page is still open somewhere.  A second result
\* finds the channel full and is dropped; one that comes later is not read.
Arrive(l, callback) ==
    /\ Matches(l, callback)
    /\ stage[l] \in {"open", "wait"} /\ channel[l] = None
    /\ channel' = [channel EXCEPT ![l] = callback]
    /\ UNCHANGED <<account, now, licensing, loginMu, port, stage, answer, spent>>

\* select: the result.
Receive(l) ==
    /\ channel[l] # None
    /\ answer' = [answer EXCEPT ![l] = channel[l]]
    /\ channel' = [channel EXCEPT ![l] = None]
    /\ IF channel[l].who = None THEN At(l, "wait", "shutdown") ELSE At(l, "wait", "exchange")
    /\ UNCHANGED <<account, now, licensing, loginMu, port, spent>>

\* Three minutes have passed, or the program ends.
TimeOut(l) ==
    /\ At(l, "wait", "shutdown")
    /\ channel' = [channel EXCEPT ![l] = None]
    /\ UNCHANGED <<account, now, licensing, loginMu, port, answer, spent>>

\* exchangeCode: the code for a token, within the same three minutes.
ExchangeCode(l) ==
    /\ At(l, "exchange", "fetch") \/ At(l, "exchange", "shutdown")
    /\ UNCHANGED <<account, now, licensing, loginMu, port, channel, answer, spent>>

\* fetchUser: the user the token stands for, within what is left of them.
FetchUser(l) ==
    /\ At(l, "fetch", "save") \/ At(l, "fetch", "shutdown")
    /\ UNCHANGED <<account, now, licensing, loginMu, port, channel, answer, spent>>

SaveAccount(l) ==
    /\ At(l, "save", "shutdown")
    /\ account' \in {account, answer[l].who}
    /\ UNCHANGED <<now, licensing, loginMu, port, channel, answer, spent>>

\* The deferred functions, last one first: server.Shutdown closes the listener,
\* then loginMu is released.
Shutdown(l) ==
    /\ At(l, "shutdown", "unlock")
    /\ port' = None
    /\ UNCHANGED <<account, now, licensing, loginMu, channel, answer, spent>>

UnlockLogin(l) ==
    /\ At(l, "unlock", "off")
    /\ loginMu' = None
    /\ channel' = [channel EXCEPT ![l] = None] /\ answer' = [answer EXCEPT ![l] = None]
    /\ UNCHANGED <<account, now, licensing, port, spent>>

Logout ==
    /\ account' = None
    /\ UNCHANGED <<now, licensing, oauth, spent>>

-----------------------------------------------------------------------------
\* Time passes, or the clock is set to another time.
SetClock ==
    /\ now' \in 0..MaxClock
    /\ UNCHANGED <<account, licensing, oauth, spent>>

\* A file is cut short by another program or the disk.
Damage ==
    /\ \/ account' = Damaged /\ UNCHANGED activation
       \/ activation' = Damaged /\ mu = None /\ UNCHANGED account
    /\ UNCHANGED <<now, mu, pc, user, key, oauth, spent>>

CallStep(c) == ReadActivation(c) \/ Judge(c) \/ Operate(c) \/ Examine(c) \/ WriteActivation(c)

LoginStep(l) ==
    \/ LockLogin(l) \/ Listen(l) \/ OpenBrowser(l) \/ Receive(l) \/ TimeOut(l)
    \/ ExchangeCode(l) \/ FetchUser(l) \/ SaveAccount(l) \/ Shutdown(l) \/ UnlockLogin(l)

Next ==
    \/ \E c \in Calls : BeginCheck(c) \/ (\E k \in Keys : BeginActivate(c, k)) \/ CallStep(c)
    \/ Deactivate
    \/ \E l \in Logins : Login(l) \/ LoginStep(l) \/ (\E callback \in Callback : Arrive(l, callback))
    \/ Logout \/ SetClock \/ Damage

Spec == Init /\ [][Next]_vars

-----------------------------------------------------------------------------
(***************************************************************************)
(* Properties                                                              *)
(***************************************************************************)
\* An activation leaves the disk because the user deactivates it or because
\* it has expired itself: a check that found the one before it expired never
\* removes the one a concurrent ActivateKey has just written.
ActivationIsNotLost ==
    [][activation' = None /\ activation \in Keys => Deactivate \/ Expired(activation)]_vars

Admitted(c) == pc[c] # "active" /\ pc'[c] = "active"

\* The gate opens for the activation on disk only, for a user who may use it,
\* and before it expires, whatever logins, activations and clock changes come
\* between asking for the user and judging the key.
AdmittedIsEntitled ==
    [][\A c \in Calls : Admitted(c) =>
          activation = key[c] /\ Allows(key[c], user[c]) /\ ~Expired(key[c])]_vars

\* A key that a check has found expired and removed opens the gate to nobody
\* until it is activated anew, not even after the clock was set back.
SpentKeysStaySpent ==
    [][\A c \in Calls : Admitted(c) => key[c] \notin spent]_vars

\* A login that starts to listen never finds the port taken by the one before.
PortIsFreed ==
    \A l \in Logins : stage[l] = "listen" => port = None

\* The account that is saved is the one of whoever authorized this login: a
\* consent page left open by an earlier one does not answer for it.
LoginsAreNotMixedUp ==
    \A l \in Logins : stage[l] = "save" => answer[l].of = l
-----------------------------------------------------------------------------
(***************************************************************************)
(* The invariant behind them                                               *)
(***************************************************************************)
\* A check that judges holds license.Service.mu, and so it judges the file as
\* it is on disk; a call that activates has its key.
JudgesTheFile ==
    \A c \in Calls :
        /\ pc[c] = "judge" => mu = c /\ key[c] = activation
        /\ pc[c] \in {"activate", "write"} => key[c] \in Keys

SpentIsGone == activation \notin spent

\* Everything between the lock and the unlock of a login is alone, and the
\* listener belongs to it.
OneLoginAtATime ==
    /\ \A l \in Logins : stage[l] \notin {"off", "queued"} => loginMu = l
    /\ port # None => port = loginMu /\ stage[port] \notin {"off", "queued", "listen", "unlock"}

\* What waits in a channel, or was taken from it, is the login's own.
OwnAnswers ==
    \A l \in Logins :
        /\ channel[l] # None => channel[l].of = l
        /\ answer[l] # None => answer[l].of = l
        /\ stage[l] \in {"exchange", "fetch", "save"} => answer[l] # None

IInv == TypeOK /\ JudgesTheFile /\ SpentIsGone /\ OneLoginAtATime /\ OwnAnswers
=============================================================================
