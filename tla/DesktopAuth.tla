---------------------------- MODULE DesktopAuth ----------------------------
(***************************************************************************)
(* The desktop app's cloud session: cloud-auth.ts, cloud-login-pending.ts, *)
(* desktop-protocol.ts, desktop-ipc.ts and the part of index.ts that joins *)
(* them to the daemon manager (DesktopDaemon models that one's inside).    *)
(*                                                                         *)
(* The main process is one thread: what follows an answer up to the next   *)
(* await is one step.  A request is in flight from the step that sends it  *)
(* to the step that handles its answer, and meets whatever the credentials *)
(* have become.  A token is a sign-in and its number of rotations.         *)
(***************************************************************************)
EXTENDS Integers, Sequences, FiniteSets

CONSTANTS
    None,
    MaxAttempts,    \* bound on sign-in attempts
    MaxRotations,   \* bound on rotations of one session's token
    MaxCalls,       \* bound on requests in flight
    MaxEvents       \* bound on restarts, failed stops and reports of the daemon

ASSUME BoundsAssumption == {MaxAttempts, MaxRotations, MaxCalls, MaxEvents} \subseteq Nat

Attempts == 1 .. MaxAttempts

VARIABLES
    creds,       \* the credentials file and its cache
    generation,  \* authSessionGeneration
    pending,     \* the pending-login file: an attempt
    waiting,     \* pendingCompletion: [state, gen] of a login IPC call
    issued,      \* how many attempts were started
    calls,       \* requests in flight: [kind, at, gen]
    daemon,      \* the credentials of the running daemon
    stop,        \* desktopDaemon.stop(): "none", "running", or "failed"
    logout,      \* None, or the attempts a sign-out under way is about
    expiring,    \* onAuthExpired calls that await the stop: [at, gen]
    mail,        \* messages of the daemon worker
    server,      \* [ver, revoked]
    signedOut,   \* attempts that a finished sign-out was about
    events

login == <<pending, waiting, issued>>
worker == <<daemon, stop, expiring>>
vars == <<creds, generation, login, calls, worker, logout, mail, server, signedOut, events>>

Token(s, v) == [session |-> s, ver |-> v]
Tokens == [session : Attempts, ver : 0 .. MaxRotations]
ASSUME NoneAssumption == None \notin Nat /\ None \notin Tokens
Request(kind, at) == [kind |-> kind, at |-> at, gen |-> generation]
Event == events < MaxEvents /\ events' = events + 1
Current(gen) == gen = generation

Init ==
    /\ creds = None /\ generation = 0
    /\ pending = None /\ waiting = None /\ issued = 0
    /\ calls = {}
    /\ daemon = None /\ stop = "none" /\ logout = None /\ expiring = {} /\ mail = <<>>
    /\ server = [ver |-> [s \in Attempts |-> 0], revoked |-> {}]
    /\ signedOut = {} /\ events = 0

-----------------------------------------------------------------------------
(* The cloud: a session may be revoked, and its token replaced.  A token   *)
(* that was, or is of a revoked session, may be turned away.               *)

Rejectable(t) == t.session \in server.revoked \/ t.ver < server.ver[t.session]
Replies(t) ==
    {[status |-> "failed"]}
      \cup (IF Rejectable(t) THEN {[status |-> "rejected"]} ELSE {})
      \cup (IF t.session \in server.revoked THEN {}
            ELSE {[status |-> "ok", token |-> Token(t.session, server.ver[t.session])]})

InUse(s) == \/ \E t \in {creds, daemon} \ {None} : t.session = s
            \/ \E c \in calls : c.at.session = s

Rotate(s) ==
    /\ InUse(s) /\ s \notin server.revoked /\ server.ver[s] < MaxRotations
    /\ server' = [server EXCEPT !.ver[s] = @ + 1]
    /\ UNCHANGED <<creds, generation, login, calls, worker, logout, mail, signedOut, events>>

Revoke(s) ==
    /\ InUse(s) /\ s \notin server.revoked
    /\ server' = [server EXCEPT !.revoked = @ \cup {s}]
    /\ UNCHANGED <<creds, generation, login, calls, worker, logout, mail, signedOut, events>>

-----------------------------------------------------------------------------
(* The daemon manager, as its callers see it *)

(* syncDaemonSession: ensureRunning refuses while a stop is not over. *)
Sync(t) == /\ daemon' = IF stop = "none" THEN t ELSE daemon
           /\ UNCHANGED <<stop, expiring>>
StopDaemon == stop' = "running" /\ UNCHANGED <<daemon, expiring>>

-----------------------------------------------------------------------------
(* Signing in *)

(* IPC login: a new attempt replaces the pending one and, once the browser *)
(* is open, settles the login that waits.                                  *)
StartLogin ==
    /\ issued < MaxAttempts
    /\ issued' = issued + 1
    /\ \/ pending' = issued' /\ waiting' = [state |-> issued', gen |-> generation]
       \/ pending' = None /\ UNCHANGED waiting     \* the browser does not open
    /\ UNCHANGED <<creds, generation, calls, worker, logout, mail, server, signedOut, events>>

(* The five minutes of the pending attempt are over. *)
Expire ==
    /\ pending # None
    /\ pending' = None
    /\ UNCHANGED <<waiting, issued>>
    /\ UNCHANGED <<creds, generation, calls, worker, logout, mail, server, signedOut, events>>

(* ... and those of the one a page waits for. *)
LoginTimesOut ==
    /\ waiting # None
    /\ waiting' = None
    /\ pending' = IF pending = waiting.state THEN None ELSE pending
    /\ UNCHANGED issued
    /\ UNCHANGED <<creds, generation, calls, worker, logout, mail, server, signedOut, events>>

(* completeProtocolCallback, up to the validation.  The browser may open   *)
(* the callback of any attempt, and more than once.                        *)
Callback(s) ==
    /\ pending = s /\ Cardinality(calls) < MaxCalls
    /\ pending' = None
    /\ calls' = calls \cup {Request("validate", Token(s, server.ver[s]))}
    /\ UNCHANGED <<waiting, issued>>
    /\ UNCHANGED <<creds, generation, worker, logout, mail, server, signedOut, events>>

(* Mutant: the validation does not ask whether the user signed out since. *)
AnyValidated(c, reply) == reply.status = "ok"
Validated(c, reply) == reply.status = "ok" /\ Current(c.gen)

ValidateAnswers(c, reply) ==
    /\ c.kind = "validate"
    /\ calls' = calls \ {c}
    /\ creds' = IF Validated(c, reply) THEN reply.token ELSE creds
    /\ IF waiting = None \/ waiting.state # c.at.session
       THEN UNCHANGED <<waiting, worker>>
       ELSE /\ waiting' = None
            /\ IF Validated(c, reply) /\ Current(waiting.gen) THEN Sync(reply.token)
               ELSE UNCHANGED worker
    /\ UNCHANGED <<pending, issued>>
    /\ UNCHANGED <<generation, logout, mail, server, signedOut, events>>

-----------------------------------------------------------------------------
(* refreshCloudSession and getConvexAuthToken *)

(* IPC refresh-cloud-session and get-convex-auth-token; without credentials *)
(* they end at once and the daemon is stopped.                             *)
Ask(kind) ==
    /\ IF creds = None THEN StopDaemon /\ UNCHANGED calls
       ELSE /\ Cardinality(calls) < MaxCalls
            /\ calls' = calls \cup {Request(kind, creds)}
            /\ UNCHANGED worker
    /\ UNCHANGED <<creds, generation, login, logout, mail, server, signedOut, events>>

(* The credentials after an answer to a refresh of c.at. *)
(* Mutant: the answer is for whoever is signed in now. *)
RefreshedAnyway(c, reply) ==
    CASE reply.status = "rejected" -> None
      [] reply.status = "ok" -> reply.token
      [] OTHER -> creds
Refreshed(c, reply) ==
    IF creds # c.at THEN creds
    ELSE CASE reply.status = "rejected" -> None
           [] reply.status = "ok" -> reply.token
           [] OTHER -> creds

(* What an IPC call does with its result: the daemon gets the session or,   *)
(* when none is left, is stopped.                                          *)
Conclude(c, result, left) ==
    IF ~Current(c.gen) THEN UNCHANGED worker
    ELSE IF result # None THEN Sync(result)
    ELSE IF left = None THEN StopDaemon
    ELSE UNCHANGED worker

RefreshAnswers(c, reply) ==
    /\ c.kind \in {"refresh", "bootstrap", "expired"}
    /\ calls' = calls \ {c}
    /\ creds' = Refreshed(c, reply)
    /\ IF c.kind = "refresh" THEN Conclude(c, creds', creds')
       ELSE IF Current(c.gen) /\ creds' # None THEN Sync(creds')
       ELSE UNCHANGED worker
    /\ UNCHANGED <<generation, login, logout, mail, server, signedOut, events>>

ConvexAnswers(c, reply) ==
    /\ c.kind = "convex"
    /\ IF reply.status = "rejected" /\ creds # None
       THEN calls' = (calls \ {c}) \cup {[c EXCEPT !.kind = "convexRefresh", !.at = creds]}
            /\ UNCHANGED worker
       ELSE /\ calls' = calls \ {c}
            /\ Conclude(c, IF reply.status = "ok" /\ creds = c.at THEN creds ELSE None, creds)
    /\ UNCHANGED <<creds, generation, login, logout, mail, server, signedOut, events>>

ConvexRefreshAnswers(c, reply) ==
    /\ c.kind = "convexRefresh"
    /\ creds' = Refreshed(c, reply)
    /\ IF creds' # None
       THEN calls' = (calls \ {c}) \cup {[c EXCEPT !.kind = "convexRetry", !.at = creds']}
            /\ UNCHANGED worker
       ELSE calls' = calls \ {c} /\ Conclude(c, None, None)
    /\ UNCHANGED <<generation, login, logout, mail, server, signedOut, events>>

ConvexRetryAnswers(c, reply) ==
    /\ c.kind = "convexRetry"
    /\ calls' = calls \ {c}
    /\ creds' = IF reply.status = "rejected" /\ creds = c.at THEN None ELSE creds
    /\ Conclude(c, IF reply.status = "ok" /\ creds = c.at THEN creds ELSE None, creds')
    /\ UNCHANGED <<generation, login, logout, mail, server, signedOut, events>>

Answers(c) ==
    \E reply \in Replies(c.at) :
        \/ ValidateAnswers(c, reply) \/ RefreshAnswers(c, reply) \/ ConvexAnswers(c, reply)
        \/ ConvexRefreshAnswers(c, reply) \/ ConvexRetryAnswers(c, reply)

-----------------------------------------------------------------------------
(* The daemon's own refreshes *)

DaemonRotates ==
    /\ daemon # None /\ daemon.session \notin server.revoked
    /\ daemon.ver < server.ver[daemon.session] /\ Event
    /\ LET t == Token(daemon.session, server.ver[daemon.session])
       IN  daemon' = t /\ mail' = Append(mail, [type |-> "rotated", at |-> daemon, token |-> t])
    /\ UNCHANGED <<stop, expiring>>
    /\ UNCHANGED <<creds, generation, login, calls, logout, server, signedOut>>

(* The worker says it once of a token; that it may here say it again is     *)
(* more than it does.                                                      *)
DaemonExpires ==
    /\ daemon # None /\ Rejectable(daemon) /\ Event
    /\ mail' = Append(mail, [type |-> "expired", at |-> daemon, token |-> daemon])
    /\ UNCHANGED <<creds, generation, login, calls, worker, logout, server, signedOut>>

(* rotateCloudToken, and updateCredentials with what it returns. *)
(* Mutant: any rotated token replaces the stored one. *)
RotatedAnyway(m) == IF creds = None THEN None ELSE m.token
RotatedToken(m) == IF creds = m.at THEN m.token ELSE creds

RotatedArrives ==
    /\ mail # <<>> /\ Head(mail).type = "rotated"
    /\ mail' = Tail(mail)
    /\ creds' = RotatedToken(Head(mail))
    /\ daemon' = IF creds' # None THEN creds' ELSE daemon
    /\ UNCHANGED <<stop, expiring>>
    /\ UNCHANGED <<generation, login, calls, logout, server, signedOut, events>>

(* onAuthExpired, up to its stop of the daemon. *)
ExpiredArrives ==
    /\ mail # <<>> /\ Head(mail).type = "expired"
    /\ mail' = Tail(mail)
    /\ IF creds # Head(mail).at THEN UNCHANGED worker
       ELSE /\ stop' = "running" /\ UNCHANGED daemon
            /\ expiring' = expiring \cup {[at |-> creds, gen |-> generation]}
    /\ UNCHANGED <<creds, generation, login, calls, logout, server, signedOut, events>>

-----------------------------------------------------------------------------
(* Signing out, and the end of a stop *)

Logout ==
    /\ logout = None /\ creds # None
    /\ generation' = generation + 1
    /\ pending' = None
    /\ stop' = "running"
    /\ logout' = 1 .. issued
    /\ UNCHANGED <<waiting, issued, daemon, expiring>>
    /\ UNCHANGED <<creds, calls, mail, server, signedOut, events>>

(* All who await the stop go on, in the order they came: a sign-out first  *)
(* (an onAuthExpired call before it is out of date), then the others.      *)
StopEnds ==
    /\ stop = "running"
    /\ stop' = "none" /\ mail' = <<>> /\ expiring' = {} /\ logout' = None
    /\ IF logout # None
       THEN creds' = None /\ daemon' = None /\ signedOut' = signedOut \cup logout /\ UNCHANGED calls
       ELSE LET due == {x \in expiring : Current(x.gen)}
            IN  /\ UNCHANGED <<creds, signedOut>>
                /\ daemon' = IF creds # None /\ \E x \in due : x.at # creds THEN creds ELSE None
                /\ calls' = calls \cup {Request("expired", creds) : x \in {y \in due : y.at = creds}}
    /\ UNCHANGED <<generation, login, server, events>>

(* The stop gives up: a sign-out then fails, and keeps the credentials. *)
StopFails ==
    /\ stop = "running" /\ Event
    /\ stop' = "failed" /\ expiring' = {} /\ logout' = None
    /\ UNCHANGED <<creds, generation, login, calls, daemon, mail, server, signedOut>>

(* The app ends and starts again, with what is on disk. *)
Restart ==
    /\ Event
    /\ generation' = 0 /\ waiting' = None
    /\ daemon' = None /\ stop' = "none" /\ expiring' = {} /\ logout' = None /\ mail' = <<>>
    /\ calls' = IF creds = None THEN {} ELSE {[kind |-> "bootstrap", at |-> creds, gen |-> 0]}
    /\ UNCHANGED <<creds, pending, issued, server, signedOut>>

-----------------------------------------------------------------------------
Next ==
    \/ StartLogin \/ Expire \/ LoginTimesOut
    \/ \E s \in Attempts : Callback(s) \/ Rotate(s) \/ Revoke(s)
    \/ \E kind \in {"refresh", "convex"} : Ask(kind)
    \/ \E c \in calls : Answers(c)
    \/ DaemonRotates \/ DaemonExpires \/ RotatedArrives \/ ExpiredArrives
    \/ Logout \/ StopEnds \/ StopFails \/ Restart

Spec == Init /\ [][Next]_vars

-----------------------------------------------------------------------------
(* Properties *)

TypeOK ==
    /\ {creds, daemon} \subseteq Tokens \cup {None}
    /\ generation \in Nat
    /\ pending \in Attempts \cup {None} /\ issued \in 0 .. MaxAttempts
    /\ \A c \in calls : c.at \in Tokens
    /\ stop \in {"none", "running", "failed"}

(* Once a sign-out has returned, no answer that was in flight, no callback *)
(* of an earlier attempt, no message of the daemon and no restart brings a *)
(* session it ended back: neither the stored credentials nor the daemon's  *)
(* are of a session that was begun before it (desktop-ipc.ts 173-179,      *)
(* index.ts 244-265, 484-501).                                             *)
LoggedOutStaysOut ==
    /\ TypeOK
    /\ \A t \in {creds, daemon} \ {None} : t.session \notin signedOut

(* A sign-in is dropped by a sign-out or because the cloud turned this very *)
(* token away, never by the late answer about one that was replaced        *)
(* (cloud-auth.ts 196-201, 267-270).                                       *)
LiveSessionKept ==
    [][creds # None /\ creds' = None => logout # None \/ Rejectable(creds)]_vars

(* The stored token changes to that of the sign-in whose callback was just *)
(* validated, or to a later one of the same session: no refresh, and no    *)
(* rotation the daemon reports, revives an older session or an older token *)
(* (cloud-auth.ts 207-217, index.ts 232-243).                              *)
TokensMoveForward ==
    [][creds' \notin {creds, None}
         => \/ \E c \in calls : c.kind = "validate" /\ c.at.session = creds'.session
            \/ creds # None /\ creds'.session = creds.session /\ creds'.ver > creds.ver]_vars
=============================================================================
