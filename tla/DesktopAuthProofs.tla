-------------------------- MODULE DesktopAuthProofs --------------------------
(***************************************************************************)
(* Theorems about the desktop app's cloud session, for every number of     *)
(* sign-ins, rotations, requests in flight and restarts: what a sign-out   *)
(* ended stays ended, what is live is not dropped by a late answer, and    *)
(* the stored token only moves forward.                                    *)
(*                                                                         *)
(* The strengthening is about what is still under way: a validation that   *)
(* counts (its generation is the present one) and a pending attempt are    *)
(* never of a sign-in that a sign-out is about or was about, and no token  *)
(* held anywhere is newer than the cloud's.                                *)
(***************************************************************************)
EXTENDS DesktopAuth, TLAPS

(* The attempts a finished sign-out, or the one under way, is about. *)
Closing == signedOut \cup (IF logout = None THEN {} ELSE logout)

Held(t) == t \in Tokens /\ t.ver <= server.ver[t.session]

ServerInv == server \in [ver : [Attempts -> 0 .. MaxRotations], revoked : SUBSET Attempts]
CountInv == /\ issued \in 0 .. MaxAttempts /\ generation \in Nat
            /\ stop \in {"none", "running", "failed"}
            /\ Closing \subseteq 1 .. issued
PendingInv == pending \in Attempts \cup {None} /\ pending \notin Closing
KeptInv(t) == t # None => Held(t) /\ t.session \notin signedOut
Kinds == {"validate", "refresh", "bootstrap", "expired", "convex", "convexRefresh", "convexRetry"}
CallInv(c) == /\ c \in [kind : Kinds, at : Tokens, gen : Nat]
              /\ Held(c.at) /\ c.gen <= generation
              /\ c.kind = "validate" /\ c.gen = generation => c.at.session \notin Closing
CallsInv == \A c \in calls : CallInv(c)
ExpiringInv == \A x \in expiring : Held(x.at)
Mails == [type : {"rotated", "expired"}, at : Tokens, token : Tokens]
MailInv == /\ mail \in Seq(Mails)
           /\ \A i \in 1 .. Len(mail) :
                mail[i].type = "rotated" =>
                    /\ Held(mail[i].token)
                    /\ mail[i].token.session = mail[i].at.session
                    /\ mail[i].at.ver < mail[i].token.ver

IInv == /\ ServerInv /\ CountInv /\ PendingInv /\ KeptInv(creds) /\ KeptInv(daemon)
        /\ CallsInv /\ ExpiringInv /\ MailInv

(* The bounds are numbers. *)
LEMMA BoundsAreNumbers == MaxAttempts \in Nat /\ MaxRotations \in Nat
BY BoundsAssumption

-----------------------------------------------------------------------------
(* Answers *)

(* What the cloud says of a token: it may be turned away only when it was  *)
(* replaced or revoked, and its successor is of the same session and not   *)
(* older.                                                                  *)
LEMMA ReplyOk ==
    ASSUME ServerInv, NEW t, Held(t), NEW reply \in Replies(t)
    PROVE  /\ reply.status = "rejected" => Rejectable(t)
           /\ reply.status = "ok" => /\ Held(reply.token)
                                     /\ reply.token.session = t.session
                                     /\ t.ver <= reply.token.ver
<1>1. CASE reply = [status |-> "failed"]
  BY <1>1
<1>2. CASE Rejectable(t) /\ reply = [status |-> "rejected"]
  BY <1>2
<1>3. CASE reply = [status |-> "ok", token |-> Token(t.session, server.ver[t.session])]
  BY <1>3, BoundsAreNumbers DEF Held, Tokens, Token, ServerInv
<1> QED BY <1>1, <1>2, <1>3 DEF Replies

(* A refresh answered after the credentials changed leaves them alone.     *)
LEMMA RefreshedOk ==
    ASSUME NEW c, NEW reply
    PROVE  \/ Refreshed(c, reply) = creds
           \/ creds = c.at /\ reply.status = "rejected" /\ Refreshed(c, reply) = None
           \/ creds = c.at /\ reply.status = "ok" /\ Refreshed(c, reply) = reply.token
BY DEF Refreshed

(* What an answer may do to the stored credentials.                        *)
CredsStep(c, reply) ==
    \/ creds' = creds
    \/ creds' = None /\ creds = c.at /\ reply.status = "rejected"
    \/ creds' = reply.token /\ creds = c.at /\ reply.status = "ok"
    \/ creds' = reply.token /\ c.kind = "validate" /\ c.gen = generation /\ reply.status = "ok"

(* The daemon is left as it is, or gets what is now stored.                *)
DaemonStep == daemon' = daemon \/ daemon' = creds'

(* The calls in flight after an answer to c: the others, and perhaps a     *)
(* next one of the same moment for the token now stored.                   *)
CallsStep(c) ==
    \A d \in calls' :
        \/ d \in calls
        \/ /\ creds' # None
           /\ d \in [kind : Kinds \ {"validate"}, at : {creds'}, gen : {c.gen}]

(* What any answer of the cloud may do to the credentials, the daemon and  *)
(* the calls.                                                              *)
LEMMA AnswerStep ==
    ASSUME CountInv, NEW c \in calls, CallInv(c), NEW reply \in Replies(c.at),
           \/ ValidateAnswers(c, reply) \/ RefreshAnswers(c, reply) \/ ConvexAnswers(c, reply)
           \/ ConvexRefreshAnswers(c, reply) \/ ConvexRetryAnswers(c, reply)
    PROVE  /\ CredsStep(c, reply) /\ DaemonStep /\ CallsStep(c)
           /\ expiring' = expiring /\ stop' \in {stop, "running"}
           /\ pending' = pending
           /\ UNCHANGED <<generation, issued, logout, mail, server, signedOut, events>>
<1>1. ASSUME NEW result, NEW left, result \in {creds', None}, Conclude(c, result, left)
      PROVE  DaemonStep /\ expiring' = expiring /\ stop' \in {stop, "running"}
  BY <1>1 DEF Conclude, Sync, StopDaemon, DaemonStep, worker
<1>2. CASE ValidateAnswers(c, reply)
  <2>1. CredsStep(c, reply)
    BY <1>2 DEF ValidateAnswers, CredsStep, Validated, Current
  <2>2. DaemonStep /\ expiring' = expiring /\ stop' \in {stop, "running"}
    BY <1>2 DEF ValidateAnswers, Validated, Sync, DaemonStep, worker
  <2> QED BY <1>2, <2>1, <2>2 DEF ValidateAnswers, CallsStep
<1>3. CASE RefreshAnswers(c, reply)
  <2>1. CredsStep(c, reply)
    BY <1>3, RefreshedOk DEF RefreshAnswers, CredsStep
  <2>2. DaemonStep /\ expiring' = expiring /\ stop' \in {stop, "running"}
    <3>1. CASE c.kind = "refresh"
      BY <1>3, <3>1, <1>1 DEF RefreshAnswers
    <3>2. CASE c.kind # "refresh"
      BY <1>3, <3>2 DEF RefreshAnswers, Sync, DaemonStep, worker
    <3> QED BY <3>1, <3>2
  <2> QED BY <1>3, <2>1, <2>2 DEF RefreshAnswers, CallsStep, login
<1>4. CASE ConvexAnswers(c, reply)
  <2>1. CredsStep(c, reply)
    BY <1>4 DEF ConvexAnswers, CredsStep
  <2>2. CASE reply.status = "rejected" /\ creds # None
    <3>1. CallsStep(c)
      <4>1. [c EXCEPT !.kind = "convexRefresh", !.at = creds]
              \in [kind : Kinds \ {"validate"}, at : {creds}, gen : {c.gen}]
        BY DEF CallInv, Kinds
      <4> QED BY <1>4, <2>2, <4>1 DEF ConvexAnswers, CallsStep, Kinds
    <3> QED BY <1>4, <2>2, <2>1, <3>1 DEF ConvexAnswers, DaemonStep, worker, login
  <2>3. CASE ~(reply.status = "rejected" /\ creds # None)
    <3>1. CallsStep(c)
      BY <1>4, <2>3 DEF ConvexAnswers, CallsStep, Kinds
    <3>2. DaemonStep /\ expiring' = expiring /\ stop' \in {stop, "running"}
      BY <1>4, <2>3, <1>1 DEF ConvexAnswers
    <3> QED BY <1>4, <2>1, <3>1, <3>2 DEF ConvexAnswers, login
  <2> QED BY <2>2, <2>3
<1>5. CASE ConvexRefreshAnswers(c, reply)
  <2>1. CredsStep(c, reply)
    BY <1>5, RefreshedOk DEF ConvexRefreshAnswers, CredsStep
  <2>2. CallsStep(c)
    <3>1. [c EXCEPT !.kind = "convexRetry", !.at = creds']
            \in [kind : Kinds \ {"validate"}, at : {creds'}, gen : {c.gen}]
      BY DEF CallInv, Kinds
    <3> QED BY <1>5, <3>1 DEF ConvexRefreshAnswers, CallsStep, Kinds
  <2>3. DaemonStep /\ expiring' = expiring /\ stop' \in {stop, "running"}
    BY <1>5, <1>1 DEF ConvexRefreshAnswers, DaemonStep, worker
  <2> QED BY <1>5, <2>1, <2>2, <2>3 DEF ConvexRefreshAnswers, login
<1>6. CASE ConvexRetryAnswers(c, reply)
  <2>1. CredsStep(c, reply)
    BY <1>6 DEF ConvexRetryAnswers, CredsStep
  <2>2. DaemonStep /\ expiring' = expiring /\ stop' \in {stop, "running"}
    BY <1>6, <1>1 DEF ConvexRetryAnswers
  <2> QED BY <1>6, <2>1, <2>2 DEF ConvexRetryAnswers, CallsStep, login
<1> QED BY <1>2, <1>3, <1>4, <1>5, <1>6

-----------------------------------------------------------------------------
(* Every step keeps the invariant *)

(* The invariant holds at first. *)
LEMMA InitInv == Init => IInv
<1> SUFFICES ASSUME Init PROVE IInv
  OBVIOUS
<1> USE BoundsAreNumbers DEF Init
<1>1. ServerInv /\ CountInv
  BY DEF ServerInv, CountInv, Closing, Attempts
<1>2. PendingInv /\ KeptInv(creds) /\ KeptInv(daemon)
  BY DEF PendingInv, KeptInv, Closing
<1>3. CallsInv /\ ExpiringInv /\ MailInv
  BY DEF CallsInv, ExpiringInv, MailInv
<1> QED BY <1>1, <1>2, <1>3 DEF IInv

(* What is being ended is a session. *)
LEMMA ClosingApart == ASSUME CountInv PROVE None \notin Closing
<1>1. issued \in Nat
  BY BoundsAreNumbers DEF CountInv
<1>2. \A x \in 1 .. issued : x \in Nat
  BY <1>1
<1> QED BY <1>2, NoneAssumption DEF CountInv

(* Every answer keeps the invariant. *)
LEMMA AnswersInv ==
    ASSUME IInv, NEW c \in calls, Answers(c)
    PROVE  IInv'
<1>1. CallInv(c) /\ Held(c.at)
  BY DEF IInv, CallsInv, CallInv
<1>2. PICK reply \in Replies(c.at) :
         \/ ValidateAnswers(c, reply) \/ RefreshAnswers(c, reply) \/ ConvexAnswers(c, reply)
         \/ ConvexRefreshAnswers(c, reply) \/ ConvexRetryAnswers(c, reply)
  BY DEF Answers
<1>3. /\ CredsStep(c, reply) /\ DaemonStep /\ CallsStep(c)
      /\ expiring' = expiring /\ stop' \in {stop, "running"}
      /\ pending' = pending
      /\ UNCHANGED <<generation, issued, logout, mail, server, signedOut, events>>
  BY <1>1, <1>2, AnswerStep DEF IInv
<1>4. /\ reply.status = "ok" => /\ Held(reply.token)
                                /\ reply.token.session = c.at.session
  BY <1>1, ReplyOk DEF IInv
<1>5. \A t : Held(t)' <=> Held(t)
  BY <1>3 DEF Held
<1>6. Closing' = Closing
  BY <1>3 DEF Closing
<1>7. ServerInv' /\ CountInv' /\ PendingInv'
  BY <1>3, <1>6 DEF IInv, ServerInv, CountInv, PendingInv
<1>8. KeptInv(creds)'
  <2>1. CASE creds' = creds
    BY <2>1, <1>3, <1>5 DEF IInv, KeptInv
  <2>2. CASE creds' = reply.token /\ creds = c.at /\ reply.status = "ok"
    BY <2>2, <1>1, <1>3, <1>4, <1>5, NoneAssumption DEF IInv, KeptInv, Held
  <2>3. CASE creds' = reply.token /\ c.kind = "validate" /\ c.gen = generation
             /\ reply.status = "ok"
    BY <2>3, <1>1, <1>3, <1>4, <1>5 DEF KeptInv, CallInv, Closing
  <2> QED BY <1>3, <2>1, <2>2, <2>3 DEF CredsStep, KeptInv
<1>9. KeptInv(daemon)'
  <2>1. CASE daemon' = daemon
    BY <2>1, <1>3, <1>5 DEF IInv, KeptInv
  <2>2. CASE daemon' = creds'
    BY <2>2, <1>8 DEF KeptInv
  <2> QED BY <1>3, <2>1, <2>2 DEF DaemonStep
<1>10. CallsInv'
  <2> SUFFICES ASSUME NEW d \in calls' PROVE CallInv(d)'
    BY DEF CallsInv
  <2>1. CASE d \in calls
    BY <2>1, <1>3, <1>5, <1>6 DEF IInv, CallsInv, CallInv
  <2>2. CASE creds' # None
             /\ d \in [kind : Kinds \ {"validate"}, at : {creds'}, gen : {c.gen}]
    <3>1. Held(d.at)'
      BY <2>2, <1>8 DEF KeptInv
    <3>2. d.at \in Tokens
      BY <3>1 DEF Held
    <3> QED BY <2>2, <3>1, <3>2, <1>1, <1>3 DEF CallInv
  <2> QED BY <1>3, <2>1, <2>2 DEF CallsStep
<1>11. ExpiringInv' /\ MailInv'
  BY <1>3, <1>5 DEF IInv, ExpiringInv, MailInv
<1> QED BY <1>7, <1>8, <1>9, <1>10, <1>11 DEF IInv

(* The cloud only replaces tokens by newer ones.                           *)
LEMMA CloudInv ==
    ASSUME IInv, NEW s \in Attempts, Rotate(s) \/ Revoke(s)
    PROVE  IInv'
<1>1. /\ UNCHANGED <<creds, generation, pending, issued, calls, daemon, stop, expiring, logout,
                     mail, signedOut>>
  BY DEF Rotate, Revoke, login, worker
<1>2. ServerInv' /\ \A i \in Attempts : server.ver[i] <= server'.ver[i]
  BY BoundsAreNumbers DEF IInv, ServerInv, Rotate, Revoke
<1>3. ASSUME NEW t, Held(t) PROVE Held(t)'
  <2>1. t \in Tokens /\ t.session \in Attempts /\ t.ver \in Nat
    BY <1>3, BoundsAreNumbers DEF Held, Tokens
  <2> QED BY <2>1, <1>2, <1>3, BoundsAreNumbers DEF Held, IInv, ServerInv
<1>4. Closing' = Closing
  BY <1>1 DEF Closing
<1>5. CountInv' /\ PendingInv' /\ KeptInv(creds)' /\ KeptInv(daemon)'
  BY <1>1, <1>3, <1>4 DEF IInv, CountInv, PendingInv, KeptInv
<1>6. CallsInv' /\ ExpiringInv'
  BY <1>1, <1>3, <1>4 DEF IInv, CallsInv, CallInv, ExpiringInv
<1>7. MailInv'
  BY <1>1, <1>3 DEF IInv, MailInv
<1> QED BY <1>2, <1>5, <1>6, <1>7 DEF IInv

(* An attempt begins, lapses or comes back; a page asks for the session.   *)
LEMMA LoginInv ==
    ASSUME IInv,
           \/ StartLogin \/ Expire \/ LoginTimesOut
           \/ \E s \in Attempts : Callback(s)
           \/ \E kind \in {"refresh", "convex"} : Ask(kind)
    PROVE  IInv'
<1>1. UNCHANGED <<creds, generation, daemon, expiring, logout, mail, server, signedOut>>
  BY DEF StartLogin, Expire, LoginTimesOut, Callback, Ask, StopDaemon, login, worker
<1>2. (\A t : Held(t)' <=> Held(t)) /\ Closing' = Closing
  BY <1>1 DEF Held, Closing
<1>3. ServerInv' /\ KeptInv(creds)' /\ KeptInv(daemon)' /\ ExpiringInv' /\ MailInv'
  BY <1>1, <1>2 DEF IInv, ServerInv, KeptInv, ExpiringInv, MailInv
<1>4. CASE StartLogin
  <2>1. CountInv'
    BY <1>1, <1>2, <1>4, BoundsAreNumbers DEF StartLogin, IInv, CountInv, worker
  <2>2. PendingInv'
    BY <1>2, <1>4, ClosingApart, BoundsAreNumbers
       DEF StartLogin, IInv, CountInv, PendingInv, Attempts
  <2>3. CallsInv'
    BY <1>1, <1>2, <1>4 DEF StartLogin, IInv, CallsInv, CallInv
  <2> QED BY <1>3, <2>1, <2>2, <2>3 DEF IInv
<1>5. CASE Expire \/ LoginTimesOut
  <2>1. CountInv' /\ PendingInv'
    BY <1>1, <1>2, <1>5, ClosingApart DEF Expire, LoginTimesOut, IInv, CountInv, PendingInv, worker
  <2>2. CallsInv'
    BY <1>1, <1>2, <1>5 DEF Expire, LoginTimesOut, IInv, CallsInv, CallInv
  <2> QED BY <1>3, <2>1, <2>2 DEF IInv
<1>6. ASSUME NEW s \in Attempts, Callback(s) PROVE IInv'
  <2>1. CountInv' /\ PendingInv'
    BY <1>1, <1>2, <1>6, ClosingApart DEF Callback, IInv, CountInv, PendingInv, worker
  <2>2. Held(Token(s, server.ver[s]))
    BY BoundsAreNumbers DEF Held, Token, Tokens, IInv, ServerInv
  <2>3. CallInv(Request("validate", Token(s, server.ver[s])))
    <3>1. s \notin Closing
      BY <1>6 DEF Callback, IInv, PendingInv
    <3> QED BY <2>2, <3>1 DEF CallInv, Request, IInv, CountInv, Held, Token, Kinds
  <2>4. CallsInv'
    BY <1>1, <1>2, <1>6, <2>3 DEF Callback, IInv, CallsInv, CallInv
  <2> QED BY <1>3, <2>1, <2>4 DEF IInv
<1>7. ASSUME NEW kind \in {"refresh", "convex"}, Ask(kind) PROVE IInv'
  <2>1. CountInv' /\ PendingInv'
    BY <1>1, <1>2, <1>7 DEF Ask, StopDaemon, IInv, CountInv, PendingInv, worker, login
  <2>2. creds # None => CallInv(Request(kind, creds))
    BY DEF CallInv, Request, IInv, CountInv, KeptInv, Held, Kinds
  <2>3. CallsInv'
    BY <1>1, <1>2, <1>7, <2>2 DEF Ask, IInv, CallsInv, CallInv
  <2> QED BY <1>3, <2>1, <2>3 DEF IInv
<1> QED BY <1>4, <1>5, <1>6, <1>7

(* What the daemon reports.                                                *)
LEMMA DaemonInv ==
    ASSUME IInv, DaemonRotates \/ DaemonExpires \/ RotatedArrives \/ ExpiredArrives
    PROVE  IInv'
<1>1. UNCHANGED <<generation, pending, issued, calls, logout, server, signedOut>>
  BY DEF DaemonRotates, DaemonExpires, RotatedArrives, ExpiredArrives, login, worker
<1>2. (\A t : Held(t)' <=> Held(t)) /\ Closing' = Closing
  BY <1>1 DEF Held, Closing
<1>3. ServerInv' /\ PendingInv' /\ CallsInv'
  BY <1>1, <1>2 DEF IInv, ServerInv, PendingInv, CallsInv, CallInv
<1>4. CountInv'
  BY <1>1, <1>2 DEF IInv, CountInv, DaemonRotates, DaemonExpires, RotatedArrives, ExpiredArrives,
                    worker
<1>5. CASE DaemonRotates
  <2> DEFINE t == Token(daemon.session, server.ver[daemon.session])
  <2>1. /\ Held(daemon) /\ daemon.session \notin signedOut
        /\ daemon.session \in Attempts
    BY <1>5 DEF DaemonRotates, IInv, KeptInv, Held, Tokens
  <2>2. Held(t) /\ t.session = daemon.session /\ daemon.ver < t.ver
    BY <1>5, <2>1, BoundsAreNumbers DEF DaemonRotates, Held, Token, Tokens, IInv, ServerInv
  <2>3. /\ daemon' = t /\ mail' = Append(mail, [type |-> "rotated", at |-> daemon, token |-> t])
        /\ UNCHANGED <<creds, expiring>>
    BY <1>5 DEF DaemonRotates
  <2> HIDE DEF t
  <2>4. KeptInv(creds)' /\ KeptInv(daemon)' /\ ExpiringInv'
    BY <1>1, <1>2, <2>1, <2>2, <2>3 DEF IInv, KeptInv, ExpiringInv
  <2>5. [type |-> "rotated", at |-> daemon, token |-> t] \in Mails
    BY <2>1, <2>2 DEF Mails, Held
  <2>6. MailInv'
    BY <1>2, <2>2, <2>3, <2>5 DEF IInv, MailInv
  <2> QED BY <1>3, <1>4, <2>4, <2>6 DEF IInv
<1>6. CASE DaemonExpires
  <2>1. [type |-> "expired", at |-> daemon, token |-> daemon] \in Mails
    BY <1>6 DEF DaemonExpires, Mails, IInv, KeptInv, Held
  <2>2. MailInv'
    BY <1>2, <1>6, <2>1 DEF DaemonExpires, IInv, MailInv
  <2>3. KeptInv(creds)' /\ KeptInv(daemon)' /\ ExpiringInv'
    BY <1>1, <1>2, <1>6 DEF DaemonExpires, worker, IInv, KeptInv, ExpiringInv
  <2> QED BY <1>3, <1>4, <2>2, <2>3 DEF IInv
<1>7. CASE RotatedArrives
  <2> DEFINE m == Head(mail)
  <2>1. /\ m.type = "rotated" /\ m = mail[1] /\ 1 \in 1 .. Len(mail)
        /\ creds' = RotatedToken(m) /\ mail' = Tail(mail) /\ expiring' = expiring
        /\ daemon' = IF creds' # None THEN creds' ELSE daemon
    BY <1>7 DEF RotatedArrives, IInv, MailInv
  <2>2. Held(m.token) /\ m.token.session = m.at.session /\ m.at # None
    <3>1. m \in Mails
      BY <2>1 DEF IInv, MailInv
    <3>2. m.at # None
      BY <3>1, NoneAssumption DEF Mails
    <3> QED BY <2>1, <3>2 DEF IInv, MailInv
  <2> HIDE DEF m
  <2>3. KeptInv(creds)'
    <3>1. CASE creds = m.at
      BY <1>1, <1>2, <2>1, <2>2, <3>1 DEF IInv, KeptInv, RotatedToken
    <3>2. CASE creds # m.at
      BY <1>1, <1>2, <2>1, <3>2 DEF IInv, KeptInv, RotatedToken
    <3> QED BY <3>1, <3>2
  <2>4. KeptInv(daemon)' /\ ExpiringInv'
    BY <1>1, <1>2, <2>1, <2>3 DEF IInv, KeptInv, ExpiringInv
  <2>5. MailInv'
    BY <1>2, <2>1 DEF IInv, MailInv
  <2> QED BY <1>3, <1>4, <2>3, <2>4, <2>5 DEF IInv
<1>8. CASE ExpiredArrives
  <2>1. /\ UNCHANGED <<creds, daemon>> /\ mail # <<>> /\ mail' = Tail(mail)
        /\ \A x \in expiring' : x \in expiring \/ x = [at |-> Head(mail).at, gen |-> generation]
    BY <1>8 DEF ExpiredArrives, worker
  <2>2. (creds # None /\ creds = Head(mail).at) \/ expiring' = expiring
    <3>1. Head(mail) \in Mails
      BY <2>1 DEF IInv, MailInv
    <3> QED BY <1>8, <3>1, NoneAssumption DEF ExpiredArrives, Mails, worker
  <2>3. KeptInv(creds)' /\ KeptInv(daemon)'
    BY <1>1, <1>2, <2>1 DEF IInv, KeptInv
  <2>4. ExpiringInv'
    BY <1>2, <2>1, <2>2 DEF IInv, ExpiringInv, KeptInv
  <2>5. MailInv'
    BY <1>2, <2>1 DEF IInv, MailInv
  <2> QED BY <1>3, <1>4, <2>3, <2>4, <2>5 DEF IInv
<1> QED BY <1>5, <1>6, <1>7, <1>8

(* A sign-out: whatever is under way has an older generation now.          *)
LEMMA LogoutInv ==
    ASSUME IInv, Logout
    PROVE  IInv'
<1>1. /\ generation' = generation + 1 /\ pending' = None /\ stop' = "running"
      /\ logout' = 1 .. issued
      /\ UNCHANGED <<issued, creds, daemon, expiring, calls, mail, server, signedOut>>
  BY DEF Logout
<1>2. (\A t : Held(t)' <=> Held(t))
  BY <1>1 DEF Held
<1>3. Closing' \subseteq 1 .. issued
  BY <1>1 DEF Closing, IInv, CountInv
<1>4. ServerInv' /\ KeptInv(creds)' /\ KeptInv(daemon)' /\ ExpiringInv' /\ MailInv'
  BY <1>1, <1>2 DEF IInv, ServerInv, KeptInv, ExpiringInv, MailInv
<1>5. CountInv'
  BY <1>1, <1>3 DEF IInv, CountInv
<1>6. PendingInv'
  <2>1. issued \in Nat
    BY BoundsAreNumbers DEF IInv, CountInv
  <2>2. \A x \in 1 .. issued : x # None
    BY <2>1, NoneAssumption
  <2> QED BY <1>1, <1>3, <2>2 DEF PendingInv
<1>7. CallsInv'
  BY <1>1, <1>2 DEF IInv, CallsInv, CallInv, CountInv
<1> QED BY <1>4, <1>5, <1>6, <1>7 DEF IInv

(* The stop ends, or gives up, or the app does.                            *)
LEMMA StopInv ==
    ASSUME IInv, StopEnds \/ StopFails \/ Restart
    PROVE  IInv'
<1>1. UNCHANGED <<pending, issued, server>> /\ expiring' = {} /\ logout' = None
      /\ stop' \in {"none", "failed"} /\ generation' \in {0, generation}
  BY DEF StopEnds, StopFails, Restart, login
<1>2. (\A t : Held(t)' <=> Held(t))
  BY <1>1 DEF Held
<1>3. ServerInv' /\ ExpiringInv'
  BY <1>1 DEF IInv, ServerInv, ExpiringInv
<1>4. Closing' \subseteq Closing
  BY <1>1 DEF StopEnds, StopFails, Restart, Closing
<1>5. CountInv' /\ PendingInv'
  <2>1. CountInv'
    <3>1. generation' \in Nat
      BY <1>1 DEF IInv, CountInv
    <3> QED BY <1>1, <1>4, <3>1 DEF IInv, CountInv
  <2>2. PendingInv'
    BY <1>1, <1>4 DEF IInv, PendingInv
  <2> QED BY <2>1, <2>2
<1>6. MailInv'
  <2>1. CASE mail' = mail
    BY <1>2, <2>1 DEF IInv, MailInv
  <2>2. CASE mail' = <<>>
    BY <2>2 DEF MailInv
  <2> QED BY <2>1, <2>2 DEF StopEnds, StopFails, Restart
<1>7. ASSUME creds # None PROVE \A kind \in Kinds \ {"validate"} : \A g \in Nat : g <= generation' =>
                                  (creds' = creds => CallInv([kind |-> kind, at |-> creds, gen |-> g])')
  BY <1>2, <1>7 DEF CallInv, IInv, KeptInv, Held
<1>8. CASE StopEnds
  <2>1. CASE logout # None
    <3>1. creds' = None /\ daemon' = None /\ UNCHANGED <<calls, generation>>
      BY <1>8, <2>1 DEF StopEnds
    <3>2. KeptInv(creds)' /\ KeptInv(daemon)'
      BY <3>1 DEF KeptInv
    <3>3. CallsInv'
      BY <1>2, <1>4, <3>1 DEF IInv, CallsInv, CallInv
    <3> QED BY <1>3, <1>5, <1>6, <3>2, <3>3 DEF IInv
  <2>2. CASE logout = None
    <3> DEFINE again == {Request("expired", creds) :
                            x \in {y \in {z \in expiring : Current(z.gen)} : y.at = creds}}
    <3>1. /\ UNCHANGED <<creds, signedOut, generation>> /\ daemon' \in {creds, None}
          /\ calls' = calls \cup again
      BY <1>8, <2>2 DEF StopEnds
    <3>2. KeptInv(creds)' /\ KeptInv(daemon)'
      BY <1>2, <3>1 DEF IInv, KeptInv
    <3>3. ASSUME NEW d \in again PROVE CallInv(d)'
      <4>1. d = [kind |-> "expired", at |-> creds, gen |-> generation] /\ creds # None
        BY <3>3, NoneAssumption DEF Request, IInv, ExpiringInv, Held
      <4> QED BY <1>7, <3>1, <4>1 DEF Kinds, IInv, CountInv
    <3> HIDE DEF again
    <3>4. CallsInv'
      BY <1>2, <1>4, <3>1, <3>3 DEF IInv, CallsInv, CallInv
    <3> QED BY <1>3, <1>5, <1>6, <3>2, <3>4 DEF IInv
  <2> QED BY <2>1, <2>2
<1>9. CASE StopFails
  <2>1. UNCHANGED <<creds, daemon, calls, generation, signedOut>>
    BY <1>9 DEF StopFails
  <2>2. KeptInv(creds)' /\ KeptInv(daemon)' /\ CallsInv'
    BY <1>2, <1>4, <2>1 DEF IInv, KeptInv, CallsInv, CallInv
  <2> QED BY <1>3, <1>5, <1>6, <2>2 DEF IInv
<1>10. CASE Restart
  <2>1. /\ UNCHANGED <<creds, signedOut>> /\ daemon' = None /\ generation' = 0
        /\ calls' = IF creds = None THEN {} ELSE {[kind |-> "bootstrap", at |-> creds, gen |-> 0]}
    BY <1>10 DEF Restart
  <2>2. KeptInv(creds)' /\ KeptInv(daemon)'
    BY <1>2, <2>1 DEF IInv, KeptInv
  <2>3. CallsInv'
    BY <1>7, <2>1 DEF CallsInv, Kinds
  <2> QED BY <1>3, <1>5, <1>6, <2>2, <2>3 DEF IInv
<1> QED BY <1>8, <1>9, <1>10

(* Every step keeps the invariant. *)
LEMMA StepInv == IInv /\ [Next]_vars => IInv'
<1> SUFFICES ASSUME IInv, [Next]_vars PROVE IInv'
  OBVIOUS
<1>1. CASE UNCHANGED vars
  <2>1. Closing' = Closing /\ \A t : Held(t)' <=> Held(t)
    BY <1>1 DEF vars, Closing, Held
  <2> QED BY <1>1, <2>1 DEF vars, login, worker, IInv, ServerInv, CountInv, PendingInv, KeptInv,
                            CallsInv, CallInv, ExpiringInv, MailInv
<1>2. CASE Next
  BY <1>2, AnswersInv, CloudInv, LoginInv, DaemonInv, LogoutInv, StopInv DEF Next
<1> QED BY <1>1, <1>2

-----------------------------------------------------------------------------
(* The theorems *)

(* The invariant says what the run checks. *)
LEMMA InvTyping == IInv => LoggedOutStaysOut
<1> SUFFICES ASSUME IInv PROVE LoggedOutStaysOut
  OBVIOUS
<1>1. TypeOK
  <2>1. creds \in Tokens \cup {None} /\ daemon \in Tokens \cup {None}
    BY DEF IInv, KeptInv, Held
  <2> QED BY <2>1 DEF TypeOK, IInv, CountInv, PendingInv, CallsInv, CallInv, Held
<1> QED BY <1>1 DEF LoggedOutStaysOut, IInv, KeptInv

(* The invariant always holds. *)
LEMMA Reachable == Spec => []IInv
BY InitInv, StepInv, PTL DEF Spec

(* Whatever is in flight when a sign-out returns, and however many         *)
(* attempts, restarts and reports there are, no session begun before it is *)
(* stored again or given to the daemon.                                    *)
THEOREM SignOutIsFinal == Spec => []LoggedOutStaysOut
BY Reachable, InvTyping, PTL

(* Credentials go only in a sign-out, or when the cloud rejects them. *)
LEMMA KeptStep ==
    ASSUME IInv, [Next]_vars, creds # None, creds' = None
    PROVE  logout # None \/ Rejectable(creds)
<1>1. ASSUME NEW c \in calls, Answers(c) PROVE Rejectable(creds)
  <2>1. CallInv(c) /\ Held(c.at)
    BY DEF IInv, CallsInv, CallInv
  <2>2. PICK reply \in Replies(c.at) :
           \/ ValidateAnswers(c, reply) \/ RefreshAnswers(c, reply) \/ ConvexAnswers(c, reply)
           \/ ConvexRefreshAnswers(c, reply) \/ ConvexRetryAnswers(c, reply)
    BY <1>1 DEF Answers
  <2>3. CredsStep(c, reply)
    BY <2>1, <2>2, AnswerStep DEF IInv
  <2>4. /\ reply.status = "rejected" => Rejectable(c.at)
        /\ reply.status = "ok" => reply.token # None
    BY <2>1, ReplyOk, NoneAssumption DEF IInv, Held
  <2> QED BY <2>3, <2>4 DEF CredsStep
<1>2. ASSUME RotatedArrives PROVE FALSE
  <2>1. mail # <<>> /\ mail \in Seq(Mails) /\ creds' = RotatedToken(Head(mail))
    BY <1>2 DEF RotatedArrives, IInv, MailInv
  <2>2. Head(mail) \in Mails
    BY <2>1
  <2>3. Head(mail).token # None
    BY <2>2, NoneAssumption DEF Mails
  <2> QED BY <2>1, <2>3 DEF RotatedToken
<1>3. ASSUME StopEnds PROVE logout # None
  BY <1>3 DEF StopEnds
<1>4. CASE UNCHANGED vars
  BY <1>4 DEF vars
<1>5. CASE Next
  BY <1>1, <1>2, <1>3, <1>5
     DEF Next, StartLogin, Expire, LoginTimesOut, Callback, Rotate, Revoke, Ask, DaemonRotates,
         DaemonExpires, ExpiredArrives, Logout, StopFails, Restart
<1> QED BY <1>4, <1>5

(* The stored sign-in goes only with a sign-out, or because the cloud      *)
(* turned this token away: no late answer and no report drops a live one.  *)
THEOREM LiveSessionIsKept == Spec => LiveSessionKept
BY Reachable, KeptStep, PTL DEF Spec, LiveSessionKept

(* Credentials change only to a new sign-in or a later rotation. *)
LEMMA ForwardStep ==
    ASSUME IInv, [Next]_vars, creds' \notin {creds, None}
    PROVE  \/ \E c \in calls : c.kind = "validate" /\ c.at.session = creds'.session
           \/ creds # None /\ creds'.session = creds.session /\ creds'.ver > creds.ver
<1>1. ASSUME NEW c \in calls, Answers(c)
      PROVE  \/ c.kind = "validate" /\ c.at.session = creds'.session
             \/ creds # None /\ creds'.session = creds.session /\ creds'.ver > creds.ver
  <2>1. CallInv(c) /\ Held(c.at) /\ c.at # None
    BY NoneAssumption DEF IInv, CallsInv, CallInv, Held
  <2>2. PICK reply \in Replies(c.at) :
           \/ ValidateAnswers(c, reply) \/ RefreshAnswers(c, reply) \/ ConvexAnswers(c, reply)
           \/ ConvexRefreshAnswers(c, reply) \/ ConvexRetryAnswers(c, reply)
    BY <1>1 DEF Answers
  <2>3. CredsStep(c, reply)
    BY <2>1, <2>2, AnswerStep DEF IInv
  <2>4. reply.status = "ok" => /\ Held(reply.token)
                               /\ reply.token.session = c.at.session
                               /\ c.at.ver <= reply.token.ver
    BY <2>1, ReplyOk DEF IInv
  <2>5. CASE creds' = reply.token /\ creds = c.at /\ reply.status = "ok"
    <3>1. /\ creds \in [session : Attempts, ver : 0 .. MaxRotations]
          /\ creds' \in [session : Attempts, ver : 0 .. MaxRotations]
      BY <2>1, <2>4, <2>5 DEF Held, Tokens
    <3>2. creds'.session = creds.session /\ creds.ver <= creds'.ver
      BY <2>4, <2>5
    <3>3. creds.ver # creds'.ver
      BY <3>1, <3>2
    <3> QED BY <2>1, <2>5, <3>1, <3>2, <3>3, BoundsAreNumbers
  <2> QED BY <2>3, <2>4, <2>5 DEF CredsStep
<1>2. ASSUME RotatedArrives
      PROVE  creds # None /\ creds'.session = creds.session /\ creds'.ver > creds.ver
  <2> DEFINE m == Head(mail)
  <2>1. m.type = "rotated" /\ m = mail[1] /\ 1 \in 1 .. Len(mail) /\ creds' = RotatedToken(m)
    BY <1>2 DEF RotatedArrives, IInv, MailInv
  <2>2. m \in Mails /\ m.token.session = m.at.session /\ m.at.ver < m.token.ver
    BY <2>1 DEF IInv, MailInv
  <2> HIDE DEF m
  <2>3. creds = m.at /\ creds' = m.token
    BY <2>1 DEF RotatedToken
  <2>4. m.at # None /\ m.at.ver \in Nat /\ m.token.ver \in Nat
    BY <2>2, NoneAssumption, BoundsAreNumbers DEF Mails, Tokens
  <2> QED BY <2>2, <2>3, <2>4
<1>3. CASE UNCHANGED vars
  BY <1>3 DEF vars
<1>4. CASE Next
  BY <1>1, <1>2, <1>4
     DEF Next, StartLogin, Expire, LoginTimesOut, Callback, Rotate, Revoke, Ask, DaemonRotates,
         DaemonExpires, ExpiredArrives, Logout, StopEnds, StopFails, Restart
<1> QED BY <1>3, <1>4

(* The stored token becomes only that of a sign-in being validated, or a   *)
(* later one of its own session, however answers and reports interleave.   *)
THEOREM TokensOnlyMoveForward == Spec => TokensMoveForward
BY Reachable, ForwardStep, PTL DEF Spec, TokensMoveForward

=============================================================================
