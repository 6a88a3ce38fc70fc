---------------------------- MODULE HumanAccounts ----------------------------
(***************************************************************************)
(* The people who use the dashboard (internal/humanauth/service.go,        *)
(* internal/humanauth/admin.go, internal/adapter/postgres/humanauth.go):   *)
(* their accounts, the sessions they are given in stages, and the changes  *)
(* an administrator or the operator makes meanwhile.                       *)
(*                                                                         *)
(* A request is authenticated by two reads and then works on the session   *)
(* and the user as it read them; every write is a transaction of its own.  *)
(* What the code rests on instead of locks is the security version of the  *)
(* user, which every session carries.  People are taken to give the right  *)
(* password and code.  Throttling, expiry, recovery codes, permissions and *)
(* Store memberships are left out.                                         *)
(***************************************************************************)
EXTENDS Naturals, FiniteSets

CONSTANTS
    Users,
    Sessions,       \* identifiers of sessions
    People,         \* requests and commands at work
    MaxVersion,     \* bound: changes of one account
    MaxSecrets,     \* bound: secrets an authenticator is set up with
    MaxSteps,       \* bound: codes it shows
    FirstOwner

ASSUME HumanAssumption ==
    /\ MaxVersion \in Nat /\ MaxSecrets \in Nat /\ MaxSteps \in Nat /\ FirstOwner \in Users

VARIABLES
    account,    \* admin_users and admin_mfa_credentials
    session,    \* admin_sessions; pw, secret and code are history: what it rests on
    invited,    \* the users with an unused activation token
    person,     \* the requests at work
    secrets     \* secrets made so far

humanVars == <<account, session, invited, person, secrets>>
-----------------------------------------------------------------------------
NoMFA == [secret |-> 0, on |-> FALSE, last |-> 0]
NoAccount == [st |-> "none", owner |-> FALSE, pw |-> 0, version |-> 0, mfa |-> NoMFA]
NoSession == [user |-> FirstOwner, stage |-> "none", version |-> 0, revoked |-> TRUE,
              pw |-> 0, secret |-> 0, code |-> 0, from |-> "login"]
NoPerson == [op |-> "none"]

FreeSessions == {s \in Sessions : session[s].stage = "none"}
NewSession == CHOOSE s \in FreeSessions : TRUE
OwnersNow == {u \in Users : account[u].owner /\ account[u].st = "ACTIVE"}

\* BootstrapOwner.
HumanInit ==
    /\ account = [u \in Users |->
            IF u = FirstOwner
            THEN [NoAccount EXCEPT !.st = "ACTIVE", !.owner = TRUE, !.pw = 1, !.version = 1]
            ELSE NoAccount]
    /\ session = [s \in Sessions |-> NoSession]
    /\ invited = {} /\ person = [x \in People |-> NoPerson] /\ secrets = 0

Goes(x, p) == person' = [person EXCEPT ![x] = p]
Bumped(a) == [a EXCEPT !.version = @ + 1]

\* A password is known by the version it was set with.
SetPassword(a) == [Bumped(a) EXCEPT !.pw = a.version + 1]

\* A transaction that changes the row of u waits for one that has locked it.
Free(u) == \A x \in People : person[x].op = "change" => u \notin person[x].locks
Change(u, a) == Free(u) /\ a.version <= MaxVersion /\ account' = [account EXCEPT ![u] = a]
-----------------------------------------------------------------------------
\* Login: the user is read and the password checked,
LoginReads(x, u) ==
    /\ person[x] = NoPerson /\ account[u].st # "DISABLED" /\ account[u].pw # 0
    /\ Goes(x, [op |-> "login", u |-> u, seen |-> account[u]])
    /\ UNCHANGED <<account, session, invited, secrets>>

\* A session carries the version that was read.
Issued(u, seen) == seen.version

\* and a session of the next stage is created.
LoginIssues(x) ==
    LET p == person[x] IN
    /\ p.op = "login" /\ FreeSessions # {}
    /\ session' = [session EXCEPT ![NewSession] =
            [NoSession EXCEPT !.user = p.u, !.revoked = FALSE, !.pw = p.seen.pw,
                !.version = Issued(p.u, p.seen),
                !.stage = IF p.seen.mfa.on THEN "MFA_PENDING" ELSE "MFA_SETUP"]]
    /\ Goes(x, NoPerson) /\ UNCHANGED <<account, invited, secrets>>

\* Authenticate: the session is read, then its user.
AuthReadsSession(x, s) ==
    /\ person[x] = NoPerson /\ ~session[s].revoked
    /\ Goes(x, [op |-> "session", s |-> s])
    /\ UNCHANGED <<account, session, invited, secrets>>

Accepts(s, a) ==
    /\ session[s].version = a.version /\ a.st # "DISABLED"
    /\ a.st = "PENDING_SETUP" => session[s].stage = "MFA_SETUP"

AuthReadsUser(x) ==
    LET s == person[x].s  a == account[session[s].user] IN
    /\ person[x].op = "session"
    /\ Goes(x, IF Accepts(s, a)
               THEN [op |-> session[s].stage, s |-> s, u |-> session[s].user, seen |-> a]
               ELSE NoPerson)
    /\ UNCHANGED <<account, session, invited, secrets>>
-----------------------------------------------------------------------------
\* A code of the authenticator with that secret is checked.
Coded(op, p, secret, code) ==
    [op |-> op, s |-> p.s, u |-> p.u, seen |-> p.seen, secret |-> secret, code |-> code]

\* VerifyMFA: the authenticator is read and the code checked,
VerifyReads(x, code) ==
    LET p == person[x]  m == account[p.u].mfa IN
    /\ p.op = "MFA_PENDING" /\ m.on /\ m.last < code
    /\ Goes(x, Coded("code", p, m.secret, code))
    /\ UNCHANGED <<account, session, invited, secrets>>

Rotation(p, version, pw) ==
    [op |-> "rotate", s |-> p.s, version |-> version, pw |-> pw, secret |-> p.secret,
     code |-> p.code, revokes |-> FALSE]

\* ConsumeTOTPStep.
Spends(m, code) == m.on /\ m.last < code

VerifySpends(x) ==
    LET p == person[x]  a == account[p.u] IN
    /\ p.op = "code"
    /\ IF Spends(a.mfa, p.code)
       THEN /\ account' = [account EXCEPT ![p.u].mfa.last = p.code]
            /\ Goes(x, Rotation(p, Issued(p.u, p.seen), session[p.s].pw))
       ELSE Goes(x, NoPerson) /\ UNCHANGED account
    /\ UNCHANGED <<session, invited, secrets>>

\* StartEnrollment: a new secret, unless one is enabled.
StartEnrollment(x) ==
    LET u == person[x].u IN
    /\ person[x].op = "MFA_SETUP" /\ secrets < MaxSecrets
    /\ IF account[u].mfa.on THEN UNCHANGED <<account, secrets>>
       ELSE /\ secrets' = secrets + 1
            /\ account' = [account EXCEPT ![u].mfa = [NoMFA EXCEPT !.secret = secrets + 1]]
    /\ Goes(x, NoPerson) /\ UNCHANGED <<session, invited>>

\* ConfirmEnrollment: the pending secret is read and the first code checked,
ConfirmReads(x, code) ==
    LET p == person[x]  m == account[p.u].mfa IN
    /\ p.op = "MFA_SETUP" /\ m.secret # 0 /\ ~m.on
    /\ Goes(x, Coded("confirm", p, m.secret, code))
    /\ UNCHANGED <<account, session, invited, secrets>>

\* and enabled if it is still that one; the account is complete.
EnableMFA(x) ==
    LET p == person[x]  a == account[p.u] IN
    /\ p.op = "confirm"
    /\ IF ~a.mfa.on /\ a.mfa.secret = p.secret
       THEN /\ Change(p.u, [Bumped(a) EXCEPT !.mfa.on = TRUE, !.mfa.last = p.code,
                                !.st = IF @ = "PENDING_SETUP" THEN "ACTIVE" ELSE @])
            /\ Goes(x, Rotation(p, a.version + 1, session[p.s].pw))
       ELSE Goes(x, NoPerson) /\ UNCHANGED account
    /\ UNCHANGED <<session, invited, secrets>>

\* ChangePassword: whoever has a full session sets a new one.
ChangePassword(x) ==
    LET p == person[x]  a == account[p.u] IN
    /\ p.op = "FULL" /\ Change(p.u, SetPassword(a))
    /\ Goes(x, [Rotation([s |-> p.s, secret |-> session[p.s].secret, code |-> 0],
                         a.version + 1, a.version + 1) EXCEPT !.revokes = TRUE])
    /\ UNCHANGED <<session, invited, secrets>>

Logout(x) ==
    /\ person[x].op \in {"MFA_SETUP", "MFA_PENDING", "FULL"}
    /\ session' = [session EXCEPT ![person[x].s].revoked = TRUE]
    /\ Goes(x, NoPerson) /\ UNCHANGED <<account, invited, secrets>>

\* RotateSession ends the old session or fails.
Rotates(s) == ~session[s].revoked

RotateSession(x) ==
    LET p == person[x] IN
    /\ p.op = "rotate" /\ FreeSessions # {}
    /\ IF Rotates(p.s)
       THEN /\ session' = [session EXCEPT ![p.s].revoked = TRUE, ![NewSession] =
                    [user |-> session[p.s].user, stage |-> "FULL", version |-> p.version, revoked |-> FALSE,
                     pw |-> p.pw, secret |-> p.secret, code |-> p.code, from |-> p.s]]
            /\ Goes(x, IF p.revokes THEN [op |-> "revoke", u |-> session[p.s].user, except |-> NewSession]
                       ELSE NoPerson)
       ELSE Goes(x, NoPerson) /\ UNCHANGED session
    /\ UNCHANGED <<account, invited, secrets>>
-----------------------------------------------------------------------------
\* CreateUser, ReissueActivation.
CreateUser(u) ==
    /\ account[u].st \in {"none", "PENDING_SETUP"} /\ u \notin invited
    /\ invited' = invited \cup {u}
    /\ IF account[u].st # "none" THEN UNCHANGED account
       ELSE \E owner \in BOOLEAN :
            account' = [account EXCEPT
                ![u] = [NoAccount EXCEPT !.st = "PENDING_SETUP", !.owner = owner, !.version = 1]]
    /\ UNCHANGED <<session, person, secrets>>

\* Activate: the token is spent and the first password set, then a session
\* is created as after a login.
ConsumeActivation(x, u) ==
    /\ person[x] = NoPerson /\ u \in invited /\ account[u].st = "PENDING_SETUP"
    /\ invited' = invited \ {u} /\ Change(u, SetPassword(account[u]))
    /\ Goes(x, [op |-> "login", u |-> u, seen |-> [SetPassword(account[u]) EXCEPT !.mfa = NoMFA]])
    /\ UNCHANGED <<session, secrets>>

\* ResetPassword and ResetUserMFA: the account, then its sessions.
ResetPassword(x, u) ==
    /\ person[x] = NoPerson /\ account[u].st # "none" /\ Change(u, SetPassword(account[u]))
    /\ Goes(x, [op |-> "revoke", u |-> u, except |-> "none"]) /\ UNCHANGED <<session, invited, secrets>>

ResetUserMFA(x, u) ==
    /\ person[x] = NoPerson /\ account[u].st # "none"
    /\ Change(u, [Bumped(account[u]) EXCEPT !.mfa = NoMFA])
    /\ Goes(x, [op |-> "revoke", u |-> u, except |-> "none"]) /\ UNCHANGED <<session, invited, secrets>>

RevokeUserSessions(x) ==
    LET p == person[x] IN
    /\ p.op = "revoke" /\ Goes(x, NoPerson)
    /\ session' = [s \in Sessions |-> IF session[s].user = p.u /\ s # p.except
                                      THEN [session[s] EXCEPT !.revoked = TRUE] ELSE session[s]]
    /\ UNCHANGED <<account, invited, secrets>>

\* ChangeRole, SetStatus: the target is read; only a complete account may be
\* enabled.
AdminReads(x, u, role, st) ==
    /\ person[x] = NoPerson /\ account[u].st # "none"
    /\ st = "ACTIVE" => account[u].pw # 0 /\ account[u].mfa.on
    /\ Goes(x, [op |-> "admin", u |-> u, owner |-> role, st |-> st])
    /\ UNCHANGED <<account, session, invited, secrets>>

\* Mutant: the owners are counted and not locked.
LocksTarget(u) == {u}

\* ChangeUser locks every active owner and its target,
Locks(u) == OwnersNow \cup {u}

ChangeUserLocks(x) ==
    LET p == person[x] IN
    /\ p.op = "admin" /\ \A u \in Locks(p.u) : Free(u)
    /\ Goes(x, [op |-> "change", u |-> p.u, owner |-> p.owner, st |-> p.st,
                locks |-> Locks(p.u), owners |-> OwnersNow])
    /\ UNCHANGED <<account, session, invited, secrets>>

\* and leaves one active owner.
ChangeUser(x) ==
    LET p == person[x]  a == account[p.u]
        owner == IF p.owner = "keep" THEN a.owner ELSE p.owner = "OWNER"
        st == IF p.st = "keep" THEN a.st ELSE p.st IN
    /\ p.op = "change" /\ a.version < MaxVersion
    /\ IF p.u \in OwnersNow /\ ~(owner /\ st = "ACTIVE") /\ Cardinality(p.owners) <= 1
       THEN Goes(x, NoPerson) /\ UNCHANGED account
       ELSE /\ account' = [account EXCEPT ![p.u] = [Bumped(a) EXCEPT !.owner = owner, !.st = st]]
            /\ Goes(x, IF p.st = "DISABLED" THEN [op |-> "revoke", u |-> p.u, except |-> "none"] ELSE NoPerson)
    /\ UNCHANGED <<session, invited, secrets>>

\* A statement or the process fails; locks are released.
PersonStops(x) ==
    /\ person[x] # NoPerson /\ Goes(x, NoPerson)
    /\ UNCHANGED <<account, session, invited, secrets>>

HumanNext ==
    \/ \E x \in People :
        \/ \E u \in Users :
            \/ LoginReads(x, u) \/ ConsumeActivation(x, u)
            \/ ResetPassword(x, u) \/ ResetUserMFA(x, u)
            \/ \E role \in {"OWNER", "ADMIN"} : AdminReads(x, u, role, "keep")
            \/ \E st \in {"ACTIVE", "DISABLED"} : AdminReads(x, u, "keep", st)
        \/ \E s \in Sessions : AuthReadsSession(x, s)
        \/ \E code \in 1 .. MaxSteps : VerifyReads(x, code) \/ ConfirmReads(x, code)
        \/ LoginIssues(x) \/ AuthReadsUser(x) \/ VerifySpends(x) \/ StartEnrollment(x)
        \/ EnableMFA(x) \/ ChangePassword(x) \/ Logout(x) \/ RotateSession(x)
        \/ RevokeUserSessions(x) \/ ChangeUserLocks(x) \/ ChangeUser(x) \/ PersonStops(x)
    \/ \E u \in Users : CreateUser(u)

HumanSafe == HumanInit /\ [][HumanNext]_humanVars
-----------------------------------------------------------------------------
Usable(s) == ~session[s].revoked /\ Accepts(s, account[session[s].user])

\* A challenge that is accepted rests on the password of now, and a session
\* given for a code on the authenticator of now, whatever was changed between
\* the reads of a request and its writes (Authenticate, newSession).
UsableIsEarned ==
    \A s \in {n \in Sessions : Usable(n)} :
        LET a == account[session[s].user] IN
        /\ session[s].stage # "FULL" => session[s].pw = a.pw
        /\ session[s].code # 0 => a.mfa.on /\ session[s].secret = a.mfa.secret

\* One challenge gives one session, and so does one code of the authenticator
\* that is in use (RotateSession, ConsumeTOTPStep).
SpentOnce ==
    \A s, o \in {n \in Sessions : session[n].stage = "FULL"} :
        LET m == account[session[s].user].mfa IN
        \/ s = o
        \/ /\ session[s].from # session[o].from
           /\ session[s].code # 0 /\ session[s].user = session[o].user /\ session[s].secret = m.secret
                => <<session[s].secret, session[s].code>> # <<session[o].secret, session[o].code>>

\* However many owners are demoted or disabled at once, one is left
\* (ChangeUser).
OwnerRemains == OwnersNow # {}

AccountsAreSound == UsableIsEarned /\ SpentOnce /\ OwnerRemains
=============================================================================
