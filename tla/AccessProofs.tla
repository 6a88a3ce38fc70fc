---------------------------- MODULE AccessProofs ----------------------------
(***************************************************************************)
(* Who is let in: what StoreRegistry guarantees for every number of        *)
(* workstations, credentials, Stores and requests at work, and             *)
(* HumanAccounts for every number of users, sessions and requests.         *)
(***************************************************************************)
EXTENDS StoreRegistry, HumanAccounts, FiniteSetTheorems, TLAPS

Rotating == [op : {"rotate"}, dev : Workstations]
Admission == [op : {"credential", "device", "admitted"}, cred : Credentials,
              dev : Workstations, store : Stores, late : BOOLEAN]

Types ==
    /\ station \in [Workstations -> {"none", "active", "revoked"}]
    /\ credential \in [Credentials -> {NoCredential} \cup
                                      [of : Workstations, st : {"active", "revoked"}]]
    /\ founded \subseteq Stores
    /\ binding \in [Workstations -> Stores \cup {NoStore}]
    /\ request \in [Requests -> {Idle} \cup Rotating \cup Admission]
    /\ founder \subseteq Workstations

\* A request that came after the revocation has not passed the device's
\* check, and never will: nothing activates a revoked device.
LateIsRefused ==
    \A x \in Requests :
        request[x].op \in {"credential", "device", "admitted"} /\ request[x].late =>
            station[request[x].dev] = "revoked" /\ request[x].op # "admitted"

\* A binding names a Store that exists, and who founded one is bound.
BindingsExist ==
    /\ \A d \in Workstations : binding[d] # NoStore => binding[d] \in founded
    /\ \A d \in founder : binding[d] # NoStore

Inv == Types /\ LateIsRefused /\ BindingsExist /\ OneFounder
-----------------------------------------------------------------------------
(* What a request is, by its operation.                                    *)

LEMMA RequestParts ==
  ASSUME Types, NEW x \in Requests
  PROVE  /\ request[x].op = "rotate" => request[x] \in Rotating /\ request[x].dev \in Workstations
         /\ request[x].op \in {"credential", "device", "admitted"} =>
              /\ request[x] \in Admission
              /\ request[x].dev \in Workstations /\ request[x].store \in Stores
              /\ request[x].cred \in Credentials
<1>1. request[x] \in {Idle} \cup Rotating \cup Admission
  BY DEF Types
<1>2. CASE request[x] = Idle
  BY <1>2 DEF Idle
<1>3. CASE request[x] \in Rotating
  BY <1>3 DEF Rotating
<1>4. CASE request[x] \in Admission
  BY <1>4 DEF Admission
<1>5. QED BY <1>1, <1>2, <1>3, <1>4

LEMMA CredentialParts ==
  ASSUME Types, NEW c \in Credentials, credential[c].st # "none"
  PROVE  credential[c] \in [of : Workstations, st : {"active", "revoked"}]
  BY DEF Types, NoCredential

LEMMA FreshIsUnused ==
  ASSUME Unused # {}
  PROVE  Fresh \in Credentials
  BY DEF Fresh, Unused
-----------------------------------------------------------------------------
LEMMA TypesKept ==
  ASSUME Types, [RegistryNext]_registryVars
  PROVE  Types'
<1> USE DEF Types
<1>1. ASSUME NEW d \in Workstations, Provision(d) PROVE Types'
  BY <1>1, FreshIsUnused DEF Provision
<1>2. ASSUME NEW d \in Workstations, RevokeDeviceAll(d) PROVE Types'
  BY <1>2 DEF RevokeDeviceAll, ActiveOf
<1>3. ASSUME NEW c \in Credentials, RevokeCredential(c) PROVE Types'
  <2>1. credential[c] \in [of : Workstations, st : {"active", "revoked"}]
    BY <1>3, CredentialParts DEF RevokeCredential
  <2>2. [credential[c] EXCEPT !.st = "revoked"] \in [of : Workstations, st : {"active", "revoked"}]
    BY <2>1
  <2>3. QED BY <1>3, <2>2 DEF RevokeCredential
<1>4. ASSUME NEW d \in Workstations, NEW s \in Stores, EnrollStore(d, s) PROVE Types'
  BY <1>4 DEF EnrollStore
<1>5. ASSUME NEW x \in Requests, NEW d \in Workstations, RotateReads(x, d) PROVE Types'
  <2>1. [op |-> "rotate", dev |-> d] \in Rotating
    BY DEF Rotating
  <2>2. QED BY <1>5, <2>1 DEF RotateReads, Becomes
<1>6. ASSUME NEW x \in Requests, Rotate(x) PROVE Types'
  <2>1. request[x].dev \in Workstations
    BY <1>6, RequestParts DEF Rotate
  <2>2. QED BY <1>6, <2>1 DEF Rotate, Becomes
<1>7. ASSUME NEW x \in Requests, NEW c \in Credentials, NEW s \in Stores, Arrives(x, c, s)
      PROVE  Types'
  <2>1. credential[c].of \in Workstations
    BY <1>7, CredentialParts DEF Arrives
  <2>2. [op |-> "credential", cred |-> c, dev |-> credential[c].of, store |-> s,
         late |-> station[credential[c].of] = "revoked"] \in Admission
    BY <2>1 DEF Admission
  <2>3. QED BY <1>7, <2>2 DEF Arrives, Becomes
<1>8. ASSUME NEW x \in Requests, ReadsCredential(x) PROVE Types'
  <2>1. request[x] \in Admission
    BY <1>8, RequestParts DEF ReadsCredential
  <2>2. [request[x] EXCEPT !.op = "device"] \in Admission
    BY <2>1 DEF Admission
  <2>3. QED BY <1>8, <2>2 DEF ReadsCredential, Becomes
<1>9. ASSUME NEW x \in Requests, ReadsDevice(x) PROVE Types'
  <2>1. request[x] \in Admission
    BY <1>9, RequestParts DEF ReadsDevice
  <2>2. [request[x] EXCEPT !.op = "admitted"] \in Admission
    BY <2>1 DEF Admission
  <2>3. QED BY <1>9, <2>2 DEF ReadsDevice, Becomes
<1>10. ASSUME NEW x \in Requests, RegisterStore(x) PROVE Types'
  <2>1. request[x].dev \in Workstations /\ request[x].store \in Stores
    BY <1>10, RequestParts DEF RegisterStore
  <2>2. QED BY <1>10, <2>1 DEF RegisterStore, Becomes
<1>11. CASE UNCHANGED registryVars
  BY <1>11 DEF registryVars
<1>12. QED
  BY <1>1, <1>2, <1>3, <1>4, <1>5, <1>6, <1>7, <1>8, <1>9, <1>10, <1>11 DEF RegistryNext
-----------------------------------------------------------------------------
(* A revoked device stays revoked, whatever its credentials are.           *)

LEMMA RevokedStays ==
  ASSUME Types, [RegistryNext]_registryVars, NEW d \in Workstations, station[d] = "revoked"
  PROVE  station'[d] = "revoked"
<1>1. ASSUME NEW e \in Workstations, Provision(e) PROVE station'[d] = "revoked"
  BY <1>1 DEF Provision, Types
<1>2. ASSUME NEW e \in Workstations, RevokeDeviceAll(e) PROVE station'[d] = "revoked"
  BY <1>2 DEF RevokeDeviceAll, Types
<1>3. QED
  BY <1>1, <1>2 DEF RegistryNext, registryVars, RevokeCredential, EnrollStore, RotateReads,
     Rotate, Arrives, ReadsCredential, ReadsDevice, RegisterStore

\* What a step makes of a request that is refused now or later.
Late(r) == r.op \in {"credential", "device", "admitted"} /\ r.late

LEMMA LateIsRefusedKept ==
  ASSUME Types, LateIsRefused, [RegistryNext]_registryVars
  PROVE  LateIsRefused'
<1> SUFFICES ASSUME NEW y \in Requests, Late(request'[y])
             PROVE  station'[request'[y].dev] = "revoked" /\ request'[y].op # "admitted"
  BY DEF LateIsRefused, Late
<1>1. CASE request'[y] = request[y]
  BY <1>1, RequestParts, RevokedStays DEF LateIsRefused, Late
<1>2. ASSUME NEW d \in Workstations, RotateReads(y, d) PROVE FALSE
  BY <1>2 DEF RotateReads, Becomes, Types, Late
<1>3. ASSUME NEW c \in Credentials, NEW s \in Stores, Arrives(y, c, s)
      PROVE  station'[request'[y].dev] = "revoked" /\ request'[y].op # "admitted"
  BY <1>3 DEF Arrives, Becomes, Types, Late
<1>4. ASSUME ReadsCredential(y)
      PROVE  station'[request'[y].dev] = "revoked" /\ request'[y].op # "admitted"
  <2>1. request[y] \in Admission
    BY <1>4, RequestParts DEF ReadsCredential
  <2>2. request'[y] = [request[y] EXCEPT !.op = "device"]
    BY <1>4 DEF ReadsCredential, Becomes, Types, Late, Idle
  <2>3. QED BY <1>4, <2>1, <2>2 DEF ReadsCredential, Admission, LateIsRefused, Late
<1>5. ASSUME ReadsDevice(y) PROVE FALSE
  <2>1. request[y] \in Admission
    BY <1>5, RequestParts DEF ReadsDevice
  <2>2. /\ station[request[y].dev] = "active"
        /\ request'[y] = [request[y] EXCEPT !.op = "admitted"]
    BY <1>5 DEF ReadsDevice, Becomes, Types, Late, Idle
  <2>3. QED BY <1>5, <2>1, <2>2 DEF ReadsDevice, Admission, LateIsRefused, Late
<1>6. ASSUME Rotate(y) \/ RegisterStore(y) PROVE FALSE
  BY <1>6 DEF Rotate, RegisterStore, Becomes, Types, Late, Idle
<1>7. ASSUME NEW x \in Requests, x # y,
             \/ \E d \in Workstations : RotateReads(x, d)
             \/ Rotate(x)
             \/ \E c \in Credentials, s \in Stores : Arrives(x, c, s)
             \/ ReadsCredential(x) \/ ReadsDevice(x) \/ RegisterStore(x)
      PROVE  request'[y] = request[y]
  BY <1>7 DEF RotateReads, Rotate, Arrives, ReadsCredential, ReadsDevice, RegisterStore,
     Becomes, Types
<1>8. QED
  BY <1>1, <1>2, <1>3, <1>4, <1>5, <1>6, <1>7 DEF RegistryNext, registryVars, Provision,
     RevokeDeviceAll, RevokeCredential, EnrollStore
-----------------------------------------------------------------------------
(* The two ways to be bound.                                               *)

LEMMA BindingsKept ==
  ASSUME Types, BindingsExist, OneFounder, [RegistryNext]_registryVars
  PROVE  BindingsExist' /\ OneFounder'
<1> USE DEF BindingsExist, OneFounder, Types
<1>1. ASSUME NEW x \in Requests, RegisterStore(x) PROVE BindingsExist' /\ OneFounder'
  <2>1. request[x].dev \in Workstations /\ request[x].store \in Stores
    BY <1>1, RequestParts DEF RegisterStore
  <2>2. QED BY <1>1, <2>1, RegistryAssumption DEF RegisterStore, MayRegister
<1>2. ASSUME NEW d \in Workstations, NEW s \in Stores, EnrollStore(d, s)
      PROVE  BindingsExist' /\ OneFounder'
  BY <1>2, RegistryAssumption DEF EnrollStore
<1>3. QED
  BY <1>1, <1>2 DEF RegistryNext, registryVars, Provision, RevokeDeviceAll, RevokeCredential,
     RotateReads, Rotate, Arrives, ReadsCredential, ReadsDevice

LEMMA BindingsOnlyFirst ==
  ASSUME Types, [RegistryNext]_registryVars, NEW d \in Workstations, binding'[d] # binding[d]
  PROVE  binding[d] = NoStore /\ station[d] = "active"
<1> USE DEF Types
<1>1. ASSUME NEW x \in Requests, RegisterStore(x)
      PROVE  binding[d] = NoStore /\ station[d] = "active"
  <2>1. request[x].dev \in Workstations
    BY <1>1, RequestParts DEF RegisterStore
  <2>2. QED BY <1>1, <2>1 DEF RegisterStore, MayRegister
<1>2. ASSUME NEW e \in Workstations, NEW s \in Stores, EnrollStore(e, s)
      PROVE  binding[d] = NoStore /\ station[d] = "active"
  BY <1>2 DEF EnrollStore
<1>3. QED
  BY <1>1, <1>2 DEF RegistryNext, registryVars, Provision, RevokeDeviceAll, RevokeCredential,
     RotateReads, Rotate, Arrives, ReadsCredential, ReadsDevice
-----------------------------------------------------------------------------
LEMMA InvInit == RegistryInit => Inv
  BY DEF RegistryInit, Inv, Types, LateIsRefused, BindingsExist, OneFounder, Idle

LEMMA InvKept == Inv /\ [RegistryNext]_registryVars => Inv'
  BY TypesKept, LateIsRefusedKept, BindingsKept DEF Inv

LEMMA InvAlways == RegistrySpec => []Inv
  BY InvInit, InvKept, PTL DEF RegistrySpec

LEMMA InvIsSound == Inv => RegistryIsSound
<1> SUFFICES ASSUME Inv PROVE RegistryIsSound
  OBVIOUS
<1>1. RegistryTypeOK
  BY DEF Inv, Types, RegistryTypeOK
<1>2. RevokedIsOut
  BY DEF Inv, LateIsRefused, RevokedIsOut
<1>3. QED BY <1>1, <1>2 DEF RegistryIsSound, Inv

\* However many workstations register, enroll, rotate and are revoked at
\* once, one founds a Store and the rest join it only by the operator, and no
\* request made after a revocation is admitted (store.go RegisterStore,
\* auth/service.go Authenticate).
THEOREM RegistrySound == RegistrySpec => []RegistryIsSound
  BY InvAlways, InvIsSound, PTL

\* A binding is never changed or removed, and none is made for a workstation
\* that is not active when it is made (store.go RegisterStore, EnrollStore).
THEOREM FirstBindingStays == RegistrySpec => BindingsStay
<1>1. Inv /\ [RegistryNext]_registryVars =>
        [\A d \in Workstations :
            binding'[d] # binding[d] => binding[d] = NoStore /\ station[d] = "active"]_registryVars
  BY BindingsOnlyFirst DEF Inv
<1>2. QED BY <1>1, InvAlways, PTL DEF RegistrySpec, BindingsStay
-----------------------------------------------------------------------------
(* HumanAccounts.  What a session, or a request that will rotate one, rests *)
(* on is as old as the version it carries.                                  *)

Authenticators == [secret : Nat, on : BOOLEAN, last : Nat]
AccountRows ==
    [st : {"none", "PENDING_SETUP", "ACTIVE", "DISABLED"}, owner : BOOLEAN, pw : Nat,
     version : Nat, mfa : Authenticators]
Challenges == {"MFA_SETUP", "MFA_PENDING"}
SessionRows ==
    [user : Users, stage : {"none", "FULL"} \cup Challenges, version : Nat, revoked : BOOLEAN,
     pw : Nat, secret : Nat, code : Nat, from : Sessions \cup {"login"}]

HumanTyped ==
    /\ account \in [Users -> AccountRows] /\ session \in [Sessions -> SessionRows]
    /\ secrets \in Nat /\ person = [x \in People |-> person[x]]

AccountFits(a, n) ==
    /\ a.mfa.secret <= n /\ (a.mfa.on => a.mfa.secret # 0)
    /\ a.st = "none" => a.version = 0 /\ a.pw = 0

\* What was given for a code; h is a session or a rotation.
Holds(h, a, n) ==
    /\ a.st # "none" /\ h.version <= a.version
    /\ h.secret <= n /\ (h.code # 0 => h.secret # 0)
    /\ h.version = a.version /\ h.code # 0 => a.mfa.on /\ h.secret = a.mfa.secret
    /\ h.code # 0 /\ h.secret = a.mfa.secret => a.mfa.on /\ h.code <= a.mfa.last

SessionFits(s) ==
    LET n == session[s]  a == account[n.user] IN
    /\ n.stage = "none" => n.revoked /\ n.code = 0
    /\ n.stage # "none" => Holds(n, a, secrets)
    /\ n.stage \in Challenges => n.code = 0 /\ (n.version = a.version => n.pw = a.pw)
    /\ n.stage = "FULL" => /\ n.from \in Sessions /\ session[n.from].revoked
                           /\ session[n.from].stage # "none"

OnSession == {"FULL", "code", "confirm"} \cup Challenges

LoginFits(p) ==
    p.op = "login" =>
        LET a == account[p.u] IN
        /\ p.u \in Users /\ p.seen \in AccountRows /\ a.st # "none"
        /\ p.seen.version <= a.version /\ (p.seen.version = a.version => p.seen.pw = a.pw)

StageFits(p) ==
    /\ p.op \in {"session", "rotate"} \cup OnSession =>
        p.s \in Sessions /\ session[p.s].stage # "none"
    /\ p.op \in OnSession =>
        /\ p.u = session[p.s].user /\ p.seen \in AccountRows
        /\ p.seen.version <= account[p.u].version
    /\ p.op \in {"code", "confirm"} =>
        p.secret \in Nat \ {0} /\ p.secret <= secrets /\ p.code \in Nat \ {0}
    /\ p.op = "code" /\ p.seen.version = account[p.u].version =>
        account[p.u].mfa.on /\ account[p.u].mfa.secret = p.secret

RotationTyped(p) ==
    /\ p.version \in Nat /\ p.pw \in Nat /\ p.secret \in Nat /\ p.code \in Nat
    /\ p.revokes \in BOOLEAN

RotationFits(p) ==
    p.op = "rotate" => RotationTyped(p) /\ Holds(p, account[session[p.s].user], secrets)

ChangeFits(p) ==
    /\ p.op = "revoke" => p.u \in Users
    /\ p.op \in {"admin", "change"} =>
        /\ p.u \in Users /\ account[p.u].st # "none"
        /\ p.owner \in {"keep", "OWNER", "ADMIN"} /\ p.st \in {"keep", "ACTIVE", "DISABLED"}
    /\ p.op = "change" =>
        /\ p.owners \subseteq OwnersNow /\ p.owners \subseteq p.locks /\ p.u \in p.locks
        /\ IsFiniteSet(p.owners)

PersonFits(p) ==
    /\ p.op \in {"none", "login", "session", "rotate", "revoke", "admin", "change"} \cup OnSession
    /\ LoginFits(p) /\ StageFits(p) /\ RotationFits(p) /\ ChangeFits(p)

Fits ==
    /\ \A u \in Users : AccountFits(account[u], secrets)
    /\ \A s \in Sessions : SessionFits(s)
    /\ \A x \in People : PersonFits(person[x])

\* No two were given for one code of the authenticator in use.
Differ(g, h, a) ==
    g.code # 0 /\ g.secret = a.mfa.secret => <<g.secret, g.code>> # <<h.secret, h.code>>

UserOf(p) == session[p.s].user

SessionsDiffer ==
    \A s, o \in Sessions :
        s # o /\ session[s].user = session[o].user =>
            Differ(session[s], session[o], account[session[s].user])

MixedDiffer ==
    \A s \in Sessions : \A x \in People :
        person[x].op = "rotate" /\ UserOf(person[x]) = session[s].user =>
            Differ(session[s], person[x], account[session[s].user])

PeopleDiffer ==
    \A x, y \in People :
        x # y /\ person[x].op = "rotate" /\ person[y].op = "rotate"
            /\ UserOf(person[x]) = UserOf(person[y])
        => Differ(person[x], person[y], account[UserOf(person[x])])

FromDiffer ==
    \A s, o \in Sessions :
        s # o /\ session[s].stage = "FULL" /\ session[o].stage = "FULL"
            => session[s].from # session[o].from

CodesDiffer == SessionsDiffer /\ MixedDiffer /\ PeopleDiffer

LocksDiffer ==
    \A x, y \in People :
        x # y /\ person[x].op = "change" /\ person[y].op = "change"
            => person[x].locks \cap person[y].locks = {}

OwnersFit == IsFiniteSet(OwnersNow) /\ OwnersNow # {}

HumanInv == HumanTyped /\ Fits /\ CodesDiffer /\ FromDiffer /\ LocksDiffer /\ OwnersFit
-----------------------------------------------------------------------------
LEMMA HumanTypes ==
    ASSUME HumanInv
    PROVE  /\ \A u \in Users :
                /\ account[u] \in AccountRows /\ AccountFits(account[u], secrets)
                /\ account[u].version \in Nat /\ account[u].mfa \in Authenticators
                /\ account[u].mfa.secret \in Nat /\ account[u].mfa.last \in Nat
                /\ account[u].mfa.on \in BOOLEAN
           /\ \A s \in Sessions :
                /\ session[s] \in SessionRows /\ SessionFits(s) /\ session[s].user \in Users
                /\ session[s].version \in Nat /\ session[s].secret \in Nat /\ session[s].code \in Nat
           /\ \A x \in People : PersonFits(person[x])
           /\ secrets \in Nat
BY DEF HumanInv, HumanTyped, Fits, AccountRows, Authenticators, SessionRows

\* What may become of an account while n secrets have been made.
Moves(a, b, n) ==
    /\ a.st # "none" => b.st # "none"
    /\ a.version <= b.version
    /\ a.version = b.version =>
        /\ a.pw = b.pw
        /\ a.mfa.on => b.mfa.on /\ b.mfa.secret = a.mfa.secret
    /\ a.mfa.on /\ b.mfa.secret = a.mfa.secret => b.mfa.on /\ a.mfa.last <= b.mfa.last
    /\ b.mfa.secret \in {a.mfa.secret, 0} \/ b.mfa.secret > n

LEMMA MovesAreNone ==
    ASSUME NEW a \in AccountRows, NEW n PROVE Moves(a, a, n)
<1>1. a.version \in Nat /\ a.mfa \in Authenticators
    BY DEF AccountRows
<1>2. a.mfa.last \in Nat
    BY <1>1 DEF Authenticators
<1> QED
    BY <1>1, <1>2 DEF Moves

LEMMA HoldsMoves ==
    ASSUME NEW a \in AccountRows, NEW b \in AccountRows, NEW n \in Nat, NEW m \in Nat, n <= m,
           Moves(a, b, n), NEW h, h.version \in Nat, h.secret \in Nat, h.code \in Nat, Holds(h, a, n)
    PROVE  Holds(h, b, m)
<1>1. /\ a.version \in Nat /\ b.version \in Nat /\ a.mfa \in Authenticators /\ b.mfa \in Authenticators
    BY DEF AccountRows
<1>2. /\ a.mfa.last \in Nat /\ b.mfa.last \in Nat /\ a.mfa.secret \in Nat /\ b.mfa.secret \in Nat
    BY <1>1 DEF Authenticators
<1>3. b.st # "none" /\ h.version <= b.version /\ h.secret <= m /\ (h.code # 0 => h.secret # 0)
    BY <1>1 DEF Moves, Holds
<1>4. h.version = b.version /\ h.code # 0 => b.mfa.on /\ h.secret = b.mfa.secret
    BY <1>1, <1>2 DEF Moves, Holds
<1>5. h.code # 0 /\ h.secret = b.mfa.secret => b.mfa.on /\ h.code <= b.mfa.last
    BY <1>1, <1>2 DEF Moves, Holds
<1> QED
    BY <1>3, <1>4, <1>5 DEF Holds

LEMMA DifferMoves ==
    ASSUME NEW a \in AccountRows, NEW b \in AccountRows, NEW n \in Nat, Moves(a, b, n),
           NEW g, NEW h, g.secret \in Nat, g.code # 0 => g.secret # 0 /\ g.secret <= n,
           Differ(g, h, a)
    PROVE  Differ(g, h, b)
<1>1. a.mfa \in Authenticators /\ b.mfa \in Authenticators
    BY DEF AccountRows
<1>2. a.mfa.secret \in Nat /\ b.mfa.secret \in Nat
    BY <1>1 DEF Authenticators
<1>3. g.code # 0 /\ g.secret = b.mfa.secret => g.secret = a.mfa.secret
    BY <1>2 DEF Moves
<1> QED
    BY <1>3 DEF Differ

LEMMA DifferBothWays ==
    ASSUME NEW g, NEW h, NEW a, Differ(g, h, a) PROVE Differ(h, g, a)
BY DEF Differ
-----------------------------------------------------------------------------
(* A step that moves accounts, and the request x if it is one. *)

AccountsMove ==
    /\ session' = session /\ account' \in [Users -> AccountRows]
    /\ secrets' \in Nat /\ secrets <= secrets'
    /\ \A u \in Users :
        Moves(account[u], account'[u], secrets) /\ AccountFits(account'[u], secrets')

\* The owners other requests have counted stay owners.
OwnersStay(x) ==
    /\ \A y \in People \ {x} : person[y].op = "change" => person[y].owners \subseteq OwnersNow'
    /\ OwnersFit'

RequestMoves(x) ==
    /\ person' = [y \in People |-> person'[y]]
    /\ \A y \in People \ {x} : person'[y] = person[y]
    /\ x \in People => PersonFits(person[x])'
    /\ x \in People /\ person'[x].op = "change" =>
        \A y \in People \ {x} : person[y].op = "change" => person'[x].locks \cap person[y].locks = {}

\* A rotation is for a code nothing else was given for.
NewCode(x) ==
    x \in People /\ person'[x].op = "rotate" =>
        LET u == session[person'[x].s].user IN
        /\ \A s \in Sessions : session[s].user = u => Differ(session[s], person'[x], account'[u])
        /\ \A y \in People \ {x} : person[y].op = "rotate" /\ UserOf(person[y]) = u
                => Differ(person[y], person'[x], account'[u])

LEMMA SessionsFitOn ==
    ASSUME HumanInv, AccountsMove, NEW s \in Sessions PROVE SessionFits(s)'
<1> DEFINE n == session[s]
           u == n.user
           a == account[u]
           b == account'[u]
<1>1. /\ n \in SessionRows /\ u \in Users /\ n.version \in Nat /\ n.secret \in Nat /\ n.code \in Nat
      /\ SessionFits(s) /\ a \in AccountRows /\ secrets \in Nat /\ a.version \in Nat
    BY HumanTypes
<1>2. b \in AccountRows /\ Moves(a, b, secrets) /\ secrets' \in Nat /\ secrets <= secrets' /\ session' = session
    BY <1>1 DEF AccountsMove
<1>3. b.version \in Nat
    BY <1>2 DEF AccountRows
<1>4. n.stage # "none" => Holds(n, a, secrets)
    BY <1>1 DEF SessionFits
<1>5. n.stage # "none" => Holds(n, b, secrets')
    BY <1>1, <1>2, <1>4, HoldsMoves
<1>6. n.stage \in Challenges /\ n.version = b.version => n.pw = b.pw
    <2>1. n.stage \in Challenges => n.version <= a.version /\ (n.version = a.version => n.pw = a.pw)
        BY <1>1, <1>4 DEF SessionFits, Holds, Challenges
    <2> QED
        BY <1>1, <1>2, <1>3, <2>1 DEF Moves
<1> QED
    BY <1>1, <1>2, <1>5, <1>6 DEF SessionFits

LEMMA OthersFitOn ==
    ASSUME HumanInv, AccountsMove, NEW x, OwnersStay(x), NEW y \in People \ {x},
           person'[y] = person[y]
    PROVE  PersonFits(person[y])'
<1> DEFINE p == person[y]
<1>0. PersonFits(p) /\ session' = session /\ secrets \in Nat /\ secrets' \in Nat /\ secrets <= secrets'
    BY HumanTypes DEF AccountsMove
<1>1. \A u \in Users : /\ account[u] \in AccountRows /\ account'[u] \in AccountRows
                       /\ account[u].version \in Nat /\ account'[u].version \in Nat
                       /\ Moves(account[u], account'[u], secrets)
    BY HumanTypes DEF AccountsMove, AccountRows
<1>2. LoginFits(p)'
    <2> SUFFICES ASSUME p.op = "login" PROVE LoginFits(p)'
        BY DEF LoginFits
    <2>1. /\ p.u \in Users /\ p.seen \in AccountRows /\ account[p.u].st # "none"
          /\ p.seen.version <= account[p.u].version
          /\ p.seen.version = account[p.u].version => p.seen.pw = account[p.u].pw
        BY <1>0 DEF PersonFits, LoginFits
    <2>2. p.seen.version \in Nat
        BY <2>1 DEF AccountRows
    <2> QED
        BY <1>1, <2>1, <2>2 DEF LoginFits, Moves
<1>3. StageFits(p)'
    <2>1. StageFits(p)
        BY <1>0 DEF PersonFits
    <2>2. p.op \in OnSession => p.u \in Users /\ p.seen.version \in Nat
        <3>1. p.op \in OnSession => p.s \in Sessions /\ p.u = session[p.s].user /\ p.seen \in AccountRows
            BY <2>1 DEF StageFits
        <3> QED
            BY <3>1, HumanTypes DEF AccountRows
    <2>3. p.op \in OnSession => p.seen.version <= account'[p.u].version
        BY <1>1, <2>1, <2>2 DEF StageFits, Moves
    <2>4. p.op = "code" /\ p.seen.version = account'[p.u].version =>
            account'[p.u].mfa.on /\ account'[p.u].mfa.secret = p.secret
        <3>1. "code" \in OnSession
            BY DEF OnSession
        <3> QED
            BY <1>1, <2>1, <2>2, <3>1 DEF StageFits, Moves
    <2>5. p.op \in {"code", "confirm"} => p.secret <= secrets'
        BY <1>0, <2>1 DEF StageFits
    <2> QED
        BY <1>0, <2>1, <2>3, <2>4, <2>5 DEF StageFits
<1>4. RotationFits(p)'
    <2> SUFFICES ASSUME p.op = "rotate" PROVE RotationTyped(p) /\ Holds(p, account'[session[p.s].user], secrets')
        BY <1>0 DEF RotationFits, RotationTyped
    <2>1. /\ RotationTyped(p) /\ Holds(p, account[session[p.s].user], secrets) /\ p.s \in Sessions
        BY <1>0 DEF PersonFits, RotationFits, StageFits
    <2>2. session[p.s].user \in Users
        BY <2>1, HumanTypes
    <2> QED
        BY <1>0, <1>1, <2>1, <2>2, HoldsMoves DEF RotationTyped
<1>5. ChangeFits(p)'
    BY <1>0, <1>1 DEF PersonFits, ChangeFits, Moves, OwnersStay
<1> QED
    BY <1>0, <1>2, <1>3, <1>4, <1>5 DEF PersonFits

LEMMA AccountStep ==
    ASSUME HumanInv, AccountsMove, NEW x, OwnersStay(x), RequestMoves(x), NewCode(x)
    PROVE  HumanInv'
<1>0. session' = session
    BY DEF AccountsMove
<1>1. HumanTyped'
    BY DEF HumanInv, HumanTyped, AccountsMove, RequestMoves
<1>2. Fits'
    BY SessionsFitOn, OthersFitOn DEF Fits, AccountsMove, RequestMoves
<1>3. \A s \in Sessions : /\ session[s].user \in Users /\ session[s].secret \in Nat
                          /\ session[s].code # 0 => session[s].secret # 0 /\ session[s].secret <= secrets
    BY HumanTypes DEF SessionFits, Holds
<1>4. \A y \in People : person[y].op = "rotate" =>
        /\ UserOf(person[y]) \in Users /\ person[y].secret \in Nat
        /\ person[y].code # 0 => person[y].secret # 0 /\ person[y].secret <= secrets
    BY HumanTypes DEF PersonFits, StageFits, RotationFits, RotationTyped, Holds, UserOf
<1>5. \A u \in Users : /\ account[u] \in AccountRows /\ account'[u] \in AccountRows
                       /\ Moves(account[u], account'[u], secrets)
    BY HumanTypes DEF AccountsMove
<1>6. secrets \in Nat
    BY HumanTypes
<1>7. SessionsDiffer'
    <2> SUFFICES ASSUME NEW s \in Sessions, NEW o \in Sessions, s # o, session[s].user = session[o].user
                 PROVE  Differ(session[s], session[o], account'[session[s].user])
        BY <1>0 DEF SessionsDiffer
    <2>1. Differ(session[s], session[o], account[session[s].user])
        BY DEF HumanInv, CodesDiffer, SessionsDiffer
    <2> QED
        BY <1>3, <1>5, <1>6, <2>1, DifferMoves
<1>8. MixedDiffer'
    <2> SUFFICES ASSUME NEW s \in Sessions, NEW y \in People, person'[y].op = "rotate",
                        UserOf(person'[y]) = session[s].user
                 PROVE  Differ(session[s], person'[y], account'[session[s].user])
        BY <1>0 DEF MixedDiffer, UserOf
    <2>1. CASE y = x
        BY <2>1 DEF NewCode, UserOf
    <2>2. CASE y # x
        <3>1. person'[y] = person[y]
            BY <2>2 DEF RequestMoves
        <3>2. Differ(session[s], person[y], account[session[s].user])
            BY <3>1 DEF HumanInv, CodesDiffer, MixedDiffer
        <3> QED
            BY <1>3, <1>5, <1>6, <3>1, <3>2, DifferMoves
    <2> QED
        BY <2>1, <2>2
<1>9. PeopleDiffer'
    <2> SUFFICES ASSUME NEW y \in People, NEW z \in People, y # z,
                        person'[y].op = "rotate", person'[z].op = "rotate",
                        UserOf(person'[y]) = UserOf(person'[z])
                 PROVE  Differ(person'[y], person'[z], account'[UserOf(person'[y])])
        BY <1>0 DEF PeopleDiffer, UserOf
    <2>1. CASE z = x
        BY <2>1 DEF NewCode, UserOf, RequestMoves
    <2>2. CASE y = x
        <3>1. Differ(person'[z], person'[x], account'[UserOf(person'[x])])
            BY <2>2 DEF NewCode, UserOf, RequestMoves
        <3> QED
            BY <2>2, <3>1, DifferBothWays
    <2>3. CASE y # x /\ z # x
        <3>1. person'[y] = person[y] /\ person'[z] = person[z]
            BY <2>3 DEF RequestMoves
        <3>2. Differ(person[y], person[z], account[UserOf(person[y])])
            BY <3>1 DEF HumanInv, CodesDiffer, PeopleDiffer
        <3> QED
            BY <1>4, <1>5, <1>6, <3>1, <3>2, DifferMoves
    <2> QED
        BY <2>1, <2>2, <2>3
<1>10. FromDiffer'
    BY <1>0 DEF HumanInv, FromDiffer
<1>11. LocksDiffer'
    BY DEF HumanInv, LocksDiffer, RequestMoves
<1>12. OwnersFit'
    BY DEF OwnersStay
<1> QED
    BY <1>1, <1>2, <1>7, <1>8, <1>9, <1>10, <1>11, <1>12 DEF HumanInv, CodesDiffer
-----------------------------------------------------------------------------
(* A step that moves sessions, creating those of N, and the request x. *)

SameSession(s) ==
    /\ session'[s].user = session[s].user /\ session'[s].stage = session[s].stage
    /\ session'[s].version = session[s].version /\ session'[s].pw = session[s].pw
    /\ session'[s].secret = session[s].secret /\ session'[s].code = session[s].code
    /\ session'[s].from = session[s].from
    /\ session[s].revoked => session'[s].revoked

SessionsMove(N) ==
    /\ UNCHANGED <<account, secrets>> /\ session' \in [Sessions -> SessionRows]
    /\ \A s \in Sessions \ N : SameSession(s)
    /\ \A s \in N : session[s].stage = "none" /\ SessionFits(s)'

\* A request goes on to nothing that was given for a code, or locks.
RequestEnds(x) ==
    /\ person' = [y \in People |-> person'[y]]
    /\ \A y \in People \ {x} : person'[y] = person[y]
    /\ PersonFits(person[x])' /\ person'[x].op \notin {"rotate", "change"}

\* What is new was given for what nothing else was given for.
NewSessionsDiffer(N, x) ==
    /\ \A s \in N : \A o \in Sessions \ N :
        session'[s].user = session[o].user =>
            Differ(session[o], session'[s], account[session[o].user])
    /\ \A s \in N : \A y \in People \ {x} :
        person[y].op = "rotate" /\ UserOf(person[y]) = session'[s].user =>
            Differ(session'[s], person[y], account[session'[s].user])
    /\ \A s \in N : \A o \in Sessions \ N :
        session'[s].stage = "FULL" /\ session[o].stage = "FULL" => session'[s].from # session[o].from

LEMMA PeopleFitOn ==
    ASSUME HumanInv, NEW N \in SUBSET Sessions, SessionsMove(N), NEW x \in People,
           NEW y \in People, person'[y] = person[y]
    PROVE  PersonFits(person[y])'
<1> DEFINE p == person[y]
<1>1. PersonFits(p) /\ account' = account /\ secrets' = secrets
    BY HumanTypes DEF SessionsMove
<1>2. p.op \in {"session", "rotate"} \cup OnSession =>
        /\ p.s \in Sessions /\ session[p.s].stage # "none"
        /\ session'[p.s].stage = session[p.s].stage /\ session'[p.s].user = session[p.s].user
    BY <1>1 DEF PersonFits, StageFits, SessionsMove, SameSession
<1>3. OwnersNow' = OwnersNow
    BY <1>1 DEF OwnersNow
<1>4. LoginFits(p)' /\ ChangeFits(p)'
    BY <1>1, <1>3 DEF PersonFits, LoginFits, ChangeFits
<1>5. StageFits(p)'
    <2>1. {"code", "confirm"} \subseteq OnSession
        BY DEF OnSession
    <2> QED
        BY <1>1, <1>2, <2>1 DEF PersonFits, StageFits
<1>6. RotationFits(p)'
    BY <1>1, <1>2 DEF PersonFits, RotationFits, RotationTyped
<1> QED
    BY <1>1, <1>4, <1>5, <1>6 DEF PersonFits

LEMMA SessionStep ==
    ASSUME HumanInv, NEW N \in SUBSET Sessions, \A s, o \in N : s = o, SessionsMove(N),
           NEW x \in People, RequestEnds(x), NewSessionsDiffer(N, x)
    PROVE  HumanInv'
<1>0. account' = account /\ secrets' = secrets
    BY DEF SessionsMove
<1>1. HumanTyped'
    BY <1>0 DEF HumanInv, HumanTyped, SessionsMove, RequestEnds
<1>2. \A s \in Sessions : SessionFits(s)'
    <2> SUFFICES ASSUME NEW s \in Sessions \ N PROVE SessionFits(s)'
        BY DEF SessionsMove
    <2>1. SessionFits(s) /\ SameSession(s)
        BY HumanTypes DEF SessionsMove
    <2>2. session[s].stage = "FULL" =>
            /\ session[s].from \in Sessions \ N
            /\ session'[session[s].from].revoked /\ session'[session[s].from].stage # "none"
        BY <2>1 DEF SessionFits, SessionsMove, SameSession
    <2>3. session[s].stage # "none" => Holds(session'[s], account'[session'[s].user], secrets')
        BY <1>0, <2>1 DEF SessionFits, SameSession, Holds
    <2> QED
        BY <1>0, <2>1, <2>2, <2>3 DEF SessionFits, SameSession
<1>3. \A y \in People : PersonFits(person[y])'
    BY PeopleFitOn DEF RequestEnds
<1>4. Fits'
    BY <1>0, <1>2, <1>3 DEF Fits, HumanInv
<1>5. SessionsDiffer'
    <2> SUFFICES ASSUME NEW s \in Sessions, NEW o \in Sessions, s # o, session'[s].user = session'[o].user
                 PROVE  Differ(session'[s], session'[o], account[session'[s].user])
        BY <1>0 DEF SessionsDiffer
    <2>1. CASE s \notin N /\ o \notin N
        <3>1. SameSession(s) /\ SameSession(o)
            BY <2>1 DEF SessionsMove
        <3>2. Differ(session[s], session[o], account[session[s].user])
            BY <3>1 DEF HumanInv, CodesDiffer, SessionsDiffer, SameSession
        <3> QED
            BY <3>1, <3>2 DEF Differ, SameSession
    <2>2. CASE s \notin N /\ o \in N
        <3>1. SameSession(s)
            BY <2>2 DEF SessionsMove
        <3>2. Differ(session[s], session'[o], account[session[s].user])
            BY <2>2, <3>1 DEF NewSessionsDiffer, SameSession
        <3> QED
            BY <3>1, <3>2 DEF Differ, SameSession
    <2>3. CASE s \in N /\ o \notin N
        <3>1. SameSession(o)
            BY <2>3 DEF SessionsMove
        <3>2. Differ(session[o], session'[s], account[session[o].user])
            BY <2>3, <3>1 DEF NewSessionsDiffer, SameSession
        <3> QED
            BY <3>1, <3>2 DEF Differ, SameSession
    <2> QED
        BY <2>1, <2>2, <2>3
<1>6. MixedDiffer'
    <2> SUFFICES ASSUME NEW s \in Sessions, NEW y \in People, person'[y].op = "rotate",
                        session'[person'[y].s].user = session'[s].user
                 PROVE  Differ(session'[s], person'[y], account[session'[s].user])
        BY <1>0 DEF MixedDiffer, UserOf
    <2>1. y # x /\ person'[y] = person[y]
        BY DEF RequestEnds
    <2>2. person[y].s \in Sessions /\ session'[person[y].s].user = session[person[y].s].user
        BY <2>1, HumanTypes DEF PersonFits, StageFits, SessionsMove, SameSession
    <2>3. CASE s \in N
        BY <2>1, <2>2, <2>3 DEF NewSessionsDiffer, UserOf
    <2>4. CASE s \notin N
        <3>1. SameSession(s)
            BY <2>4 DEF SessionsMove
        <3>2. Differ(session[s], person[y], account[session[s].user])
            BY <2>1, <2>2, <3>1 DEF HumanInv, CodesDiffer, MixedDiffer, UserOf, SameSession
        <3> QED
            BY <2>1, <3>1, <3>2 DEF Differ, SameSession
    <2> QED
        BY <2>3, <2>4
<1>7. PeopleDiffer'
    <2> SUFFICES ASSUME NEW y \in People, NEW z \in People, y # z,
                        person'[y].op = "rotate", person'[z].op = "rotate",
                        session'[person'[y].s].user = session'[person'[z].s].user
                 PROVE  Differ(person'[y], person'[z], account[session'[person'[y].s].user])
        BY <1>0 DEF PeopleDiffer, UserOf
    <2>1. y # x /\ z # x /\ person'[y] = person[y] /\ person'[z] = person[z]
        BY DEF RequestEnds
    <2>2. /\ session'[person[y].s].user = session[person[y].s].user
          /\ session'[person[z].s].user = session[person[z].s].user
        BY <2>1, HumanTypes DEF PersonFits, StageFits, SessionsMove, SameSession
    <2> QED
        BY <2>1, <2>2 DEF HumanInv, CodesDiffer, PeopleDiffer, UserOf
<1>8. FromDiffer'
    <2> SUFFICES ASSUME NEW s \in Sessions, NEW o \in Sessions, s # o,
                        session'[s].stage = "FULL", session'[o].stage = "FULL"
                 PROVE  session'[s].from # session'[o].from
        BY DEF FromDiffer
    <2>1. CASE s \notin N /\ o \notin N
        BY <2>1 DEF SessionsMove, SameSession, HumanInv, FromDiffer
    <2>2. CASE s \in N /\ o \notin N
        BY <2>2 DEF SessionsMove, SameSession, NewSessionsDiffer
    <2>3. CASE s \notin N /\ o \in N
        BY <2>3 DEF SessionsMove, SameSession, NewSessionsDiffer
    <2> QED
        BY <2>1, <2>2, <2>3
<1>9. LocksDiffer'
    BY DEF HumanInv, LocksDiffer, RequestEnds
<1>10. OwnersFit'
    <2>1. OwnersNow' = OwnersNow
        BY <1>0 DEF OwnersNow
    <2> QED
        BY <2>1 DEF HumanInv, OwnersFit
<1> QED
    BY <1>1, <1>4, <1>5, <1>6, <1>7, <1>8, <1>9, <1>10 DEF HumanInv, CodesDiffer
-----------------------------------------------------------------------------
(* The parts of an account step. *)

LEMMA RequestGoes ==
    ASSUME HumanInv, NEW x \in People, NEW p, Goes(x, p)
    PROVE  /\ person' = [y \in People |-> person'[y]] /\ person'[x] = p
           /\ \A y \in People \ {x} : person'[y] = person[y]
BY DEF HumanInv, HumanTyped, Goes

\* What has neither a rotation nor locks.
LEMMA GoesPlainly ==
    ASSUME HumanInv, NEW x \in People, NEW p, Goes(x, p), PersonFits(person[x])',
           p.op \notin {"rotate", "change"}
    PROVE  RequestMoves(x) /\ NewCode(x) /\ RequestEnds(x)
<1>1. person'[x] = p
    BY RequestGoes
<1> QED
    BY <1>1, RequestGoes DEF RequestMoves, NewCode, RequestEnds

LEMMA IdleFits ==
    ASSUME NEW x, person'[x] = NoPerson PROVE PersonFits(person[x])' /\ NoPerson.op = "none"
<1>1. NoPerson.op = "none"
    BY DEF NoPerson
<1>2. "none" \notin OnSession
    BY DEF OnSession, Challenges
<1> QED
    BY <1>1, <1>2 DEF PersonFits, LoginFits, StageFits, RotationFits, ChangeFits

LEMMA RevokesFit ==
    ASSUME NEW x, NEW u \in Users, NEW e, person'[x] = [op |-> "revoke", u |-> u, except |-> e]
    PROVE  PersonFits(person[x])' /\ person'[x].op = "revoke"
<1>1. person'[x].op = "revoke" /\ person'[x].u = u
    OBVIOUS
<1>2. "revoke" \notin OnSession
    BY DEF OnSession, Challenges
<1> QED
    BY <1>1, <1>2 DEF PersonFits, LoginFits, StageFits, RotationFits, ChangeFits

LEMMA AccountsRest ==
    ASSUME HumanInv, UNCHANGED <<account, session, secrets>>, NEW x
    PROVE  AccountsMove /\ OwnersStay(x)
<1>1. AccountsMove
    BY HumanTypes, MovesAreNone DEF AccountsMove, HumanInv, HumanTyped
<1>2. OwnersNow' = OwnersNow
    BY DEF OwnersNow
<1>3. OwnersStay(x)
    BY <1>2, HumanTypes DEF OwnersStay, HumanInv, OwnersFit, PersonFits, ChangeFits
<1> QED
    BY <1>1, <1>3

\* One account is written, and stays an owner if it was one.
LEMMA OneAccountMoves ==
    ASSUME HumanInv, session' = session, secrets' \in Nat, secrets <= secrets',
           NEW u \in Users, NEW b \in AccountRows, account' = [account EXCEPT ![u] = b],
           Moves(account[u], b, secrets), AccountFits(b, secrets')
    PROVE  AccountsMove /\ account'[u] = b /\ \A v \in Users \ {u} : account'[v] = account[v]
<1>1. account'[u] = b /\ \A v \in Users \ {u} : account'[v] = account[v]
    BY DEF HumanInv, HumanTyped
<1>2. account' \in [Users -> AccountRows]
    BY DEF HumanInv, HumanTyped
<1>3. \A v \in Users \ {u} : Moves(account[v], account'[v], secrets)
    BY <1>1, HumanTypes, MovesAreNone
<1>4. \A v \in Users \ {u} : AccountFits(account'[v], secrets')
    <2> SUFFICES ASSUME NEW v \in Users \ {u} PROVE AccountFits(account'[v], secrets')
        OBVIOUS
    <2>1. AccountFits(account[v], secrets) /\ account[v].mfa.secret \in Nat /\ secrets \in Nat
        BY HumanTypes
    <2> QED
        BY <1>1, <2>1 DEF AccountFits
<1> QED
    BY <1>1, <1>2, <1>3, <1>4 DEF AccountsMove

LEMMA OwnersGrow ==
    ASSUME HumanInv, NEW u \in Users, NEW x,
           \A v \in Users \ {u} : account'[v] = account[v],
           u \in OwnersNow => u \in OwnersNow'
    PROVE  OwnersStay(x)
<1>1. OwnersNow \subseteq OwnersNow' /\ OwnersNow' \subseteq OwnersNow \cup {u}
    BY DEF OwnersNow
<1>2. IsFiniteSet(OwnersNow')
    <2>1. IsFiniteSet(OwnersNow \cup {u})
        BY FS_AddElement DEF HumanInv, OwnersFit
    <2> QED
        BY <1>1, <2>1, FS_Subset
<1>3. OwnersNow' # {}
    BY <1>1 DEF HumanInv, OwnersFit
<1>4. \A y \in People \ {x} : person[y].op = "change" => person[y].owners \subseteq OwnersNow'
    BY <1>1, HumanTypes DEF PersonFits, ChangeFits
<1> QED
    BY <1>2, <1>3, <1>4 DEF OwnersStay, OwnersFit

\* A request that only reads.
LEMMA ReadsOnly ==
    ASSUME HumanInv, NEW x \in People, NEW p, Goes(x, p), PersonFits(person[x])',
           p.op \notin {"rotate", "change"}, UNCHANGED <<account, session, secrets>>
    PROVE  HumanInv'
BY AccountsRest, GoesPlainly, AccountStep
-----------------------------------------------------------------------------
(* Requests that read. *)

LEMMA LoginReadsKeeps ==
    ASSUME HumanInv, NEW x \in People, NEW u \in Users, LoginReads(x, u) PROVE HumanInv'
<1> DEFINE p == [op |-> "login", u |-> u, seen |-> account[u]]
<1>1. Goes(x, p) /\ account[u].pw # 0 /\ UNCHANGED <<account, session, secrets>>
    BY DEF LoginReads
<1>2. account[u] \in AccountRows /\ account[u].st # "none" /\ account[u].version \in Nat
    BY <1>1, HumanTypes DEF AccountFits
<1>3. p.op = "login" /\ p.u = u /\ p.seen = account[u]
    OBVIOUS
<1> HIDE DEF p
<1>4. person'[x] = p
    BY <1>1, RequestGoes
<1>5. PersonFits(person[x])'
    <2>1. "login" \notin OnSession
        BY DEF OnSession, Challenges
    <2> QED
        BY <1>1, <1>2, <1>3, <1>4, <2>1 DEF PersonFits, LoginFits, StageFits, RotationFits, ChangeFits
<1> QED
    BY <1>1, <1>3, <1>5, ReadsOnly

LEMMA AuthReadsSessionKeeps ==
    ASSUME HumanInv, NEW x \in People, NEW s \in Sessions, AuthReadsSession(x, s) PROVE HumanInv'
<1> DEFINE p == [op |-> "session", s |-> s]
<1>1. Goes(x, p) /\ ~session[s].revoked /\ UNCHANGED <<account, session, secrets>>
    BY DEF AuthReadsSession
<1>2. session[s].stage # "none"
    BY <1>1, HumanTypes DEF SessionFits
<1>3. p.op = "session" /\ p.s = s
    OBVIOUS
<1> HIDE DEF p
<1>4. person'[x] = p
    BY <1>1, RequestGoes
<1>5. PersonFits(person[x])'
    <2>1. "session" \notin OnSession
        BY DEF OnSession, Challenges
    <2> QED
        BY <1>1, <1>2, <1>3, <1>4, <2>1 DEF PersonFits, LoginFits, StageFits, RotationFits, ChangeFits
<1> QED
    BY <1>1, <1>3, <1>5, ReadsOnly

LEMMA OnSessionFits ==
    ASSUME NEW r, NEW x, person'[x] = r, account' = account, session' = session,
           r.op \in {"FULL"} \cup Challenges, r.s \in Sessions, session[r.s].stage # "none",
           r.u = session[r.s].user, r.seen \in AccountRows, r.seen.version <= account[r.u].version
    PROVE  PersonFits(person[x])' /\ r.op \notin {"rotate", "change"}
<1>1. r.op \in OnSession /\ r.op \notin {"login", "code", "confirm", "rotate", "revoke", "admin", "change"}
    BY DEF OnSession, Challenges
<1>2. StageFits(r)'
    BY <1>1 DEF StageFits
<1> QED
    BY <1>1, <1>2 DEF PersonFits, LoginFits, StageFits, RotationFits, ChangeFits

LEMMA AuthReadsUserKeeps ==
    ASSUME HumanInv, NEW x \in People, AuthReadsUser(x) PROVE HumanInv'
<1> DEFINE s == person[x].s
           u == session[s].user
           p == [op |-> session[s].stage, s |-> s, u |-> u, seen |-> account[u]]
<1>1. /\ person[x].op = "session" /\ UNCHANGED <<account, session, secrets>>
      /\ Goes(x, p) \/ Goes(x, NoPerson)
    BY DEF AuthReadsUser
<1>2. /\ s \in Sessions /\ session[s].stage \in {"FULL"} \cup Challenges
      /\ u \in Users /\ account[u] \in AccountRows /\ account[u].version \in Nat
    BY <1>1, HumanTypes DEF PersonFits, StageFits, SessionRows
<1>3. CASE Goes(x, NoPerson)
    BY <1>1, <1>3, RequestGoes, IdleFits, ReadsOnly
<1>4. CASE Goes(x, p)
    <2>1. p.op = session[s].stage /\ p.s = s /\ p.u = u /\ p.seen = account[u]
        OBVIOUS
    <2> HIDE DEF p
    <2>2. PICK r : r = p
        OBVIOUS
    <2>3. person'[x] = r /\ account' = account /\ session' = session
        BY <1>1, <1>4, <2>2, RequestGoes
    <2>4. /\ r.op \in {"FULL"} \cup Challenges /\ r.s \in Sessions /\ session[r.s].stage # "none"
          /\ r.u = session[r.s].user /\ r.seen \in AccountRows /\ r.seen.version <= account[r.u].version
        BY <1>1, <1>2, <2>1, <2>2, HumanTypes DEF PersonFits, StageFits
    <2>5. PersonFits(person[x])' /\ r.op \notin {"rotate", "change"}
        BY <2>3, <2>4, OnSessionFits
    <2> QED
        BY <1>1, <1>4, <2>2, <2>5, ReadsOnly
<1> QED
    BY <1>1, <1>3, <1>4

\* A code of the authenticator there is now.
LEMMA CodedFits ==
    ASSUME HumanInv, UNCHANGED <<account, session, secrets>>, NEW x \in People,
           person[x].op \in Challenges, NEW op \in {"code", "confirm"}, NEW code \in 1 .. MaxSteps,
           Goes(x, Coded(op, person[x], account[person[x].u].mfa.secret, code)),
           account[person[x].u].mfa.secret # 0,
           op = "code" => account[person[x].u].mfa.on
    PROVE  HumanInv'
<1> DEFINE q == person[x]
           p == Coded(op, q, account[q.u].mfa.secret, code)
<1>1. /\ q.s \in Sessions /\ session[q.s].stage # "none" /\ q.u = session[q.s].user
      /\ q.seen \in AccountRows /\ q.seen.version <= account[q.u].version
    BY HumanTypes DEF PersonFits, StageFits, OnSession
<1>2. /\ q.u \in Users /\ account[q.u].mfa.secret \in Nat \ {0} /\ account[q.u].mfa.secret <= secrets
    BY <1>1, HumanTypes DEF AccountFits
<1>3. code \in Nat \ {0}
    BY HumanAssumption
<1>4. /\ p.op = op /\ p.s = q.s /\ p.u = q.u /\ p.seen = q.seen
      /\ p.secret = account[q.u].mfa.secret /\ p.code = code
    BY DEF Coded
<1>5. Goes(x, p)
    OBVIOUS
<1> HIDE DEF p
<1>6. PICK r : r = p
    OBVIOUS
<1>7. person'[x] = r /\ account' = account /\ session' = session /\ secrets' = secrets
    BY <1>5, <1>6, RequestGoes
<1>8. r.op \in OnSession /\ r.op \notin {"login", "rotate", "revoke", "admin", "change"}
    BY <1>4, <1>6 DEF OnSession
<1>9. StageFits(r)'
    <2>1. /\ r.s \in Sessions /\ session[r.s].stage # "none" /\ r.u = session[r.s].user
          /\ r.seen \in AccountRows /\ r.seen.version <= account[r.u].version
          /\ r.secret \in Nat \ {0} /\ r.secret <= secrets /\ r.code \in Nat \ {0}
        BY <1>1, <1>2, <1>3, <1>4, <1>6
    <2>2. r.op = "code" => account[r.u].mfa.on /\ account[r.u].mfa.secret = r.secret
        BY <1>4, <1>6
    <2> QED
        BY <1>7, <1>8, <2>1, <2>2 DEF StageFits
<1>10. PersonFits(person[x])'
    BY <1>7, <1>8, <1>9 DEF PersonFits, LoginFits, StageFits, RotationFits, ChangeFits
<1> QED
    BY <1>5, <1>6, <1>8, <1>10, ReadsOnly

LEMMA VerifyReadsKeeps ==
    ASSUME HumanInv, NEW x \in People, NEW code \in 1 .. MaxSteps, VerifyReads(x, code) PROVE HumanInv'
<1>1. /\ person[x].op = "MFA_PENDING" /\ UNCHANGED <<account, session, secrets>>
      /\ account[person[x].u].mfa.on
      /\ Goes(x, Coded("code", person[x], account[person[x].u].mfa.secret, code))
    BY DEF VerifyReads
<1>2. person[x].u \in Users
    BY <1>1, HumanTypes DEF PersonFits, StageFits, OnSession, Challenges
<1>3. account[person[x].u].mfa.secret # 0
    BY <1>1, <1>2, HumanTypes DEF AccountFits
<1> QED
    BY <1>1, <1>3, CodedFits DEF Challenges

LEMMA ConfirmReadsKeeps ==
    ASSUME HumanInv, NEW x \in People, NEW code \in 1 .. MaxSteps, ConfirmReads(x, code) PROVE HumanInv'
<1>1. /\ person[x].op = "MFA_SETUP" /\ UNCHANGED <<account, session, secrets>>
      /\ account[person[x].u].mfa.secret # 0
      /\ Goes(x, Coded("confirm", person[x], account[person[x].u].mfa.secret, code))
    BY DEF ConfirmReads
<1> QED
    BY <1>1, CodedFits DEF Challenges

LEMMA AdminReadsKeeps ==
    ASSUME HumanInv, NEW x \in People, NEW u \in Users, NEW role \in {"keep", "OWNER", "ADMIN"},
           NEW st \in {"keep", "ACTIVE", "DISABLED"}, AdminReads(x, u, role, st)
    PROVE  HumanInv'
<1>1. PICK r : r = [op |-> "admin", u |-> u, owner |-> role, st |-> st]
    OBVIOUS
<1>2. /\ Goes(x, r) /\ account[u].st # "none" /\ UNCHANGED <<account, session, secrets>>
      /\ r.op = "admin" /\ r.u = u /\ r.owner = role /\ r.st = st
    BY <1>1 DEF AdminReads
<1>3. person'[x] = r
    BY <1>2, RequestGoes
<1>4. PersonFits(person[x])'
    <2>1. "admin" \notin OnSession
        BY DEF OnSession, Challenges
    <2> QED
        BY <1>2, <1>3, <2>1 DEF PersonFits, LoginFits, StageFits, RotationFits, ChangeFits
<1> QED
    BY <1>2, <1>4, ReadsOnly

LEMMA ChangeUserLocksKeeps ==
    ASSUME HumanInv, NEW x \in People, ChangeUserLocks(x) PROVE HumanInv'
<1> DEFINE q == person[x]
<1>1. PICK r : r = [op |-> "change", u |-> q.u, owner |-> q.owner, st |-> q.st,
                    locks |-> Locks(q.u), owners |-> OwnersNow]
    OBVIOUS
<1>2. /\ Goes(x, r) /\ q.op = "admin" /\ UNCHANGED <<account, session, secrets>>
      /\ \A u \in Locks(q.u) : Free(u)
      /\ r.op = "change" /\ r.u = q.u /\ r.owner = q.owner /\ r.st = q.st
      /\ r.locks = Locks(q.u) /\ r.owners = OwnersNow
    BY <1>1 DEF ChangeUserLocks
<1>3. person'[x] = r
    BY <1>2, RequestGoes
<1>4. /\ q.u \in Users /\ account[q.u].st # "none"
      /\ q.owner \in {"keep", "OWNER", "ADMIN"} /\ q.st \in {"keep", "ACTIVE", "DISABLED"}
    BY <1>2, HumanTypes DEF PersonFits, ChangeFits
<1>5. OwnersNow' = OwnersNow /\ IsFiniteSet(OwnersNow)
    BY <1>2 DEF OwnersNow, HumanInv, OwnersFit
<1>6. PersonFits(person[x])'
    <2>1. "change" \notin OnSession
        BY DEF OnSession, Challenges
    <2>2. r.owners \subseteq r.locks /\ r.u \in r.locks
        BY <1>2 DEF Locks
    <2>3. ChangeFits(r)'
        BY <1>2, <1>4, <1>5, <2>2 DEF ChangeFits
    <2> QED
        BY <1>2, <1>3, <2>1, <2>3 DEF PersonFits, LoginFits, StageFits, RotationFits, ChangeFits
<1>7. RequestMoves(x) /\ NewCode(x)
    <2>1. \A y \in People \ {x} : person[y].op = "change" => r.locks \cap person[y].locks = {}
        BY <1>2 DEF Free
    <2> QED
        BY <1>2, <1>3, <1>6, <2>1, RequestGoes DEF RequestMoves, NewCode
<1> QED
    BY <1>2, <1>7, AccountsRest, AccountStep

LEMMA PersonStopsKeeps ==
    ASSUME HumanInv, NEW x \in People, PersonStops(x) PROVE HumanInv'
<1>1. Goes(x, NoPerson) /\ UNCHANGED <<account, session, secrets>>
    BY DEF PersonStops
<1> QED
    BY <1>1, RequestGoes, IdleFits, ReadsOnly
-----------------------------------------------------------------------------
(* Requests that write sessions. *)

LEMMA LogoutKeeps ==
    ASSUME HumanInv, NEW x \in People, Logout(x) PROVE HumanInv'
<1>1. /\ session' = [session EXCEPT ![person[x].s].revoked = TRUE]
      /\ Goes(x, NoPerson) /\ UNCHANGED <<account, secrets>>
    BY DEF Logout
<1>2. RequestEnds(x)
    BY <1>1, RequestGoes, IdleFits, GoesPlainly
<1>3. SessionsMove({})
    <2>1. session' \in [Sessions -> SessionRows]
        <3>1. session = [s \in Sessions |-> session[s]] /\ \A s \in Sessions : session[s] \in SessionRows
            BY DEF HumanInv, HumanTyped
        <3>2. \A row \in SessionRows : [row EXCEPT !.revoked = TRUE] \in SessionRows
            BY DEF SessionRows
        <3> QED
            BY <1>1, <3>1, <3>2
    <2>2. \A s \in Sessions : SameSession(s)
        BY <1>1, HumanTypes DEF HumanInv, HumanTyped, SessionRows, SameSession
    <2> QED
        BY <1>1, <2>1, <2>2 DEF SessionsMove
<1>4. NewSessionsDiffer({}, x)
    BY DEF NewSessionsDiffer
<1> QED
    BY <1>2, <1>3, <1>4, SessionStep

LEMMA RevokeUserSessionsKeeps ==
    ASSUME HumanInv, NEW x \in People, RevokeUserSessions(x) PROVE HumanInv'
<1>1. /\ session' = [s \in Sessions |-> IF session[s].user = person[x].u /\ s # person[x].except
                                       THEN [session[s] EXCEPT !.revoked = TRUE] ELSE session[s]]
      /\ Goes(x, NoPerson) /\ UNCHANGED <<account, secrets>>
    BY DEF RevokeUserSessions
<1>2. RequestEnds(x)
    BY <1>1, RequestGoes, IdleFits, GoesPlainly
<1>3. SessionsMove({})
    <2>1. \A s \in Sessions : [session[s] EXCEPT !.revoked = TRUE] \in SessionRows
        BY HumanTypes DEF SessionRows
    <2>2. session' \in [Sessions -> SessionRows]
        BY <1>1, <2>1, HumanTypes
    <2>3. \A s \in Sessions : SameSession(s)
        BY <1>1, HumanTypes DEF SessionRows, SameSession
    <2> QED
        BY <1>1, <2>2, <2>3 DEF SessionsMove
<1>4. NewSessionsDiffer({}, x)
    BY DEF NewSessionsDiffer
<1> QED
    BY <1>2, <1>3, <1>4, SessionStep

\* One new session; k is the row it gets, and others are at most revoked.
LEMMA OneNewSession ==
    ASSUME HumanInv, UNCHANGED <<account, secrets>>, NEW x \in People, RequestEnds(x),
           NEW f \in FreeSessions, NEW k \in SessionRows, k.stage # "none",
           session' \in [Sessions -> SessionRows], session'[f] = k,
           \A s \in Sessions \ {f} : SameSession(s),
           Holds(k, account[k.user], secrets),
           k.stage \in Challenges =>
                k.code = 0 /\ (k.version = account[k.user].version => k.pw = account[k.user].pw),
           k.stage = "FULL" =>
                /\ k.from \in Sessions \ {f} /\ session'[k.from].revoked
                /\ session[k.from].stage # "none"
                /\ \A s \in Sessions : session[s].stage = "FULL" => session[s].from # k.from,
           \A s \in Sessions \ {f} :
                session[s].user = k.user => Differ(session[s], k, account[k.user]),
           \A y \in People \ {x} : person[y].op = "rotate" /\ UserOf(person[y]) = k.user =>
                Differ(k, person[y], account[k.user])
    PROVE  HumanInv'
<1>0. f \in Sessions /\ session[f].stage = "none"
    BY DEF FreeSessions
<1>1. SessionFits(f)'
    <2>1. k.stage = "FULL" => session'[k.from].stage = session[k.from].stage
        BY DEF SameSession
    <2> QED
        BY <2>1 DEF SessionFits, SessionRows
<1>2. SessionsMove({f})
    BY <1>0, <1>1 DEF SessionsMove
<1>3. NewSessionsDiffer({f}, x)
    BY <1>0 DEF NewSessionsDiffer
<1> QED
    BY <1>0, <1>2, <1>3, SessionStep

LEMMA LoginIssuesKeeps ==
    ASSUME HumanInv, NEW x \in People, LoginIssues(x) PROVE HumanInv'
<1>1. PICK p : p = person[x]
    OBVIOUS
<1>2. PICK f : f = NewSession
    OBVIOUS
<1>3. PICK k : k = [NoSession EXCEPT !.user = p.u, !.revoked = FALSE, !.pw = p.seen.pw,
                        !.version = Issued(p.u, p.seen),
                        !.stage = IF p.seen.mfa.on THEN "MFA_PENDING" ELSE "MFA_SETUP"]
    OBVIOUS
<1>4. /\ p.op = "login" /\ f \in FreeSessions /\ session' = [session EXCEPT ![f] = k]
      /\ Goes(x, NoPerson) /\ UNCHANGED <<account, secrets>>
    BY <1>1, <1>2, <1>3 DEF LoginIssues, NewSession
<1>5. /\ p.u \in Users /\ p.seen \in AccountRows /\ account[p.u].st # "none"
      /\ p.seen.version <= account[p.u].version
      /\ p.seen.version = account[p.u].version => p.seen.pw = account[p.u].pw
    BY <1>1, <1>4, HumanTypes DEF PersonFits, LoginFits
<1>6. p.seen.pw \in Nat /\ p.seen.version \in Nat
    BY <1>5 DEF AccountRows
<1>7. /\ k \in SessionRows /\ k.stage \in Challenges /\ k.code = 0 /\ k.secret = 0 /\ k.user = p.u
      /\ k.version = p.seen.version /\ k.pw = p.seen.pw
    <2>1. \A b \in BOOLEAN : (IF b THEN "MFA_PENDING" ELSE "MFA_SETUP") \in Challenges
        BY DEF Challenges
    <2>2. p.seen.mfa.on \in BOOLEAN
        BY <1>5 DEF AccountRows, Authenticators
    <2>3. (IF p.seen.mfa.on THEN "MFA_PENDING" ELSE "MFA_SETUP") \in Challenges
        BY <2>1, <2>2
    <2> QED
        BY <1>3, <1>5, <1>6, <2>3, HumanAssumption DEF NoSession, SessionRows, Issued, Challenges
<1>8. f \in Sessions
    BY <1>4 DEF FreeSessions
<1>9. /\ session' \in [Sessions -> SessionRows] /\ session'[f] = k
      /\ \A s \in Sessions \ {f} : SameSession(s)
    BY <1>4, <1>7, <1>8 DEF HumanInv, HumanTyped, SameSession
<1>10. Holds(k, account[k.user], secrets)
    BY <1>5, <1>7, HumanTypes DEF Holds
<1>11. RequestEnds(x)
    BY <1>4, RequestGoes, IdleFits, GoesPlainly
<1>12. \A s \in Sessions : Differ(session[s], k, account[k.user])
    BY <1>7 DEF Differ
<1>13. \A y \in People : Differ(k, person[y], account[k.user])
    BY <1>7 DEF Differ
<1>14. k.stage # "none" /\ k.stage # "FULL"
    BY <1>7 DEF Challenges
<1> QED
    BY <1>4, <1>5, <1>7, <1>9, <1>10, <1>11, <1>12, <1>13, <1>14, OneNewSession

LEMMA RotateSessionKeeps ==
    ASSUME HumanInv, NEW x \in People, RotateSession(x) PROVE HumanInv'
<1>1. PICK p : p = person[x]
    OBVIOUS
<1>2. PICK f : f = NewSession
    OBVIOUS
<1>3. PICK k : k = [user |-> session[p.s].user, stage |-> "FULL", version |-> p.version,
                    revoked |-> FALSE, pw |-> p.pw, secret |-> p.secret, code |-> p.code, from |-> p.s]
    OBVIOUS
<1>4. p.op = "rotate" /\ f \in FreeSessions /\ UNCHANGED <<account, secrets>>
    BY <1>1, <1>2 DEF RotateSession, NewSession
<1>5. /\ RotationTyped(p) /\ Holds(p, account[session[p.s].user], secrets)
      /\ p.s \in Sessions /\ session[p.s].stage # "none"
    BY <1>1, <1>4, HumanTypes DEF PersonFits, RotationFits, StageFits
<1>6. CASE ~Rotates(p.s)
    <2>1. Goes(x, NoPerson) /\ session' = session
        BY <1>1, <1>6 DEF RotateSession
    <2> QED
        BY <1>4, <2>1, RequestGoes, IdleFits, ReadsOnly
<1>7. CASE Rotates(p.s)
    <2>1. /\ session' = [session EXCEPT ![p.s].revoked = TRUE, ![f] = k]
          /\ \/ Goes(x, NoPerson)
             \/ Goes(x, [op |-> "revoke", u |-> session[p.s].user, except |-> f])
        BY <1>1, <1>2, <1>3, <1>7 DEF RotateSession
    <2>2. f \in Sessions /\ session[f].stage = "none" /\ f # p.s /\ session[p.s].user \in Users
        BY <1>4, <1>5, HumanTypes DEF FreeSessions
    <2>3. /\ k \in SessionRows /\ k.stage = "FULL" /\ k.user = session[p.s].user /\ k.from = p.s
          /\ k.version = p.version /\ k.secret = p.secret /\ k.code = p.code
        BY <1>3, <1>5, <2>2 DEF SessionRows, RotationTyped
    <2>4. /\ session' \in [Sessions -> SessionRows] /\ session'[f] = k
          /\ \A s \in Sessions \ {f} : SameSession(s)
          /\ session'[p.s].revoked
        <3>1. [session[p.s] EXCEPT !.revoked = TRUE] \in SessionRows
            BY <1>5, HumanTypes DEF SessionRows
        <3>2. session'[f] = k /\ session'[p.s] = [session[p.s] EXCEPT !.revoked = TRUE]
            <4>1. session = [s \in Sessions |-> session[s]]
                BY DEF HumanInv, HumanTyped
            <4>2. PICK old : old = [session EXCEPT ![p.s].revoked = TRUE]
                OBVIOUS
            <4>3. old = [s \in Sessions |-> old[s]] /\ old[p.s] = [session[p.s] EXCEPT !.revoked = TRUE]
                BY <1>5, <4>1, <4>2
            <4>4. session' = [old EXCEPT ![f] = k]
                BY <2>1, <4>2
            <4> QED
                BY <1>5, <2>2, <4>3, <4>4
        <3>3. \A s \in Sessions \ {f, p.s} : session'[s] = session[s]
            BY <1>5, <2>1, <2>2 DEF HumanInv, HumanTyped
        <3>4. session' \in [Sessions -> SessionRows]
            <4>1. session' = [s \in Sessions |-> session'[s]]
                BY <2>1 DEF HumanInv, HumanTyped
            <4> QED
                BY <2>3, <3>1, <3>2, <3>3, <4>1, HumanTypes
        <3>5. SameSession(p.s) /\ session'[p.s].revoked
            BY <1>5, <3>2, HumanTypes DEF SameSession, SessionRows
        <3> QED
            BY <3>2, <3>3, <3>4, <3>5 DEF SameSession
    <2>5. Holds(k, account[k.user], secrets)
        BY <1>5, <2>3 DEF Holds
    <2>6. RequestEnds(x)
        <3>1. CASE Goes(x, NoPerson)
            BY <3>1, RequestGoes, IdleFits, GoesPlainly
        <3>2. CASE Goes(x, [op |-> "revoke", u |-> session[p.s].user, except |-> f])
            <4>1. PICK u : u = session[p.s].user
                OBVIOUS
            <4>2. person'[x] = [op |-> "revoke", u |-> u, except |-> f]
                BY <3>2, <4>1, RequestGoes
            <4>3. PersonFits(person[x])' /\ person'[x].op = "revoke"
                BY <2>2, <4>1, <4>2, RevokesFit
            <4> QED
                BY <3>2, <4>3, RequestGoes DEF RequestEnds
        <3> QED
            BY <2>1, <3>1, <3>2
    <2>7. \A s \in Sessions : session[s].stage = "FULL" => session[s].from # k.from
        BY <1>7, <2>3, HumanTypes DEF Rotates, SessionFits
    <2>8. \A s \in Sessions : session[s].user = k.user => Differ(session[s], k, account[k.user])
        <3> SUFFICES ASSUME NEW s \in Sessions, session[s].user = k.user
                     PROVE  Differ(session[s], k, account[k.user])
            OBVIOUS
        <3>1. Differ(session[s], p, account[session[s].user])
            BY <1>1, <1>4, <2>3 DEF HumanInv, CodesDiffer, MixedDiffer, UserOf
        <3> QED
            BY <2>3, <3>1 DEF Differ
    <2>9. \A y \in People \ {x} : person[y].op = "rotate" /\ UserOf(person[y]) = k.user =>
            Differ(k, person[y], account[k.user])
        <3> SUFFICES ASSUME NEW y \in People \ {x}, person[y].op = "rotate", UserOf(person[y]) = k.user
                     PROVE  Differ(k, person[y], account[k.user])
            OBVIOUS
        <3>1. Differ(p, person[y], account[k.user])
            BY <1>1, <1>4, <2>3 DEF HumanInv, CodesDiffer, PeopleDiffer, UserOf
        <3> QED
            BY <2>3, <3>1 DEF Differ
    <2>10. k.stage # "none" /\ k.stage \notin Challenges /\ k.from \in Sessions \ {f}
           /\ session'[k.from].revoked /\ session[k.from].stage # "none"
        BY <1>5, <2>2, <2>3, <2>4 DEF Challenges
    <2> QED
        BY <1>4, <2>3, <2>4, <2>5, <2>6, <2>7, <2>8, <2>9, <2>10, OneNewSession
<1> QED
    BY <1>6, <1>7

\* Nothing is asked of the request if there is none.
LEMMA NobodyMoves ==
    ASSUME HumanInv, person' = person PROVE \E x : RequestMoves(x) /\ NewCode(x) /\ x \notin People
<1>1. PICK x : x \notin People
    BY NoSetContainsEverything
<1> QED
    BY <1>1 DEF RequestMoves, NewCode, HumanInv, HumanTyped

LEMMA HumanStutters ==
    ASSUME HumanInv, UNCHANGED humanVars PROVE HumanInv'
<1>1. PICK x : RequestMoves(x) /\ NewCode(x)
    BY NobodyMoves DEF humanVars
<1> QED
    BY <1>1, AccountsRest, AccountStep DEF humanVars
-----------------------------------------------------------------------------
(* Requests that write an account. *)

LEMMA BumpedRow ==
    ASSUME NEW a \in AccountRows
    PROVE  /\ Bumped(a) \in AccountRows /\ Bumped(a).version = a.version + 1
           /\ Bumped(a).st = a.st /\ Bumped(a).owner = a.owner /\ Bumped(a).pw = a.pw
           /\ Bumped(a).mfa = a.mfa
BY DEF AccountRows, Bumped

LEMMA SetPasswordRow ==
    ASSUME NEW a \in AccountRows
    PROVE  LET b == SetPassword(a) IN
           /\ b \in AccountRows /\ b.version = a.version + 1 /\ b.pw = a.version + 1
           /\ b.st = a.st /\ b.owner = a.owner /\ b.mfa = a.mfa
<1>1. Bumped(a) \in AccountRows /\ a.version + 1 \in Nat
    BY BumpedRow DEF AccountRows
<1> QED
    BY <1>1, BumpedRow DEF AccountRows, SetPassword

\* The version goes up and the authenticator is kept.
LEMMA VersionMoves ==
    ASSUME NEW a \in AccountRows, NEW b \in AccountRows, b.version = a.version + 1, b.mfa = a.mfa,
           a.st # "none", b.st # "none", NEW n \in Nat, AccountFits(a, n)
    PROVE  Moves(a, b, n) /\ AccountFits(b, n)
<1>1. a.version \in Nat /\ a.mfa \in Authenticators
    BY DEF AccountRows
<1>2. a.mfa.last \in Nat
    BY <1>1 DEF Authenticators
<1> QED
    BY <1>1, <1>2 DEF Moves, AccountFits

LEMMA StaysOwner ==
    ASSUME NEW u \in Users, account'[u].st = account[u].st \/ account'[u].st = "ACTIVE",
           account'[u].owner = account[u].owner
    PROVE  u \in OwnersNow => u \in OwnersNow'
BY DEF OwnersNow

\* A rotation for no code, or for one no session of the authenticator had.
LEMMA NoCode ==
    ASSUME HumanInv, NEW x, person'[x].code = 0 PROVE NewCode(x)
BY DEF NewCode, Differ

LEMMA UnusedCode ==
    ASSUME HumanInv, NEW x \in People, NEW u \in Users, session[person'[x].s].user = u,
           account'[u].mfa.secret = account[u].mfa.secret, person'[x].code \in Nat,
           account[u].mfa.on => account[u].mfa.last < person'[x].code
    PROVE  NewCode(x)
<1>1. account[u].mfa.last \in Nat
    BY HumanTypes
<1>2. ASSUME NEW h, h.code \in Nat, h.code # 0 => Holds(h, account[u], secrets)
      PROVE  Differ(h, person'[x], account'[u])
    BY <1>1, <1>2 DEF Differ, Holds
<1>3. ASSUME NEW s \in Sessions, session[s].user = u PROVE Differ(session[s], person'[x], account'[u])
    <2>1. session[s].code \in Nat /\ (session[s].code # 0 => Holds(session[s], account[u], secrets))
        BY <1>3, HumanTypes DEF SessionFits
    <2> QED
        BY <1>2, <2>1
<1>4. ASSUME NEW y \in People \ {x}, person[y].op = "rotate", UserOf(person[y]) = u
      PROVE  Differ(person[y], person'[x], account'[u])
    <2>1. person[y].code \in Nat /\ Holds(person[y], account[u], secrets)
        BY <1>4, HumanTypes DEF PersonFits, RotationFits, RotationTyped, UserOf
    <2> QED
        BY <1>2, <2>1
<1> QED
    BY <1>3, <1>4 DEF NewCode

LEMMA RotationParts ==
    ASSUME NEW p, NEW version, NEW pw
    PROVE  /\ Rotation(p, version, pw).op = "rotate" /\ Rotation(p, version, pw).s = p.s
           /\ Rotation(p, version, pw).version = version /\ Rotation(p, version, pw).pw = pw
           /\ Rotation(p, version, pw).secret = p.secret /\ Rotation(p, version, pw).code = p.code
           /\ Rotation(p, version, pw).revokes \in BOOLEAN
BY DEF Rotation

\* A request that goes on to rotate.
LEMMA RotateFits ==
    ASSUME NEW x, NEW r, person'[x] = r, r.op = "rotate", r.s \in Sessions, session' = session,
           session[r.s].stage # "none", RotationTyped(r), Holds(r, account'[session[r.s].user], secrets')
    PROVE  PersonFits(person[x])'
<1>1. "rotate" \notin OnSession
    BY DEF OnSession, Challenges
<1>2. RotationFits(r)'
    BY DEF RotationFits, RotationTyped
<1>3. StageFits(r)'
    BY <1>1 DEF StageFits
<1> QED
    BY <1>1, <1>2, <1>3 DEF PersonFits, LoginFits, StageFits, RotationFits, ChangeFits

LEMMA RotateMoves ==
    ASSUME HumanInv, NEW x \in People, NEW r, Goes(x, r), r.op = "rotate", PersonFits(person[x])'
    PROVE  RequestMoves(x)
<1>1. person'[x] = r
    BY RequestGoes
<1> QED
    BY <1>1, RequestGoes DEF RequestMoves

LEMMA VerifySpendsKeeps ==
    ASSUME HumanInv, NEW x \in People, VerifySpends(x) PROVE HumanInv'
<1>1. PICK p : p = person[x]
    OBVIOUS
<1>2. PICK a : a = account[p.u]
    OBVIOUS
<1>3. p.op = "code" /\ UNCHANGED <<session, secrets>>
    BY <1>1 DEF VerifySpends
<1>4. "code" \in OnSession
    BY DEF OnSession
<1>5. /\ p.s \in Sessions /\ session[p.s].stage # "none" /\ p.u = session[p.s].user
      /\ p.seen \in AccountRows /\ p.seen.version <= a.version
      /\ p.secret \in Nat \ {0} /\ p.secret <= secrets /\ p.code \in Nat \ {0}
      /\ p.seen.version = a.version => a.mfa.on /\ a.mfa.secret = p.secret
    BY <1>1, <1>2, <1>3, <1>4, HumanTypes DEF PersonFits, StageFits
<1>6. /\ p.u \in Users /\ a \in AccountRows /\ AccountFits(a, secrets) /\ a.mfa \in Authenticators
      /\ a.mfa.last \in Nat /\ a.mfa.on \in BOOLEAN /\ a.mfa.secret \in Nat /\ secrets \in Nat
      /\ session[p.s] \in SessionRows /\ SessionFits(p.s)
    BY <1>2, <1>5, HumanTypes
<1>7. a.version \in Nat /\ p.seen.version \in Nat /\ session[p.s].pw \in Nat
    BY <1>5, <1>6 DEF AccountRows, SessionRows
<1>8. CASE ~Spends(a.mfa, p.code)
    <2>1. Goes(x, NoPerson) /\ account' = account
        BY <1>1, <1>2, <1>8 DEF VerifySpends
    <2> QED
        BY <1>3, <2>1, RequestGoes, IdleFits, ReadsOnly
<1>9. CASE Spends(a.mfa, p.code)
    <2>1. PICK r : r = Rotation(p, p.seen.version, session[p.s].pw)
        OBVIOUS
    <2>2. PICK b : b = [a EXCEPT !.mfa = [a.mfa EXCEPT !.last = p.code]]
        OBVIOUS
    <2>3. Goes(x, r) /\ account' = [account EXCEPT ![p.u] = b]
        BY <1>1, <1>2, <1>9, <2>1, <2>2 DEF VerifySpends, Issued
    <2>4. a.mfa.on /\ a.mfa.last < p.code
        BY <1>9 DEF Spends
    <2>5. [a.mfa EXCEPT !.last = p.code] \in Authenticators
        BY <1>5, <1>6 DEF Authenticators
    <2>6. /\ b \in AccountRows /\ b.st = a.st /\ b.owner = a.owner /\ b.version = a.version /\ b.pw = a.pw
          /\ b.mfa.secret = a.mfa.secret /\ b.mfa.on = a.mfa.on /\ b.mfa.last = p.code
        BY <1>6, <2>2, <2>5 DEF AccountRows, Authenticators
    <2>7. Moves(a, b, secrets) /\ AccountFits(b, secrets)
        BY <1>5, <1>6, <1>7, <2>4, <2>6 DEF Moves, AccountFits
    <2>8. AccountsMove /\ account'[p.u] = b /\ \A v \in Users \ {p.u} : account'[v] = account[v]
        <3>1. secrets' \in Nat /\ secrets <= secrets' /\ AccountFits(b, secrets')
            BY <1>3, <1>6, <2>7
        <3> QED
            BY <1>2, <1>3, <1>6, <2>3, <2>6, <2>7, <3>1, OneAccountMoves
    <2>9. OwnersStay(x)
        BY <1>2, <1>6, <2>6, <2>8, OwnersGrow, StaysOwner
    <2>10. /\ r.op = "rotate" /\ r.s = p.s /\ r.version = p.seen.version /\ r.pw = session[p.s].pw
           /\ r.secret = p.secret /\ r.code = p.code /\ r.revokes \in BOOLEAN
        BY <2>1, RotationParts
    <2>11. person'[x] = r
        BY <2>3, RequestGoes
    <2>12. Holds(r, b, secrets)
        <3>1. a.st # "none"
            BY <1>2, <1>5, <1>6 DEF SessionFits, Holds
        <3> QED
            BY <1>5, <1>6, <2>4, <2>6, <2>10, <3>1 DEF Holds
    <2>13. RotationTyped(r)
        BY <1>5, <1>7, <2>10 DEF RotationTyped
    <2>14. PersonFits(person[x])'
        BY <1>3, <1>5, <2>8, <2>10, <2>11, <2>12, <2>13, RotateFits
    <2>15. NewCode(x)
        <3>1. session[person'[x].s].user = p.u /\ person'[x].code = p.code
            BY <1>5, <2>10, <2>11
        <3>2. account'[p.u].mfa.secret = account[p.u].mfa.secret /\ account[p.u].mfa.last < p.code
            BY <1>2, <2>4, <2>6, <2>8
        <3> QED
            BY <1>5, <1>6, <3>1, <3>2, UnusedCode
    <2>16. RequestMoves(x)
        BY <2>3, <2>10, <2>14, RotateMoves
    <2> QED
        BY <2>8, <2>9, <2>15, <2>16, AccountStep
<1> QED
    BY <1>8, <1>9

LEMMA StartEnrollmentKeeps ==
    ASSUME HumanInv, NEW x \in People, StartEnrollment(x) PROVE HumanInv'
<1>1. PICK u : u = person[x].u
    OBVIOUS
<1>2. PICK a : a = account[u]
    OBVIOUS
<1>3. person[x].op = "MFA_SETUP" /\ Goes(x, NoPerson) /\ session' = session
    BY DEF StartEnrollment
<1>4. u \in Users
    BY <1>1, <1>3, HumanTypes DEF PersonFits, StageFits, OnSession, Challenges
<1>5. a \in AccountRows /\ AccountFits(a, secrets) /\ secrets \in Nat /\ a.version \in Nat /\ a.mfa.on \in BOOLEAN
      /\ a.mfa.secret \in Nat
    BY <1>2, <1>4, HumanTypes
<1>6. CASE a.mfa.on
    <2>1. UNCHANGED <<account, session, secrets>>
        BY <1>1, <1>2, <1>3, <1>6 DEF StartEnrollment
    <2> QED
        BY <1>3, <2>1, RequestGoes, IdleFits, ReadsOnly
<1>7. CASE ~a.mfa.on
    <2>1. PICK m : m = [NoMFA EXCEPT !.secret = secrets + 1]
        OBVIOUS
    <2>2. PICK b : b = [a EXCEPT !.mfa = m]
        OBVIOUS
    <2>3. secrets' = secrets + 1 /\ account' = [account EXCEPT ![u] = b]
        BY <1>1, <1>2, <1>7, <2>1, <2>2 DEF StartEnrollment
    <2>4. m \in Authenticators /\ m.secret = secrets + 1 /\ ~m.on
        <3>1. NoMFA \in Authenticators /\ ~NoMFA.on
            BY DEF NoMFA, Authenticators
        <3> QED
            BY <1>5, <2>1, <3>1 DEF Authenticators
    <2>5. /\ b \in AccountRows /\ b.st = a.st /\ b.owner = a.owner /\ b.version = a.version
          /\ b.pw = a.pw /\ b.mfa = m
        BY <1>5, <2>2, <2>4 DEF AccountRows
    <2>6. Moves(a, b, secrets) /\ AccountFits(b, secrets')
        BY <1>5, <1>7, <2>3, <2>4, <2>5 DEF Moves, AccountFits
    <2>7. secrets' \in Nat /\ secrets <= secrets'
        BY <1>5, <2>3
    <2>8. AccountsMove /\ account'[u] = b /\ \A v \in Users \ {u} : account'[v] = account[v]
        BY <1>2, <1>3, <1>4, <2>3, <2>5, <2>6, <2>7, OneAccountMoves
    <2>9. OwnersStay(x)
        BY <1>2, <1>4, <2>5, <2>8, OwnersGrow, StaysOwner
    <2>10. RequestMoves(x) /\ NewCode(x)
        BY <1>3, RequestGoes, IdleFits, GoesPlainly
    <2> QED
        BY <2>8, <2>9, <2>10, AccountStep
<1> QED
    BY <1>5, <1>6, <1>7

LEMMA EnableMFAKeeps ==
    ASSUME HumanInv, NEW x \in People, EnableMFA(x) PROVE HumanInv'
<1>1. PICK p : p = person[x]
    OBVIOUS
<1>2. PICK a : a = account[p.u]
    OBVIOUS
<1>3. p.op = "confirm" /\ UNCHANGED <<session, secrets>>
    BY <1>1 DEF EnableMFA
<1>4. "confirm" \in OnSession
    BY DEF OnSession
<1>5. /\ p.s \in Sessions /\ session[p.s].stage # "none" /\ p.u = session[p.s].user
      /\ p.secret \in Nat \ {0} /\ p.secret <= secrets /\ p.code \in Nat \ {0}
    BY <1>1, <1>3, <1>4, HumanTypes DEF PersonFits, StageFits
<1>6. /\ p.u \in Users /\ a \in AccountRows /\ AccountFits(a, secrets) /\ a.mfa \in Authenticators
      /\ a.mfa.last \in Nat /\ a.mfa.on \in BOOLEAN /\ a.mfa.secret \in Nat /\ secrets \in Nat
      /\ session[p.s] \in SessionRows /\ SessionFits(p.s)
    BY <1>2, <1>5, HumanTypes
<1>7. a.version \in Nat /\ session[p.s].pw \in Nat
    BY <1>6 DEF AccountRows, SessionRows
<1>8. CASE ~(~a.mfa.on /\ a.mfa.secret = p.secret)
    <2>1. Goes(x, NoPerson) /\ account' = account
        BY <1>1, <1>2, <1>8 DEF EnableMFA
    <2> QED
        BY <1>3, <2>1, RequestGoes, IdleFits, ReadsOnly
<1>9. CASE ~a.mfa.on /\ a.mfa.secret = p.secret
    <2>1. PICK r : r = Rotation(p, a.version + 1, session[p.s].pw)
        OBVIOUS
    <2>2. PICK b : b = [Bumped(a) EXCEPT !.mfa.on = TRUE, !.mfa.last = p.code,
                                !.st = IF @ = "PENDING_SETUP" THEN "ACTIVE" ELSE @]
        OBVIOUS
    <2>3. Goes(x, r) /\ account' = [account EXCEPT ![p.u] = b]
        BY <1>1, <1>2, <1>9, <2>1, <2>2 DEF EnableMFA, Change
    <2>4. a.st # "none"
        BY <1>2, <1>5, <1>6 DEF SessionFits, Holds
    <2>5. [[a.mfa EXCEPT !.on = TRUE] EXCEPT !.last = p.code] \in Authenticators
        BY <1>5, <1>6 DEF Authenticators
    <2>6. /\ b \in AccountRows /\ b.st \in {a.st, "ACTIVE"} /\ b.owner = a.owner
          /\ b.version = a.version + 1
          /\ b.mfa.secret = a.mfa.secret /\ b.mfa.on /\ b.mfa.last = p.code
        <3>1. PICK c : c = Bumped(a)
            OBVIOUS
        <3>2. c \in AccountRows /\ c.version = a.version + 1 /\ c.owner = a.owner /\ c.st = a.st /\ c.mfa = a.mfa
            BY <1>6, <3>1, BumpedRow
        <3>3. PICK m : m = [[a.mfa EXCEPT !.on = TRUE] EXCEPT !.last = p.code]
            OBVIOUS
        <3>4. m \in Authenticators /\ m.secret = a.mfa.secret /\ m.on /\ m.last = p.code
            BY <1>6, <2>5, <3>3 DEF Authenticators
        <3>5. PICK st : st = IF c.st = "PENDING_SETUP" THEN "ACTIVE" ELSE c.st
            OBVIOUS
        <3>6. st \in {a.st, "ACTIVE"}
            BY <3>2, <3>5
        <3>7. b.mfa = m /\ b.st = st /\ b.owner = c.owner /\ b.version = c.version /\ b.pw = c.pw
            BY <2>2, <3>1, <3>2, <3>3, <3>5 DEF AccountRows, Authenticators
        <3>8. b \in AccountRows
            BY <2>2, <3>1, <3>2, <3>3, <3>4, <3>5, <3>6 DEF AccountRows, Authenticators
        <3> QED
            BY <3>2, <3>4, <3>6, <3>7, <3>8
    <2>7. Moves(a, b, secrets) /\ AccountFits(b, secrets)
        BY <1>5, <1>6, <1>7, <1>9, <2>4, <2>6 DEF Moves, AccountFits
    <2>8. AccountsMove /\ account'[p.u] = b /\ \A v \in Users \ {p.u} : account'[v] = account[v]
        <3>1. secrets' \in Nat /\ secrets <= secrets' /\ AccountFits(b, secrets')
            BY <1>3, <1>6, <2>7
        <3> QED
            BY <1>2, <1>3, <1>6, <2>3, <2>6, <2>7, <3>1, OneAccountMoves
    <2>9. OwnersStay(x)
        BY <1>2, <1>6, <2>6, <2>8, OwnersGrow, StaysOwner
    <2>10. /\ r.op = "rotate" /\ r.s = p.s /\ r.version = a.version + 1 /\ r.pw = session[p.s].pw
           /\ r.secret = p.secret /\ r.code = p.code /\ r.revokes \in BOOLEAN
        BY <2>1, RotationParts
    <2>11. person'[x] = r
        BY <2>3, RequestGoes
    <2>12. Holds(r, b, secrets)
        BY <1>5, <1>6, <1>7, <1>9, <2>4, <2>6, <2>10 DEF Holds
    <2>13. RotationTyped(r)
        BY <1>5, <1>7, <2>10 DEF RotationTyped
    <2>14. PersonFits(person[x])'
        BY <1>3, <1>5, <2>8, <2>10, <2>11, <2>12, <2>13, RotateFits
    <2>15. NewCode(x)
        BY <1>2, <1>3, <1>5, <1>6, <1>9, <2>6, <2>8, <2>10, <2>11, UnusedCode
    <2>16. RequestMoves(x)
        BY <2>3, <2>10, <2>14, RotateMoves
    <2> QED
        BY <2>8, <2>9, <2>15, <2>16, AccountStep
<1> QED
    BY <1>8, <1>9

LEMMA ChangePasswordKeeps ==
    ASSUME HumanInv, NEW x \in People, ChangePassword(x) PROVE HumanInv'
<1>1. PICK p : p = person[x]
    OBVIOUS
<1>2. PICK a : a = account[p.u]
    OBVIOUS
<1>3. PICK b : b = SetPassword(a)
    OBVIOUS
<1>4. PICK q : q = [s |-> p.s, secret |-> session[p.s].secret, code |-> 0]
    OBVIOUS
<1>5. PICK r : r = [Rotation(q, a.version + 1, a.version + 1) EXCEPT !.revokes = TRUE]
    OBVIOUS
<1>6. /\ p.op = "FULL" /\ UNCHANGED <<session, secrets>> /\ account' = [account EXCEPT ![p.u] = b]
      /\ Goes(x, r)
    BY <1>1, <1>2, <1>3, <1>4, <1>5 DEF ChangePassword, Change
<1>7. "FULL" \in OnSession
    BY DEF OnSession
<1>8. p.s \in Sessions /\ session[p.s].stage # "none" /\ p.u = session[p.s].user
    BY <1>1, <1>6, <1>7, HumanTypes DEF PersonFits, StageFits
<1>9. /\ p.u \in Users /\ a \in AccountRows /\ AccountFits(a, secrets) /\ a.version \in Nat
      /\ secrets \in Nat /\ session[p.s].secret \in Nat /\ SessionFits(p.s)
    BY <1>2, <1>8, HumanTypes
<1>10. a.st # "none" /\ session[p.s].secret <= secrets
    BY <1>2, <1>8, <1>9 DEF SessionFits, Holds
<1>11. /\ b \in AccountRows /\ b.version = a.version + 1 /\ b.st = a.st /\ b.owner = a.owner
       /\ b.mfa = a.mfa
    BY <1>3, <1>9, SetPasswordRow
<1>12. Moves(a, b, secrets) /\ AccountFits(b, secrets)
    BY <1>9, <1>10, <1>11, VersionMoves
<1>13. AccountsMove /\ account'[p.u] = b /\ \A v \in Users \ {p.u} : account'[v] = account[v]
    <2>1. secrets' \in Nat /\ secrets <= secrets' /\ AccountFits(b, secrets')
        BY <1>6, <1>9, <1>12
    <2> QED
        BY <1>2, <1>6, <1>9, <1>11, <1>12, <2>1, OneAccountMoves
<1>14. OwnersStay(x)
    BY <1>2, <1>9, <1>11, <1>13, OwnersGrow, StaysOwner
<1>15. /\ r.op = "rotate" /\ r.s = p.s /\ r.version = a.version + 1 /\ r.pw = a.version + 1
       /\ r.secret = session[p.s].secret /\ r.code = 0 /\ r.revokes \in BOOLEAN
    BY <1>4, <1>5 DEF Rotation
<1>16. person'[x] = r
    BY <1>6, RequestGoes
<1>17. Holds(r, b, secrets) /\ RotationTyped(r)
    BY <1>9, <1>10, <1>11, <1>15 DEF Holds, RotationTyped
<1>18. PersonFits(person[x])'
    BY <1>6, <1>8, <1>13, <1>15, <1>16, <1>17, RotateFits
<1>19. RequestMoves(x) /\ NewCode(x)
    BY <1>6, <1>15, <1>16, <1>18, RotateMoves, NoCode
<1> QED
    BY <1>13, <1>14, <1>19, AccountStep

LEMMA CreateUserKeeps ==
    ASSUME HumanInv, NEW u \in Users, CreateUser(u) PROVE HumanInv'
<1>1. UNCHANGED <<session, secrets>> /\ person' = person
    BY DEF CreateUser
<1>2. PICK x : RequestMoves(x) /\ NewCode(x)
    BY <1>1, NobodyMoves
<1>3. CASE account[u].st # "none"
    <2>1. account' = account
        BY <1>3 DEF CreateUser
    <2> QED
        BY <1>1, <1>2, <2>1, AccountsRest, AccountStep
<1>4. CASE account[u].st = "none"
    <2>1. PICK owner \in BOOLEAN :
            account' = [account EXCEPT
                ![u] = [NoAccount EXCEPT !.st = "PENDING_SETUP", !.owner = owner, !.version = 1]]
        BY <1>4 DEF CreateUser
    <2>2. PICK b : b = [NoAccount EXCEPT !.st = "PENDING_SETUP", !.owner = owner, !.version = 1]
        OBVIOUS
    <2>3. b \in AccountRows /\ b.st = "PENDING_SETUP" /\ b.version = 1 /\ b.mfa = NoMFA
        <3>1. NoMFA \in Authenticators
            BY DEF NoMFA, Authenticators
        <3> QED
            BY <2>1, <2>2, <3>1 DEF NoAccount, AccountRows
    <2>4. NoMFA.secret = 0 /\ ~NoMFA.on
        BY DEF NoMFA
    <2>5. /\ AccountFits(account[u], secrets) /\ account[u].mfa.secret \in Nat /\ secrets \in Nat
          /\ account[u].version = 0
        BY <1>4, HumanTypes DEF AccountFits
    <2>6. Moves(account[u], b, secrets) /\ AccountFits(b, secrets)
        BY <1>4, <2>3, <2>4, <2>5 DEF Moves, AccountFits
    <2>7. AccountsMove /\ account'[u] = b /\ \A v \in Users \ {u} : account'[v] = account[v]
        <3>1. secrets' \in Nat /\ secrets <= secrets' /\ AccountFits(b, secrets')
            BY <1>1, <2>5, <2>6
        <3> QED
            BY <1>1, <2>1, <2>2, <2>3, <2>6, <3>1, OneAccountMoves
    <2>8. OwnersStay(x)
        BY <1>4, <2>7, OwnersGrow DEF OwnersNow
    <2> QED
        BY <1>2, <2>7, <2>8, AccountStep
<1> QED
    BY <1>3, <1>4

\* One account with a new version, and the request goes plainly.
LEMMA VersionStep ==
    ASSUME HumanInv, UNCHANGED <<session, secrets>>, NEW x \in People, NEW u \in Users,
           NEW b \in AccountRows, account' = [account EXCEPT ![u] = b],
           Moves(account[u], b, secrets), AccountFits(b, secrets),
           b.st = account[u].st, b.owner = account[u].owner,
           NEW r, Goes(x, r), r.op \notin {"rotate", "change"},
           account'[u] = b => PersonFits(person[x])'
    PROVE  HumanInv'
<1>1. AccountsMove /\ account'[u] = b /\ \A v \in Users \ {u} : account'[v] = account[v]
    <2>1. secrets' \in Nat /\ secrets <= secrets' /\ AccountFits(b, secrets')
        BY HumanTypes
    <2> QED
        BY <2>1, OneAccountMoves
<1>2. OwnersStay(x)
    BY <1>1, OwnersGrow, StaysOwner
<1>3. RequestMoves(x) /\ NewCode(x)
    BY <1>1, GoesPlainly
<1> QED
    BY <1>1, <1>2, <1>3, AccountStep

LEMMA ConsumeActivationKeeps ==
    ASSUME HumanInv, NEW x \in People, NEW u \in Users, ConsumeActivation(x, u) PROVE HumanInv'
<1>1. PICK a : a = account[u]
    OBVIOUS
<1>2. PICK b : b = SetPassword(a)
    OBVIOUS
<1>3. PICK c : c = [b EXCEPT !.mfa = NoMFA]
    OBVIOUS
<1>4. PICK r : r = [op |-> "login", u |-> u, seen |-> c]
    OBVIOUS
<1>5. /\ a.st = "PENDING_SETUP" /\ UNCHANGED <<session, secrets>>
      /\ account' = [account EXCEPT ![u] = b] /\ Goes(x, r)
    BY <1>1, <1>2, <1>3, <1>4 DEF ConsumeActivation, Change
<1>6. a \in AccountRows /\ AccountFits(a, secrets) /\ secrets \in Nat /\ a.version \in Nat
    BY <1>1, HumanTypes
<1>7. /\ b \in AccountRows /\ b.version = a.version + 1 /\ b.st = a.st /\ b.owner = a.owner
      /\ b.mfa = a.mfa
    BY <1>2, <1>6, SetPasswordRow
<1>8. Moves(a, b, secrets) /\ AccountFits(b, secrets)
    BY <1>5, <1>6, <1>7, VersionMoves
<1>9. c \in AccountRows /\ c.version = b.version /\ c.pw = b.pw
    <2>1. NoMFA \in Authenticators
        BY DEF NoMFA, Authenticators
    <2> QED
        BY <1>3, <1>7, <2>1 DEF AccountRows
<1>10. r.op = "login" /\ r.u = u /\ r.seen = c
    BY <1>4
<1>11. ASSUME account'[u] = b PROVE PersonFits(person[x])'
    <2>1. person'[x] = r
        BY <1>5, RequestGoes
    <2>2. LoginFits(r)'
        BY <1>5, <1>6, <1>7, <1>9, <1>10, <1>11 DEF LoginFits
    <2>3. "login" \notin OnSession
        BY DEF OnSession, Challenges
    <2> QED
        BY <1>10, <2>1, <2>2, <2>3 DEF PersonFits, LoginFits, StageFits, RotationFits, ChangeFits
<1> QED
    BY <1>1, <1>5, <1>7, <1>8, <1>10, <1>11, VersionStep

LEMMA ResetPasswordKeeps ==
    ASSUME HumanInv, NEW x \in People, NEW u \in Users, ResetPassword(x, u) PROVE HumanInv'
<1>1. PICK a : a = account[u]
    OBVIOUS
<1>2. PICK b : b = SetPassword(a)
    OBVIOUS
<1>3. PICK r : r = [op |-> "revoke", u |-> u, except |-> "none"]
    OBVIOUS
<1>4. /\ a.st # "none" /\ UNCHANGED <<session, secrets>>
      /\ account' = [account EXCEPT ![u] = b] /\ Goes(x, r)
    BY <1>1, <1>2, <1>3 DEF ResetPassword, Change
<1>5. a \in AccountRows /\ AccountFits(a, secrets) /\ secrets \in Nat
    BY <1>1, HumanTypes
<1>6. /\ b \in AccountRows /\ b.version = a.version + 1 /\ b.st = a.st /\ b.owner = a.owner
      /\ b.mfa = a.mfa
    BY <1>2, <1>5, SetPasswordRow
<1>7. Moves(a, b, secrets) /\ AccountFits(b, secrets)
    BY <1>4, <1>5, <1>6, VersionMoves
<1>8. PersonFits(person[x])' /\ r.op = "revoke"
    BY <1>3, <1>4, RequestGoes, RevokesFit
<1> QED
    BY <1>1, <1>4, <1>6, <1>7, <1>8, VersionStep

LEMMA ResetUserMFAKeeps ==
    ASSUME HumanInv, NEW x \in People, NEW u \in Users, ResetUserMFA(x, u) PROVE HumanInv'
<1>1. PICK a : a = account[u]
    OBVIOUS
<1>2. PICK b : b = [Bumped(a) EXCEPT !.mfa = NoMFA]
    OBVIOUS
<1>3. PICK r : r = [op |-> "revoke", u |-> u, except |-> "none"]
    OBVIOUS
<1>4. /\ a.st # "none" /\ UNCHANGED <<session, secrets>>
      /\ account' = [account EXCEPT ![u] = b] /\ Goes(x, r)
    BY <1>1, <1>2, <1>3 DEF ResetUserMFA, Change
<1>5. /\ a \in AccountRows /\ AccountFits(a, secrets) /\ secrets \in Nat /\ a.version \in Nat
      /\ a.mfa.secret \in Nat
    BY <1>1, HumanTypes
<1>6. NoMFA \in Authenticators /\ NoMFA.secret = 0 /\ ~NoMFA.on
    BY DEF NoMFA, Authenticators
<1>7. /\ b \in AccountRows /\ b.version = a.version + 1 /\ b.st = a.st /\ b.owner = a.owner
      /\ b.mfa = NoMFA
    <2>1. PICK c : c = Bumped(a)
        OBVIOUS
    <2>2. c \in AccountRows /\ c.version = a.version + 1 /\ c.owner = a.owner /\ c.st = a.st
        BY <1>5, <2>1, BumpedRow
    <2>3. b = [c EXCEPT !.mfa = NoMFA]
        BY <1>2, <2>1
    <2> QED
        BY <1>6, <2>2, <2>3 DEF AccountRows
<1>8. Moves(a, b, secrets) /\ AccountFits(b, secrets)
    BY <1>4, <1>5, <1>6, <1>7 DEF Moves, AccountFits
<1>9. PersonFits(person[x])' /\ r.op = "revoke"
    BY <1>3, <1>4, RequestGoes, RevokesFit
<1> QED
    BY <1>1, <1>4, <1>7, <1>8, <1>9, VersionStep

\* A set of owners that is not one of u alone has another.
LEMMA AnotherOwner ==
    ASSUME NEW S, IsFiniteSet(S), NEW u, ~(Cardinality(S) <= 1) PROVE \E v \in S : v # u
<1> SUFFICES ASSUME S \subseteq {u} PROVE FALSE
    OBVIOUS
<1>1. IsFiniteSet({u}) /\ Cardinality({u}) = 1
    BY FS_Singleton
<1>2. Cardinality(S) <= Cardinality({u})
    BY <1>1, FS_Subset
<1> QED
    BY <1>1, <1>2

\* The owners a change has counted are locked until it is done, so one of
\* them other than its target is still an owner.
LEMMA ChangeUserKeeps ==
    ASSUME HumanInv, NEW x \in People, ChangeUser(x) PROVE HumanInv'
<1>1. PICK p : p = person[x]
    OBVIOUS
<1>2. PICK a : a = account[p.u]
    OBVIOUS
<1>3. PICK owner : owner = IF p.owner = "keep" THEN a.owner ELSE p.owner = "OWNER"
    OBVIOUS
<1>4. PICK st : st = IF p.st = "keep" THEN a.st ELSE p.st
    OBVIOUS
<1>5. p.op = "change" /\ UNCHANGED <<session, secrets>>
    BY <1>1 DEF ChangeUser
<1>6. /\ p.u \in Users /\ a.st # "none" /\ p.u \in p.locks
      /\ p.owner \in {"keep", "OWNER", "ADMIN"} /\ p.st \in {"keep", "ACTIVE", "DISABLED"}
      /\ p.owners \subseteq OwnersNow /\ IsFiniteSet(p.owners)
    BY <1>1, <1>2, <1>5, HumanTypes DEF PersonFits, ChangeFits
<1>7. a \in AccountRows /\ AccountFits(a, secrets) /\ secrets \in Nat
    BY <1>2, <1>6, HumanTypes
<1>8. DEFINE last == p.u \in OwnersNow /\ ~(owner /\ st = "ACTIVE") /\ Cardinality(p.owners) <= 1
<1>9. CASE last
    <2>1. Goes(x, NoPerson) /\ account' = account
        BY <1>1, <1>2, <1>3, <1>4, <1>9 DEF ChangeUser
    <2> QED
        BY <1>5, <2>1, RequestGoes, IdleFits, ReadsOnly
<1>10. CASE ~last
    <2>1. PICK b : b = [Bumped(a) EXCEPT !.owner = owner, !.st = st]
        OBVIOUS
    <2>2. PICK r : r = IF p.st = "DISABLED" THEN [op |-> "revoke", u |-> p.u, except |-> "none"] ELSE NoPerson
        OBVIOUS
    <2>3. account' = [account EXCEPT ![p.u] = b] /\ Goes(x, r)
        BY <1>1, <1>2, <1>3, <1>4, <1>10, <2>1, <2>2 DEF ChangeUser
    <2>4. owner \in BOOLEAN
        BY <1>3, <1>7 DEF AccountRows
    <2>5. st \in {"none", "PENDING_SETUP", "ACTIVE", "DISABLED"} /\ st # "none"
        BY <1>4, <1>6, <1>7 DEF AccountRows
    <2>6. b \in AccountRows /\ b.version = a.version + 1 /\ b.st = st /\ b.owner = owner /\ b.mfa = a.mfa
        <3>1. PICK c : c = Bumped(a)
            OBVIOUS
        <3>2. c \in AccountRows /\ c.version = a.version + 1 /\ c.mfa = a.mfa
            BY <1>7, <3>1, BumpedRow
        <3> QED
            BY <2>1, <2>4, <2>5, <3>1, <3>2 DEF AccountRows
    <2>7. Moves(a, b, secrets) /\ AccountFits(b, secrets)
        BY <1>6, <1>7, <2>5, <2>6, VersionMoves
    <2>8. AccountsMove /\ account'[p.u] = b /\ \A v \in Users \ {p.u} : account'[v] = account[v]
        <3>1. secrets' \in Nat /\ secrets <= secrets' /\ AccountFits(b, secrets')
            BY <1>5, <1>7, <2>7
        <3> QED
            BY <1>2, <1>5, <1>6, <2>3, <2>6, <2>7, <3>1, OneAccountMoves
    <2>9. OwnersStay(x)
        <3>1. CASE p.u \in OwnersNow => owner /\ st = "ACTIVE"
            <4>1. p.u \in OwnersNow => p.u \in OwnersNow'
                BY <1>6, <2>6, <2>8, <3>1 DEF OwnersNow
            <4> QED
                BY <1>6, <2>8, <4>1, OwnersGrow
        <3>2. CASE p.u \in OwnersNow /\ ~(owner /\ st = "ACTIVE")
            <4>1. OwnersNow \ {p.u} \subseteq OwnersNow' /\ OwnersNow' \subseteq OwnersNow
                BY <2>6, <2>8, <3>2 DEF OwnersNow
            <4>2. OwnersNow' # {}
                <5>1. PICK v \in p.owners : v # p.u
                    BY <1>6, <1>10, <3>2, AnotherOwner
                <5> QED
                    BY <1>6, <4>1, <5>1
            <4>3. IsFiniteSet(OwnersNow')
                BY <4>1, FS_Subset DEF HumanInv, OwnersFit
            <4>4. ASSUME NEW y \in People \ {x}, person[y].op = "change"
                  PROVE  person[y].owners \subseteq OwnersNow'
                <5>1. person[y].owners \subseteq OwnersNow /\ person[y].owners \subseteq person[y].locks
                    BY <4>4, HumanTypes DEF PersonFits, ChangeFits
                <5>2. person[y].locks \cap p.locks = {}
                    BY <1>1, <1>5, <4>4 DEF HumanInv, LocksDiffer
                <5> QED
                    BY <1>6, <4>1, <5>1, <5>2
            <4> QED
                BY <4>2, <4>3, <4>4 DEF OwnersStay, OwnersFit
        <3> QED
            BY <3>1, <3>2
    <2>10. PersonFits(person[x])' /\ r.op \notin {"rotate", "change"}
        <3>1. person'[x] = r
            BY <2>3, RequestGoes
        <3>2. CASE r = NoPerson
            BY <3>1, <3>2, IdleFits
        <3>3. CASE r = [op |-> "revoke", u |-> p.u, except |-> "none"]
            <4>1. PersonFits(person[x])' /\ person'[x].op = "revoke"
                BY <1>6, <3>1, <3>3, RevokesFit
            <4> QED
                BY <3>1, <4>1
        <3> QED
            BY <2>2, <3>2, <3>3
    <2> QED
        BY <2>3, <2>8, <2>9, <2>10, GoesPlainly, AccountStep
<1> QED
    BY <1>9, <1>10
-----------------------------------------------------------------------------
LEMMA HumanInvInit == HumanInit => HumanInv
<1> SUFFICES ASSUME HumanInit PROVE HumanInv
    OBVIOUS
<1>1. NoMFA \in Authenticators /\ NoMFA.secret = 0 /\ ~NoMFA.on
    BY DEF NoMFA, Authenticators
<1>2. PICK first : first = [NoAccount EXCEPT !.st = "ACTIVE", !.owner = TRUE, !.pw = 1, !.version = 1]
    OBVIOUS
<1>3. /\ NoAccount \in AccountRows /\ NoAccount.st = "none" /\ NoAccount.mfa = NoMFA
      /\ NoAccount.pw = 0 /\ NoAccount.version = 0 /\ ~NoAccount.owner
    BY <1>1 DEF NoAccount, AccountRows
<1>4. first \in AccountRows /\ first.st = "ACTIVE" /\ first.owner /\ first.mfa = NoMFA
    BY <1>2, <1>3 DEF AccountRows
<1>5. /\ NoSession \in SessionRows /\ NoSession.stage = "none" /\ NoSession.revoked
      /\ NoSession.code = 0 /\ NoPerson.op = "none"
    BY HumanAssumption DEF NoSession, NoPerson, SessionRows
<1>6. /\ account = [u \in Users |-> IF u = FirstOwner THEN first ELSE NoAccount]
      /\ session = [s \in Sessions |-> NoSession] /\ person = [x \in People |-> NoPerson] /\ secrets = 0
    BY <1>2 DEF HumanInit
<1>7. HumanTyped
    BY <1>3, <1>4, <1>5, <1>6 DEF HumanTyped
<1>8. \A u \in Users : AccountFits(account[u], secrets)
    BY <1>1, <1>3, <1>4, <1>6 DEF AccountFits
<1>9. \A s \in Sessions : SessionFits(s)
    BY <1>5, <1>6 DEF SessionFits, Challenges
<1>10. \A x \in People : PersonFits(person[x])
    <2>1. "none" \notin OnSession
        BY DEF OnSession, Challenges
    <2> QED
        BY <1>5, <1>6, <2>1 DEF PersonFits, LoginFits, StageFits, RotationFits, ChangeFits
<1>11. CodesDiffer /\ FromDiffer /\ LocksDiffer
    BY <1>5, <1>6 DEF CodesDiffer, SessionsDiffer, MixedDiffer, PeopleDiffer, Differ, FromDiffer, LocksDiffer
<1>12. OwnersFit
    <2>1. OwnersNow = {FirstOwner}
        BY <1>3, <1>4, <1>6, HumanAssumption DEF OwnersNow
    <2> QED
        BY <2>1, FS_Singleton DEF OwnersFit
<1> QED
    BY <1>7, <1>8, <1>9, <1>10, <1>11, <1>12 DEF HumanInv, Fits

LEMMA HumanInvKept == HumanInv /\ [HumanNext]_humanVars => HumanInv'
<1> SUFFICES ASSUME HumanInv, [HumanNext]_humanVars PROVE HumanInv'
    OBVIOUS
<1>1. ASSUME NEW x \in People, NEW u \in Users,
             \/ LoginReads(x, u) \/ ConsumeActivation(x, u) \/ ResetPassword(x, u) \/ ResetUserMFA(x, u)
             \/ \E role \in {"OWNER", "ADMIN"} : AdminReads(x, u, role, "keep")
             \/ \E st \in {"ACTIVE", "DISABLED"} : AdminReads(x, u, "keep", st)
      PROVE  HumanInv'
    BY <1>1, LoginReadsKeeps, ConsumeActivationKeeps, ResetPasswordKeeps, ResetUserMFAKeeps, AdminReadsKeeps
<1>2. ASSUME NEW x \in People, NEW code \in 1 .. MaxSteps, VerifyReads(x, code) \/ ConfirmReads(x, code)
      PROVE  HumanInv'
    BY <1>2, VerifyReadsKeeps, ConfirmReadsKeeps
<1>3. ASSUME NEW x \in People, \E s \in Sessions : AuthReadsSession(x, s) PROVE HumanInv'
    BY <1>3, AuthReadsSessionKeeps
<1>4. ASSUME NEW x \in People,
             \/ LoginIssues(x) \/ AuthReadsUser(x) \/ VerifySpends(x) \/ StartEnrollment(x)
             \/ EnableMFA(x) \/ ChangePassword(x) \/ Logout(x) \/ RotateSession(x)
             \/ RevokeUserSessions(x) \/ ChangeUserLocks(x) \/ ChangeUser(x) \/ PersonStops(x)
      PROVE  HumanInv'
    BY <1>4, LoginIssuesKeeps, AuthReadsUserKeeps, VerifySpendsKeeps, StartEnrollmentKeeps, EnableMFAKeeps,
       ChangePasswordKeeps, LogoutKeeps, RotateSessionKeeps, RevokeUserSessionsKeeps, ChangeUserLocksKeeps,
       ChangeUserKeeps, PersonStopsKeeps
<1>5. ASSUME NEW u \in Users, CreateUser(u) PROVE HumanInv'
    BY <1>5, CreateUserKeeps
<1>6. CASE UNCHANGED humanVars
    BY <1>6, HumanStutters
<1> QED
    BY <1>1, <1>2, <1>3, <1>4, <1>5, <1>6 DEF HumanNext

LEMMA HumanInvSound == HumanInv => AccountsAreSound
<1> SUFFICES ASSUME HumanInv PROVE AccountsAreSound
    OBVIOUS
<1>1. UsableIsEarned
    <2> SUFFICES ASSUME NEW s \in Sessions, Usable(s)
                 PROVE  LET a == account[session[s].user] IN
                        /\ session[s].stage # "FULL" => session[s].pw = a.pw
                        /\ session[s].code # 0 => a.mfa.on /\ session[s].secret = a.mfa.secret
        BY DEF UsableIsEarned
    <2>1. session[s].version = account[session[s].user].version /\ ~session[s].revoked
        BY DEF Usable, Accepts
    <2>2. SessionFits(s) /\ session[s] \in SessionRows
        BY HumanTypes
    <2>3. session[s].stage # "none" /\ Holds(session[s], account[session[s].user], secrets)
        BY <2>1, <2>2 DEF SessionFits
    <2>4. session[s].stage # "FULL" => session[s].stage \in Challenges
        BY <2>2, <2>3 DEF SessionRows
    <2> QED
        BY <2>1, <2>2, <2>3, <2>4 DEF SessionFits, Holds
<1>2. SpentOnce
    <2> SUFFICES ASSUME NEW s \in Sessions, NEW o \in Sessions, s # o,
                        session[s].stage = "FULL", session[o].stage = "FULL"
                 PROVE  /\ session[s].from # session[o].from
                        /\ session[s].code # 0 /\ session[s].user = session[o].user
                              /\ session[s].secret = account[session[s].user].mfa.secret
                           => <<session[s].secret, session[s].code>> # <<session[o].secret, session[o].code>>
        BY DEF SpentOnce
    <2> QED
        BY DEF HumanInv, FromDiffer, CodesDiffer, SessionsDiffer, Differ
<1>3. OwnerRemains
    BY DEF HumanInv, OwnersFit, OwnerRemains
<1> QED
    BY <1>1, <1>2, <1>3 DEF AccountsAreSound

\* However requests, resets and administrators interleave, a session that is
\* accepted rests on the password and the authenticator of now, a challenge
\* and a code give one session each, and an active owner is left
\* (humanauth/service.go, humanauth.go ConsumeTOTPStep, RotateSession,
\* ChangeUser).
THEOREM AccountsSound == HumanSafe => []AccountsAreSound
<1>1. HumanSafe => []HumanInv
    BY HumanInvInit, HumanInvKept, PTL DEF HumanSafe
<1> QED
    BY <1>1, HumanInvSound, PTL
=============================================================================
