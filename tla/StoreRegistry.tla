---------------------------- MODULE StoreRegistry ----------------------------
(***************************************************************************)
(* The identity of the workstations: their credentials                     *)
(* (internal/auth/service.go, internal/adapter/postgres/devices.go) and    *)
(* the Store each is bound to (internal/adapter/postgres/store.go).        *)
(*                                                                         *)
(* A transaction that locks the row of its device is one step.  Steps of   *)
(* their own are the reads before it: authentication reads the credential, *)
(* then the device, and the handler runs on what they said; a rotation     *)
(* reads the device, then writes.  Timestamps and Store metadata are left  *)
(* out.                                                                    *)
(***************************************************************************)
EXTENDS Naturals, FiniteSets

CONSTANTS
    Workstations,
    Credentials,
    Stores,
    Requests,       \* requests and operator commands at work
    NoStore

ASSUME RegistryAssumption == NoStore \notin Stores

VARIABLES
    station,    \* devices.status
    credential, \* device_credentials
    founded,    \* stores
    binding,    \* device_store_bindings
    request,    \* what each request is about
    founder     \* history: the workstations that bound themselves

registryVars == <<station, credential, founded, binding, request, founder>>
-----------------------------------------------------------------------------
NoCredential == [of |-> NoStore, st |-> "none"]
Idle == [op |-> "none"]

\* Identifiers are taken in some order.
Unused == {c \in Credentials : credential[c].st = "none"}
Fresh == CHOOSE c \in Unused : TRUE
ActiveOf(d) == {c \in Credentials : credential[c] = [of |-> d, st |-> "active"]}

RegistryTypeOK ==
    /\ station \in [Workstations -> {"none", "active", "revoked"}]
    /\ \A c \in Credentials :
        \/ credential[c] = NoCredential
        \/ credential[c] \in [of : Workstations, st : {"active", "revoked"}]
    /\ founded \subseteq Stores
    /\ binding \in [Workstations -> Stores \cup {NoStore}]
    /\ founder \subseteq Workstations

RegistryInit ==
    /\ station = [d \in Workstations |-> "none"]
    /\ credential = [c \in Credentials |-> NoCredential]
    /\ founded = {} /\ binding = [d \in Workstations |-> NoStore]
    /\ request = [x \in Requests |-> Idle] /\ founder = {}

Becomes(x, r) == request' = [request EXCEPT ![x] = r]
-----------------------------------------------------------------------------
\* Provision: the device and its first credential.
Provision(d) ==
    /\ station[d] = "none" /\ Unused # {}
    /\ station' = [station EXCEPT ![d] = "active"]
    /\ credential' = [credential EXCEPT ![Fresh] = [of |-> d, st |-> "active"]]
    /\ UNCHANGED <<founded, binding, request, founder>>

\* RevokeDeviceAll.
RevokeDeviceAll(d) ==
    /\ station[d] # "none"
    /\ station' = [station EXCEPT ![d] = "revoked"]
    /\ credential' = [c \in Credentials |->
                        IF c \in ActiveOf(d) THEN [of |-> d, st |-> "revoked"] ELSE credential[c]]
    /\ UNCHANGED <<founded, binding, request, founder>>

RevokeCredential(c) ==
    /\ credential[c].st = "active"
    /\ credential' = [credential EXCEPT ![c].st = "revoked"]
    /\ UNCHANGED <<station, founded, binding, request, founder>>

\* Rotate, the service: an active device is asked for,
RotateReads(x, d) ==
    /\ request[x] = Idle /\ station[d] = "active" /\ Becomes(x, [op |-> "rotate", dev |-> d])
    /\ UNCHANGED <<station, credential, founded, binding, founder>>

\* and its transaction, which locks the device without looking at it again.
Rotate(x) ==
    /\ request[x].op = "rotate" /\ Unused # {}
    /\ LET d == request[x].dev IN
        credential' = [o \in Credentials |->
            IF o = Fresh THEN [of |-> d, st |-> "active"]
            ELSE IF o \in ActiveOf(d) THEN [of |-> d, st |-> "revoked"] ELSE credential[o]]
    /\ Becomes(x, Idle) /\ UNCHANGED <<station, founded, binding, founder>>
-----------------------------------------------------------------------------
\* A workstation asks to be registered at a Store.  late: its device had
\* been revoked when it asked.
Arrives(x, c, s) ==
    /\ request[x] = Idle /\ credential[c].st # "none"
    /\ Becomes(x, [op |-> "credential", cred |-> c, dev |-> credential[c].of, store |-> s,
                   late |-> station[credential[c].of] = "revoked"])
    /\ UNCHANGED <<station, credential, founded, binding, founder>>

\* Authenticate: an active credential,
ReadsCredential(x) ==
    /\ request[x].op = "credential"
    /\ Becomes(x, IF credential[request[x].cred].st = "active"
                  THEN [request[x] EXCEPT !.op = "device"] ELSE Idle)
    /\ UNCHANGED <<station, credential, founded, binding, founder>>

\* of an active device.
ReadsDevice(x) ==
    /\ request[x].op = "device"
    /\ Becomes(x, IF station[request[x].dev] = "active"
                  THEN [request[x] EXCEPT !.op = "admitted"] ELSE Idle)
    /\ UNCHANGED <<station, credential, founded, binding, founder>>

\* Mutant: a Store that exists is joined as well.
MayRegisterAnywhere(d, s) == binding[d] \in {NoStore, s}

\* RegisterStore: a bound workstation may repeat its Store, an unbound one
\* may only found one.
MayRegister(d, s) ==
    \/ binding[d] = s
    \/ binding[d] = NoStore /\ s \notin founded

RegisterStore(x) ==
    LET d == request[x].dev  s == request[x].store IN
    /\ request[x].op = "admitted" /\ Becomes(x, Idle)
    /\ IF station[d] = "active" /\ MayRegister(d, s)
       THEN /\ founder' = IF binding[d] = s THEN founder ELSE founder \cup {d}
            /\ founded' = founded \cup {s}
            /\ binding' = [binding EXCEPT ![d] = s]
       ELSE UNCHANGED <<founded, binding, founder>>
    /\ UNCHANGED <<station, credential>>

\* EnrollStore: the operator's command.
EnrollStore(d, s) ==
    /\ station[d] = "active" /\ s \in founded /\ binding[d] = NoStore
    /\ binding' = [binding EXCEPT ![d] = s]
    /\ UNCHANGED <<station, credential, founded, request, founder>>

RegistryNext ==
    \/ \E d \in Workstations : Provision(d) \/ RevokeDeviceAll(d)
    \/ \E c \in Credentials : RevokeCredential(c)
    \/ \E d \in Workstations, s \in Stores : EnrollStore(d, s)
    \/ \E x \in Requests :
        \/ \E d \in Workstations : RotateReads(x, d)
        \/ Rotate(x)
        \/ \E c \in Credentials, s \in Stores : Arrives(x, c, s)
        \/ ReadsCredential(x) \/ ReadsDevice(x) \/ RegisterStore(x)

RegistrySpec == RegistryInit /\ [][RegistryNext]_registryVars
-----------------------------------------------------------------------------
\* "a bound device presenting a different Store gets a deterministic
\* conflict" and "rejects a concurrent loser without enrolling it"
\* (RegisterStore): nobody but the operator brings a second workstation into
\* a Store, however many ask at once.
OneFounder ==
    \A d, o \in founder : binding[d] = binding[o] => d = o

\* A request made after its device was revoked is not admitted, even though
\* a rotation under way at the revocation leaves it an active credential
\* (Authenticate, Rotate, RevokeDeviceAll).
RevokedIsOut ==
    \A x \in Requests : request[x].op = "admitted" => ~request[x].late

RegistryIsSound == RegistryTypeOK /\ OneFounder /\ RevokedIsOut

\* First binding wins permanently, and a revoked workstation gets none, though
\* it was admitted before it was revoked (RegisterStore, EnrollStore).
BindingsStay ==
    [][\A d \in Workstations :
        binding'[d] # binding[d] => binding[d] = NoStore /\ station[d] = "active"]_registryVars
=============================================================================
