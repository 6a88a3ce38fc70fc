------------------------------- MODULE MCField -------------------------------
(***************************************************************************)
(* The workstations and people in the field, and what they are told.  Each *)
(* behaviour plays one scene:                                              *)
(*   stores      StoreRegistry, whole;                                     *)
(*   rollout     one release for two workstations, one of which reports    *)
(*               what it runs;                                             *)
(*   releases    two releases that go well and are not stopped, to one that *)
(*               stays capable, one report on its way at a time;           *)
(*   sessions    requests and sessions of one account, from its first      *)
(*               login, which keeps its role and status;                   *)
(*   codes       the logins of that account once it is set up;             *)
(*   owners      two complete owners whose role and status are changed;    *)
(*   settings    one command on an entity the workstations changed apart,  *)
(*               which stay capable;                                       *)
(*   creation    one command that creates;                                 *)
(*   figures     Reports, one fact blocked at most.                        *)
(***************************************************************************)
EXTENDS StoreRegistry, FleetUpdates, HumanAccounts, CatalogAdmin, Reports

CONSTANTS Scenes    \* those a run plays

VARIABLE scene

mcVars == <<scene, registryVars, fleetVars, humanVars, adminVars, reportVars>>
-----------------------------------------------------------------------------
\* One workstation is chosen at 50 %.
Early == CHOOSE d \in Fleet : TRUE
MCBucket == [t \in Targets |-> IF t[2] = Early THEN 50 ELSE 100]
MCArtifacts == Targets

Line(product, variant, type, root, tags, total) ==
    [product |-> product, variant |-> variant, type |-> type, root |-> root, tags |-> tags,
     total |-> total]

Lamp == Line("lamp", "tall", "light", "home", {"new"}, 1)
Vase == Line("vase", "plain", "decor", "home", {"new", "glass"}, 1)
LampThen == Line("lamp", "plain", "light", "garden", {"new"}, 1)
LampLater == Line("lamp", "tall", "decor", "home", {}, 1)

Pay(method, amount) == [method |-> method, amount |-> amount]

\* One shop changes its name, a payment is a minor unit short or over, and one
\* sale comes in the third event version.
MCSold ==
    "s1" :> [version |-> "v1", shop |-> "A", currency |-> "USD", rate |-> 3, day |-> 1, cashier |-> "Ana",
             channel |-> "till", branch |-> "then", total |-> 3, lines |-> {Lamp, Vase},
             pays |-> {Pay("cash", 1), Pay("card", 3)}]
    @@ "s2" :> [version |-> "v3", shop |-> "none", currency |-> "USD", rate |-> 5, day |-> 1, cashier |-> "Bob",
             channel |-> "web", branch |-> "then", total |-> 1, lines |-> {LampThen},
             pays |-> {Pay("card", 1)}]
    @@ "s3" :> [version |-> "v2", shop |-> "B", currency |-> "EGP", rate |-> 3, day |-> 2, cashier |-> "Ana",
             channel |-> "till", branch |-> "now", total |-> 2, lines |-> {LampLater},
             pays |-> {Pay("cash", 1)}]

\* Taken back a day later, by another, at another rate; more is given back for
\* a line than it cost, and only one of the two fits.
MCGiven ==
    "r1" :> [sale |-> "s1", shop |-> "A", day |-> 2, rate |-> 5, cashier |-> "Bob",
             lines |-> {[line |-> Lamp, refund |-> 2]}]
    @@ "r2" :> [sale |-> "s1", shop |-> "A", day |-> 2, rate |-> 3, cashier |-> "Ana",
             lines |-> {[line |-> Lamp, refund |-> 1], [line |-> Vase, refund |-> 1]}]
-----------------------------------------------------------------------------
\* Accounts in use: set up by the bootstrap or an invitation, an
\* authenticator enabled, its last code long ago.
InUse(u) ==
    [st |-> "ACTIVE", owner |-> TRUE, pw |-> 1, version |-> IF u = FirstOwner THEN 2 ELSE 3,
     mfa |-> [secret |-> 1, on |-> TRUE, last |-> 0]]

AccountsInUse ==
    /\ account = [u \in Users |-> InUse(u)] /\ session = [s \in Sessions |-> NoSession]
    /\ invited = {} /\ person = [x \in People |-> NoPerson] /\ secrets = MaxSecrets

\* Where no command is played the workstations agree on the entity.
MCInit ==
    /\ scene \in Scenes /\ RegistryInit /\ FleetInit /\ AdminInit /\ ReportsInit
    /\ IF scene \in {"codes", "owners"} THEN AccountsInUse ELSE HumanInit
    /\ scene # "settings" => \A d \in Desks : desk[d].value = CHOOSE v \in Values : TRUE

OneRollout ==
    /\ \A r \in Sequences \ {1} : rollout'[r] = NoRollout /\ release'[r] = "none"
    /\ Cardinality(reports') <= 2 /\ rollout'[1].percentage \in {0, 50}

\* Both releases are activated first, and go to all at once.
TwoReleases ==
    /\ release' # release =>
        release' \in [Sequences -> {"none", "ACTIVE"}] /\ rollout = [r \in Sequences |-> NoRollout]
    /\ \A r \in Sequences : rollout'[r].percentage \in {0, 100} /\ rollout'[r].st \notin {"PAUSED", "CANCELLED"}
    /\ Cardinality(reports') <= 1
    /\ updater'[Early].capable \/ updater'[Early] = NotReported
    /\ \A t \in Targets : phase'[t] \notin {"FAILED", "ROLLED_BACK"}

OneAccount ==
    /\ \A u \in Users \ {FirstOwner} : account'[u].st = "none"
    /\ \A x \in People : person'[x].op # "admin"
    /\ account'[FirstOwner].version <= 3 /\ \E s \in Sessions : session'[s].stage = "none"

\* The account stays as it is.
Codes ==
    /\ \A u \in Users : account'[u].version = account[u].version
    /\ \A x \in People : person'[x].op = "login" => person'[x].u = FirstOwner
    /\ \A x \in People : person'[x].op \notin {"admin", "FULL"}

Owners ==
    /\ \A u \in Users : account'[u].pw = account[u].pw /\ account'[u].mfa = account[u].mfa
    /\ \A s \in Sessions : session'[s].stage = "none"
    /\ \A x \in People : person'[x].op # "login"

Settings ==
    /\ \A c \in Creating : command'[c] = NoCommand
    /\ \A d \in Desks : desk[d].capable => desk'[d].capable

Creation ==
    /\ \A c \in Commands \ Creating : command'[c] = NoCommand
    /\ \A d \in Desks : desk'[d].rev = desk[d].rev

MCNext ==
    /\ scene' = scene
    /\ \/ /\ scene = "stores" /\ RegistryNext
          /\ UNCHANGED <<fleetVars, humanVars, adminVars, reportVars>>
       \/ /\ scene \in {"rollout", "releases"} /\ FleetNext
          /\ \A d \in Fleet \ {Early} : updater'[d] = NotReported
          /\ IF scene = "rollout" THEN OneRollout ELSE TwoReleases
          /\ UNCHANGED <<registryVars, humanVars, adminVars, reportVars>>
       \/ /\ scene = "sessions" /\ HumanNext /\ OneAccount
          /\ UNCHANGED <<registryVars, fleetVars, adminVars, reportVars>>
       \/ /\ scene = "codes" /\ HumanNext /\ Codes
          /\ UNCHANGED <<registryVars, fleetVars, adminVars, reportVars>>
       \/ /\ scene = "owners" /\ HumanNext /\ Owners
          /\ UNCHANGED <<registryVars, fleetVars, adminVars, reportVars>>
       \/ /\ scene = "settings" /\ AdminNext /\ Settings
          /\ UNCHANGED <<registryVars, fleetVars, humanVars, reportVars>>
       \/ /\ scene = "creation" /\ AdminNext /\ Creation
          /\ UNCHANGED <<registryVars, fleetVars, humanVars, reportVars>>
       \/ /\ scene = "figures" /\ ReportsNext /\ Cardinality(refused') <= 1
          /\ UNCHANGED <<registryVars, fleetVars, humanVars, adminVars>>

MCSpec == MCInit /\ [][MCNext]_mcVars
-----------------------------------------------------------------------------
\* Workstations are bound once, and receive what is still on offer.
FieldMovesOn == DeliveredWhileActive /\ BindingsStay
=============================================================================
