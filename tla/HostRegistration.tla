-------------------------- MODULE HostRegistration --------------------------
(***************************************************************************)
(* What a ComponentHost (angzarr_client/host.py) is given: dispatch tables *)
(* with their descriptors, an upcaster, services of the application; the   *)
(* checks start() makes of it, and what the server is then built with.     *)
(* Nothing closes the host to a call after start().  The router is public  *)
(* and may have been passed in, and the tables are the application's: it   *)
(* can register a table on the router, close it, or give a table another   *)
(* version behind the host's back, at any time.                            *)
(*                                                                         *)
(* A table is added by the method of its own kind.  stop() is module       *)
(* ComponentHost's: of a router, what it does is RouterClose.              *)
(***************************************************************************)
EXTENDS Naturals, Sequences

CONSTANTS
  Table,          \* dispatch tables
  KindOf,         \* each table's kind of component
  NamesDomains,   \* whether a projector's table names its input domains
  Version,        \* build versions
  NoVersion,      \* the empty one
  HostVersion,    \* the host's rules_version
  Service,        \* names of application services
  MaxGiven,       \* bound: components refused, and services added
  NoTable,        \* None, where a table could be
  NoServer        \* no server was built yet

Kinds == {"aggregate", "process_manager", "policy", "projector"}

ASSUME TableAssumption ==
  /\ KindOf \in [Table -> Kinds] /\ NamesDomains \in [Table -> BOOLEAN]
  /\ NoTable \notin Table
ASSUME VersionAssumption == NoVersion \in Version /\ HostVersion \in Version
ASSUME BoundAssumption == MaxGiven \in Nat

VARIABLES
  version,      \* rules_version of each table
  router,       \* the table the router hosts, or NoTable
  claimed,      \* _component_name, as the table that has it, or NoTable
  kind,         \* _kind: the kind service to serve, or "none"
  descriptor,   \* the descriptor Describe answers: [version, inputs]
  refused,      \* _refused
  upcaster,     \* _upcaster is set
  services,     \* _app_services
  serving,      \* what the server was built with, or NoServer
  told,         \* how the last call ended
  given,        \* history: the tables add_* took before the server was built
  meddled       \* history: what of the component the application changed
                \* once its host had registered it

registrationVars == <<version, router, claimed, kind, descriptor, refused,
                      upcaster, services, serving, told, given, meddled>>

KindServices == {"CommandHandlerService", "PolicyService", "ProjectorService"}
Descriptors  == [version : Version, inputs : BOOLEAN]
Servers      == [kind : KindServices \cup {"none"}, descriptor : Descriptors,
                 upcaster : BOOLEAN, services : Seq(Service)]

ASSUME ServerAssumption == NoServer \notin Servers

running == serving # NoServer

\* A process manager is a domain: it serves what an aggregate serves.
ServiceOf(k) == CASE k \in {"aggregate", "process_manager"} -> "CommandHandlerService"
                  [] k = "policy"    -> "PolicyService"
                  [] k = "projector" -> "ProjectorService"

\* What the component's answers will report: the table's own version, else
\* the host's.
Reported(t) == IF version[t] # NoVersion THEN version[t] ELSE HostVersion

RegistrationInit ==
  /\ version \in [Table -> Version]
  /\ router = NoTable /\ claimed = NoTable /\ kind = "none"
  /\ descriptor = [version |-> NoVersion, inputs |-> FALSE]
  /\ refused = <<>> /\ upcaster = FALSE /\ services = <<>>
  /\ serving = NoServer /\ told = "none" /\ given = {} /\ meddled = {}
----------------------------------------------------------------------------
(* What the application does to the router and the tables themselves. *)

Meddles(with) ==
  meddled' = IF kind = "none" THEN meddled ELSE meddled \cup {with}

\* with_rules_version, of a table registered or not.
WithRulesVersion(t, v) ==
  /\ version' = [version EXCEPT ![t] = v]
  /\ IF t = claimed THEN Meddles("version") ELSE UNCHANGED meddled
  /\ UNCHANGED <<router, claimed, kind, descriptor, refused, upcaster,
                 services, serving, told, given>>

\* Router.register_*, called by the application: one component per router.
RouterRegister(t) ==
  /\ \/ router = NoTable /\ router' = t /\ told' = "ok"
     \/ router # NoTable /\ told' = "duplicate" /\ UNCHANGED router
  /\ UNCHANGED <<version, claimed, kind, descriptor, refused, upcaster,
                 services, serving, given, meddled>>

\* Router.close, and what stop() does to a router of the host's own.
RouterClose ==
  /\ router' = NoTable
  /\ Meddles("router")
  /\ UNCHANGED <<version, claimed, kind, descriptor, refused, upcaster,
                 services, serving, told, given>>
----------------------------------------------------------------------------
(* Registration on the host. *)

\* _add's checks: the described version is the reported one, and a projector
\* names its domains in its table and in its descriptor.
Matches(t, d)    == d.version = Reported(t)
NamesInputs(t, d) == KindOf[t] = "projector" => NamesDomains[t] /\ d.inputs

AddRaises(t, d) ==
  /\ ~Matches(t, d) \/ ~NamesInputs(t, d)
  /\ told' = IF Matches(t, d) THEN "no_input_domain" ELSE "mismatch"
  /\ UNCHANGED <<version, router, claimed, kind, descriptor, refused,
                 upcaster, services, serving, given, meddled>>

\* _versioned: the table gets the host's version unless it has its own.
Versioned(t) ==
  version' = [version EXCEPT ![t] =
                IF HostVersion # NoVersion /\ version[t] = NoVersion
                  THEN HostVersion ELSE version[t]]

\* The call took the table; what is given to a running host is not recorded.
Takes(t) == given' = IF running THEN given ELSE given \cup {t}

\* Mutant: the kind service is set before the router took the table.
AddFirstKindEarly(t, d) ==
  /\ Matches(t, d) /\ NamesInputs(t, d) /\ claimed = NoTable
  /\ claimed' = t /\ Versioned(t) /\ kind' = ServiceOf(KindOf[t])
  /\ \/ /\ router = NoTable
        /\ router' = t /\ descriptor' = d
        /\ told' = "ok" /\ Takes(t)
     \/ /\ router # NoTable
        /\ told' = "duplicate" /\ UNCHANGED <<router, descriptor, given>>
  /\ UNCHANGED <<refused, upcaster, services, serving, meddled>>

\* The first component: its name is claimed, then the router is asked, which
\* raises if it hosts a table already.  The claim and the version stay.
AddFirst(t, d) ==
  /\ Matches(t, d) /\ NamesInputs(t, d) /\ claimed = NoTable
  /\ claimed' = t /\ Versioned(t)
  /\ \/ /\ router = NoTable
        /\ router' = t /\ kind' = ServiceOf(KindOf[t]) /\ descriptor' = d
        /\ told' = "ok" /\ Takes(t)
     \/ /\ router # NoTable
        /\ told' = "duplicate" /\ UNCHANGED <<router, kind, descriptor, given>>
  /\ UNCHANGED <<refused, upcaster, services, serving, meddled>>

\* Mutant: a later component is not remembered.
AddLaterForgotten(t, d) ==
  /\ Matches(t, d) /\ NamesInputs(t, d) /\ claimed # NoTable
  /\ told' = "ok" /\ Takes(t)
  /\ UNCHANGED <<version, router, claimed, kind, descriptor, refused, upcaster,
                 services, serving, meddled>>

\* A later one is remembered as refused; the call returns all the same.
AddLater(t, d) ==
  /\ Matches(t, d) /\ NamesInputs(t, d) /\ claimed # NoTable
  /\ Len(refused) < MaxGiven
  /\ refused' = Append(refused, t)
  /\ told' = "ok" /\ Takes(t)
  /\ UNCHANGED <<version, router, claimed, kind, descriptor, upcaster,
                 services, serving, meddled>>

AddUpcaster ==
  /\ upcaster' = TRUE /\ told' = "ok"
  /\ UNCHANGED <<version, router, claimed, kind, descriptor, refused,
                 services, serving, given, meddled>>

\* add_service: a service without a name is refused.
AddService(s) ==
  /\ Len(services) < MaxGiven
  /\ services' = Append(services, s) /\ told' = "ok"
  /\ UNCHANGED <<version, router, claimed, kind, descriptor, refused,
                 upcaster, serving, given, meddled>>

AddUnnamedService ==
  /\ told' = "unnamed"
  /\ UNCHANGED <<version, router, claimed, kind, descriptor, refused,
                 upcaster, services, serving, given, meddled>>

\* The start() checks, in their order.
StartCode ==
  IF kind # "none" /\ upcaster THEN "upcaster_with_component"
  ELSE IF kind = "none" /\ ~upcaster THEN "no_component"
  ELSE IF refused # <<>> THEN "duplicate"
  ELSE IF running THEN "already_started"
  ELSE "started"

\* start, and the servicers that _start adds to the server: Describe's holds
\* the descriptor, the kind's the router, whatever that will host.
Start ==
  /\ told' = StartCode
  /\ serving' = IF StartCode = "started"
                  THEN [kind |-> kind, descriptor |-> descriptor,
                        upcaster |-> upcaster, services |-> services]
                  ELSE serving
  /\ UNCHANGED <<version, router, claimed, kind, descriptor, refused,
                 upcaster, services, given, meddled>>

RegistrationNext ==
  \/ \E t \in Table :
       \/ RouterRegister(t)
       \/ \E v \in Version : WithRulesVersion(t, v)
       \/ \E d \in Descriptors : AddRaises(t, d) \/ AddFirst(t, d) \/ AddLater(t, d)
  \/ RouterClose \/ AddUpcaster \/ AddUnnamedService \/ Start
  \/ \E s \in Service : AddService(s)

RegistrationSpec == RegistrationInit /\ [][RegistrationNext]_registrationVars
----------------------------------------------------------------------------
Outcomes == {"none", "ok", "mismatch", "no_input_domain", "duplicate",
             "unnamed", "upcaster_with_component", "no_component",
             "already_started", "started"}

TypeOK ==
  /\ version \in [Table -> Version]
  /\ router \in Table \cup {NoTable} /\ claimed \in Table \cup {NoTable}
  /\ kind \in KindServices \cup {"none"}
  /\ descriptor \in Descriptors
  /\ refused \in Seq(Table) /\ services \in Seq(Service)
  /\ upcaster \in BOOLEAN /\ serving \in Servers \cup {NoServer}
  /\ told \in Outcomes /\ given \subseteq Table
  /\ meddled \subseteq {"version", "router"}

\* A running host serves a component or an upcaster, not both, whatever it
\* was given since; its component is described as its kind needs it, behind
\* the service of that kind.  The router its service holds hosts that table
\* and no other, unless the application closed it since; and what the table
\* stamps on its answers is the version Describe gives, unless the
\* application set another one since, with_rules_version being open to it
\* (_add: "the coordinator refuses an answer reporting any other").
RunningHostIsConsistent ==
  running =>
    /\ serving.kind # "none" <=> ~serving.upcaster
    /\ serving.kind # "none" =>
         /\ claimed # NoTable
         /\ serving.kind = ServiceOf(KindOf[claimed])
         /\ NamesInputs(claimed, serving.descriptor)
         /\ router # claimed => "router" \in meddled
         /\ version[claimed] # serving.descriptor.version => "version" \in meddled

\* No component is dropped in silence: each one that add_* took without
\* raising before start() is the one the running host describes and serves,
\* and its router hosts it unless the application closed that.
NothingSilentlyDropped ==
  running => \A t \in given :
    /\ serving.kind # "none" /\ claimed = t
    /\ router = t \/ "router" \in meddled

\* Every answer of a running host reports the version its descriptor says
\* (README.md: "it must be the version every answer reports").
DescribedVersionIsAnswered ==
  (running /\ serving.kind # "none" /\ router = claimed) =>
    version[claimed] = serving.descriptor.version
=============================================================================
