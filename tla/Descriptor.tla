----------------------------- MODULE Descriptor -----------------------------
(***************************************************************************)
(* describe (angzarr_client/descriptor.py): the ComponentDescriptor of a   *)
(* dispatch table, or the first reason there is none.  What a host and a   *)
(* coordinator refuse later, describe refuses at once.                     *)
(*                                                                         *)
(* A state type is a message class, with the resolutions its option lists, *)
(* or a name, which lists none.  Resolutions are their enum's numbers.     *)
(***************************************************************************)
EXTENDS Naturals, FiniteSetsExt

CONSTANTS
  Table,           \* dispatch tables, of the fields describe reads
  Version, NoVersion,
  State,           \* state types: [lists : SUBSET Resolution]
  Resolution,      \* ConflictResolution's numbers
  Unspecified,     \* 0
  Base,            \* BASE_RESOLUTIONS
  Unset            \* None

Stateful == {"aggregate", "process_manager"}

Codes == {"MISSING_RULES_VERSION", "STARTING_TYPES_ON_NON_PM",
          "MISSING_STATE_TYPE", "STATE_ON_STATELESS_KIND", "POLICY_INPUT_COUNT",
          "POLICY_NO_OUTPUT_DOMAIN", "OUTPUT_DOMAIN_ON_NON_POLICY",
          "RESOLUTION_UNSPECIFIED", "PROJECTOR_NO_INPUT_DOMAIN"}

ASSUME DescriptorAssumption ==
  /\ \A t \in Table : t.kind \in Stateful \cup {"policy", "projector"}
  /\ Unspecified \notin Base
  /\ Unset \notin Codes /\ \A s \in SUBSET (Base \cup Resolution) : s # Unset
  /\ \A s \in State \cup {t.state : t \in Table} : s.lists \subseteq Resolution

VARIABLES
  table,           \* the dispatch table
  asked,           \* describe's keyword arguments
  host_version,    \* rules_version of the host the table is for
  described        \* what describe came to

descriptorVars == <<table, asked, host_version, described>>

DescriptorInit ==
  /\ table \in Table /\ host_version \in Version
  /\ asked \in [rules_version : Version \cup {Unset}, state_type : State \cup {Unset},
                resolutions : (SUBSET Resolution) \cup {Unset}, starts : BOOLEAN]
  /\ described = Unset

----------------------------------------------------------------------------
(* What describe builds. *)

Inputs(t) == IF t.kind = "policy" THEN {t.input_domain} \ {""}
             ELSE IF t.kind = "projector" THEN t.domains
             ELSE {}

\* The state asked for, else the class the rebuilder of a table makes.
StateOf(t, a) == IF a.state_type = Unset /\ t.kind \in Stateful THEN t.state
                 ELSE a.state_type

HasState(t, a) ==
  t.kind \in Stateful \/ a.state_type # Unset \/ a.resolutions # Unset

Listed(t, a) == IF a.resolutions = Unset THEN StateOf(t, a).lists ELSE a.resolutions

\* Each once; they are sent sorted by number.
Resolved(listed) == Base \cup listed

Built(t, a) ==
  [kind          |-> t.kind,
   rules_version |-> IF a.rules_version = Unset THEN t.rules_version
                                                ELSE a.rules_version,
   inputs        |-> Inputs(t),
   starts        |-> a.starts,
   output_domain |-> IF t.kind = "policy" THEN t.output_domain ELSE "",
   state         |-> IF HasState(t, a) THEN Resolved(Listed(t, a)) ELSE Unset]

----------------------------------------------------------------------------
(* What is refused. *)

\* Mutant: a policy's input is not counted.
RefusalUncounted(d) ==
  IF d.rules_version = NoVersion THEN "MISSING_RULES_VERSION"
  ELSE IF d.kind # "process_manager" /\ d.starts THEN "STARTING_TYPES_ON_NON_PM"
  ELSE IF d.kind \in Stateful /\ d.state = Unset THEN "MISSING_STATE_TYPE"
  ELSE IF d.kind \notin Stateful /\ d.state # Unset THEN "STATE_ON_STATELESS_KIND"
  ELSE IF d.kind = "policy"
    THEN IF d.output_domain = "" THEN "POLICY_NO_OUTPUT_DOMAIN" ELSE Unset
  ELSE IF d.output_domain # "" THEN "OUTPUT_DOMAIN_ON_NON_POLICY"
  ELSE Unset

\* _refusal: the coordinator's first refusal of a descriptor, in its order.
Refusal(d) ==
  IF d.rules_version = NoVersion THEN "MISSING_RULES_VERSION"
  ELSE IF d.kind # "process_manager" /\ d.starts THEN "STARTING_TYPES_ON_NON_PM"
  ELSE IF d.kind \in Stateful /\ d.state = Unset THEN "MISSING_STATE_TYPE"
  ELSE IF d.kind \notin Stateful /\ d.state # Unset THEN "STATE_ON_STATELESS_KIND"
  ELSE IF d.kind = "policy"
    THEN IF \A i \in d.inputs : d.inputs # {i} THEN "POLICY_INPUT_COUNT"
         ELSE IF d.output_domain = "" THEN "POLICY_NO_OUTPUT_DOMAIN"
         ELSE Unset
  ELSE IF d.output_domain # "" THEN "OUTPUT_DOMAIN_ON_NON_POLICY"
  ELSE Unset

\* Mutant: a projector's inputs are left to the host.
RefusedByCoordinator(t, a) ==
  IF HasState(t, a) /\ Unspecified \in Listed(t, a) THEN "RESOLUTION_UNSPECIFIED"
  ELSE Refusal(Built(t, a))

\* The reason describe gives: a resolution it cannot resolve, the
\* coordinator's, and the host's, in this order.
Reason(t, a) ==
  IF HasState(t, a) /\ Unspecified \in Listed(t, a) THEN "RESOLUTION_UNSPECIFIED"
  ELSE IF Refusal(Built(t, a)) # Unset THEN Refusal(Built(t, a))
  ELSE IF t.kind = "projector" /\ Inputs(t) = {} THEN "PROJECTOR_NO_INPUT_DOMAIN"
  ELSE Unset

Describe ==
  /\ described = Unset
  /\ described' = [code |-> Reason(table, asked),
                   descriptor |-> IF Reason(table, asked) = Unset
                                    THEN Built(table, asked) ELSE Unset]
  /\ UNCHANGED <<table, asked, host_version>>

Done == described # Unset /\ UNCHANGED descriptorVars

DescriptorNext == Describe \/ Done

DescriptorSpec == DescriptorInit /\ [][DescriptorNext]_descriptorVars
----------------------------------------------------------------------------
\* The rules of a descriptor, as describe's documentation lists them: those
\* that a descriptor of kind k with these parts breaks, by their number.
BrokenRules(k, version, starts, hasState, inputs, output) ==
  {n \in 1..7 :
     \/ n = 1 /\ version = NoVersion
     \/ n = 2 /\ starts /\ k # "process_manager"
     \/ n = 3 /\ ~hasState /\ k \in Stateful
     \/ n = 4 /\ hasState /\ k \in {"policy", "projector"}
     \/ n = 5 /\ k = "policy" /\ Cardinality(inputs) # 1
     \/ n = 6 /\ k = "policy" /\ output = ""
     \/ n = 7 /\ k # "policy" /\ output # ""}

\* describe never builds a descriptor its coordinator would refuse, nor one
\* whose state lacks a resolution every state has, or lists none at all; and
\* of one its coordinator would refuse it gives the coordinator's first
\* reason, whatever rules the table and the arguments break together, but for
\* a resolution it cannot resolve at all.  The host's own reason is the last:
\* it is given of what the coordinator would take.
NoRefusableDescriptor ==
  described # Unset =>
    LET d == Built(table, asked)
        broken == BrokenRules(d.kind, d.rules_version, d.starts, d.state # Unset,
                         d.inputs, d.output_domain)
        codes == <<"MISSING_RULES_VERSION", "STARTING_TYPES_ON_NON_PM",
                   "MISSING_STATE_TYPE", "STATE_ON_STATELESS_KIND",
                   "POLICY_INPUT_COUNT", "POLICY_NO_OUTPUT_DOMAIN",
                   "OUTPUT_DOMAIN_ON_NON_POLICY">>
    IN  IF described.code \in {codes[n] : n \in 1..7}
          THEN broken # {} /\ described.code = codes[Min(broken)]
          ELSE /\ described.code \in {Unset, "PROJECTOR_NO_INPUT_DOMAIN"} => broken = {}
               /\ (described.code = Unset /\ d.state # Unset) =>
                    Base \subseteq d.state /\ Unspecified \notin d.state

\* A descriptor built for the version its component will report is one its
\* host takes (_add's checks): a table described is a table served.
HostTakesDescriptor ==
  LET reported == IF table.rules_version # NoVersion THEN table.rules_version
                                                     ELSE host_version
  IN  (/\ described # Unset /\ described.code = Unset
       /\ asked.rules_version \in {Unset, reported})
        => /\ described.descriptor.rules_version = reported
           /\ table.kind = "projector" =>
                table.domains # {} /\ described.descriptor.inputs # {}
=============================================================================
