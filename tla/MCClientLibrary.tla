--------------------------- MODULE MCClientLibrary ---------------------------
(* What an application makes with the library: a query, a command, a       *)
(* descriptor, or the clients it calls a coordinator through.  A behaviour *)
(* is of one of them.                                                      *)
EXTENDS QueryBuilder, CommandBuilder, Descriptor, Clients, TLC

VARIABLE made      \* which of them it is

\* A query: of all that a setter overwrites, two values of its kind.
CONSTANTS c1, c2

MCCorrelation == {c1, c2}
MCSequence    == {0, 1}
MCEdition     == {"", "draft"}

\* A command: of each field a value that is sent, and the edge beside it.
MCTypeUrl            == {"", "/orders.v1.Place"}
MCPayload            == {"bytes", "no bytes"}
MCConflictResolution == {"UNSPECIFIED", "STRICT"}

\* A descriptor: of every kind of table, every combination of its parts.
MCTable == [kind : {"aggregate", "process_manager", "policy", "projector"},
            rules_version : {"", "v1"}, input_domain : {"", "orders"},
            output_domain : {"", "stock"},
            domains : SUBSET {"orders", "stock"},
            state : {[lists |-> {}]}]
MCState == {[lists |-> {}], [lists |-> {2}], [lists |-> {0, 2}]}

\* Clients: four are a domain, its two parts and one more.
MCSymmetry == Permutations(Client) \cup Permutations(Channel)

queryVars == vars

MCInit ==
  /\ made \in {"query", "command", "descriptor", "clients"}
  /\ Init
  /\ made # "query" => _root = None
  /\ CommandInit /\ ClientsInit
  /\ IF made = "descriptor" THEN DescriptorInit
     ELSE table = Unset /\ asked = Unset /\ host_version = Unset /\ described = Unset

MCNext ==
  /\ UNCHANGED made
  /\ \/ /\ made = "query" /\ Next
        /\ UNCHANGED <<commandVars, descriptorVars, clientsVars>>
     \/ /\ made = "command" /\ CommandNext
        /\ UNCHANGED <<queryVars, descriptorVars, clientsVars>>
     \/ /\ made = "descriptor" /\ DescriptorNext
        /\ UNCHANGED <<queryVars, commandVars, clientsVars>>
     \/ /\ made = "clients" /\ ClientsNext
        /\ UNCHANGED <<queryVars, commandVars, descriptorVars>>

MCSpec == MCInit /\ [][MCNext]_<<made, queryVars, commandVars, descriptorVars, clientsVars>>
==============================================================================
