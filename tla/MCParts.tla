------------------------------ MODULE MCParts ------------------------------
(* Six parts that nothing runs beside: what a host is given before it       *)
(* serves, the turns hosts take on a socket path, and the line that         *)
(* announces one; then an operation tried again, a process manager that     *)
(* compensates, and an error on its way to a caller.  A behaviour is of one *)
(* of them, and the others stay where they begin.                           *)
EXTENDS MCHostRegistration, SocketPath, Handshake, Retry, ErrorPath, Compensation

VARIABLE made      \* which of them it is

MCPiece == {" ", "\n", "\r", "\\xff", "angzarr-handshake", "v1", "unix:", "/", "a"}

\* Paths of up to three pieces, and lines of which none is a handshake.
MCPath  == {<<"/">>} \cup {<<"/", a>> : a \in {"a", " ", "\r", "\n", "\\xff"}}
           \cup {<<"/", a, b>> : a, b \in {"a", " ", "\r", "\n", "\\xff"}}
MCNoise == {<<>>, <<"a">>, <<" ", "angzarr-handshake">>,
            <<"angzarr-handshake", "a">>, <<"\\xff", " ", "a">>, <<"a", "\r">>}

\* Up to four attempts, the second wait of which meets max_delay.
MCAttempts == 0..4

\* Three steps; the undos of two of them are commands.
MCCompletedBy == [s \in Step |-> s]
MCTargetOf    == [s \in Step |-> s]

\* Arguments under a name, none, under the name a cause has, and under the
\* name of a parameter.
MCGiven == {{}, {<<<<"seat">>, "3">>}, {<<<<"cause">>, "x">>}, {<<<<"key">>, "x">>}}

retryVars == vars

MCInit ==
  /\ made \in {"registration", "sockets", "line", "retry", "compensation", "error"}
  /\ RegistrationInit /\ PathInit /\ LineInit
  /\ Init /\ CompensationInit /\ ErrorInit
  /\ made # "registration" => version = [t \in Table |-> NoVersion]
  /\ made # "retry" => max_attempts = 0 /\ jitter /\ on_retry

MCNext ==
  /\ UNCHANGED made
  /\ \/ /\ made = "registration" /\ RegistrationNext
        /\ UNCHANGED <<pathVars, lineVars, retryVars, compensationVars, errorVars>>
     \/ /\ made = "sockets" /\ PathNext
        /\ UNCHANGED <<registrationVars, lineVars, retryVars, compensationVars, errorVars>>
     \/ /\ made = "line" /\ LineNext
        /\ UNCHANGED <<registrationVars, pathVars, retryVars, compensationVars, errorVars>>
     \/ /\ made = "retry" /\ Next
        /\ UNCHANGED <<registrationVars, pathVars, lineVars, compensationVars, errorVars>>
     \/ /\ made = "compensation" /\ CompensationNext
        /\ UNCHANGED <<registrationVars, pathVars, lineVars, retryVars, errorVars>>
     \/ /\ made = "error" /\ ErrorNext
        /\ UNCHANGED <<registrationVars, pathVars, lineVars, retryVars, compensationVars>>

MCSpec == MCInit /\ [][MCNext]_<<made, registrationVars, pathVars, lineVars,
                                 retryVars, compensationVars, errorVars>>
=============================================================================
