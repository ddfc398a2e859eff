----------------------------- MODULE MCRedeploy -----------------------------
(***************************************************************************)
(* Instances of Redeploy for TLC.                                          *)
(***************************************************************************)
EXTENDS Redeploy

\* One message before the migration; one that has its number, and one more, after.
OneThenTwo == {<<"old", 0>>, <<"new", 0>>, <<"new", 1>>}

Swallowed == {"attestSend", "attestTimeout", "boxRead"}

\* The documented procedure, begun when the old messages are settled; the same
\* with the service kept down, and steps that mislead; and with every precaution,
\* and every other fault.
DocumentedToCareful ==
  { [procedure |-> {"drain"}, faults |-> {}],
    [procedure |-> {"drain", "stop"}, faults |-> Swallowed],
    [procedure |-> Precautions, faults |-> StepFaults \ Swallowed] }

\* A careful operator who keeps the table.
SameTable == { [procedure |-> {"drain", "stop"}, faults |-> {}] }
=============================================================================
