------------------------------ MODULE MCHangUp ------------------------------
(***************************************************************************)
(* OperatorCommands alone, for the question what becomes of the journal     *)
(* when the browser that made a call goes away.                             *)
(***************************************************************************)
EXTENDS OperatorCommands

\* A console whose planes are up, with the closure secret and an approver key.
HangUpInit == CommandsInit /\ ready # {} /\ secret /\ approver = "ready"
HangUpSpec == HangUpInit /\ [][CommandsNext]_commandVars
=============================================================================
