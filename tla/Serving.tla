------------------------------ MODULE Serving -------------------------------
(***************************************************************************)
(* Who may talk to the server: the tokens of hosts (HostTokens), the start *)
(* of the server process (Startup) and the session of a tab (Session),     *)
(* which share no state.                                                   *)
(***************************************************************************)
EXTENDS HostTokens

CONSTANTS Proc, MaxToken, MaxStart, TabSlot

VARIABLES file, drawn, starts, pc, conf, loaded, reported,
          patient, valid, token, stored, view, signOut, fetched, submitted

Main == INSTANCE Startup WITH auth <- loaded
Tab == INSTANCE Session WITH Slot <- TabSlot, req <- fetched

(* A server is protected as it was asked to be (Startup). *)
StartInvariant == Main!StartInvariant

(* A tab holds the token it was given last (Session). *)
TabInvariant == Tab!TabInvariant

(* A refused token is not shown as a failure (Session). *)
RefusalIsNotFailure == Tab!RefusalIsNotFailure
=============================================================================
