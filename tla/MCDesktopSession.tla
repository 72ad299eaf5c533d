-------------------------- MODULE MCDesktopSession --------------------------
(* An instance of DesktopSession for TLC. *)
EXTENDS DesktopSession, TLC

\* The pipe of the instances holds two units: the handshake's response and one
\* more.  A result of one unit fits; one of two is legal and does not.
Sized == {1, 2}
=============================================================================
