---------------------------- MODULE MCBanManager ----------------------------
(* Two participants, and a clock that runs past two first bans. *)
EXTENDS BanManager

CONSTANTS p1, p2

MCParticipants == {p1, p2}
=============================================================================
