------------------------------ MODULE MCDaemon ------------------------------
(* Daemon with four requests, so that two checks are followed by an apply, *)
(* or a check and an apply by a reboot; the first two may meet.            *)
EXTENDS Daemon

MCAsks == <<{"check", "attach"},
            {"check", "apply", "create_be", "create_user", "attach"},
            {"apply", "reboot"},
            {"activate_be", "delete_be", "create_user"}>>
=============================================================================
