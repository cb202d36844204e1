------------------------------ MODULE MCRefresh ------------------------------
(* Small instances of Refresh for TLC.                                     *)
EXTENDS Refresh

\* Two of the three marts: the one read before the window, and one after it.
MCMARTS == <<"mart_otp_by_agency", "mart_worst_routes">>
=============================================================================
