------------------------------ MODULE MCRequest ------------------------------
(* Bodies of up to 3 bytes arrive in one, two or three chunks; 404 stands   *)
(* for every code the callers report, 302 for those they overlook.          *)
EXTENDS Request

MCCodes == {200, 302, 404}
MCMaxBody == 3
=============================================================================
