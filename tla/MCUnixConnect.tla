--------------------------- MODULE MCUnixConnect ---------------------------
(* UnixConnect for TLC.                                                    *)
EXTENDS UnixConnect
=============================================================================
