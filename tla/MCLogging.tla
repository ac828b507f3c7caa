----------------------------- MODULE MCLogging -----------------------------
(* Instances of Logging for TLC.                                           *)
EXTENDS LoggingInvariant

CONSTANTS main, s1

TwoThreads == {main, s1}

FromUser == {"SIGINT", "SIGTERM"}
=============================================================================
