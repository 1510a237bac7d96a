--------------------------- MODULE MCPropBaseline ---------------------------
(* PropBaseline for TLC: a queued and a direct source.                      *)
EXTENDS PropBaseline

MCSources == <<"mqtt", "rbn">>

\* A raw row from before the first deploy.
MCPreLog == << <<"rbn", 2>> >>
=============================================================================
