-------------------------- MODULE MCSiteEvents --------------------------
(***************************************************************************)
(* A draft and a release, one page that connects as the owner or as a      *)
(* visitor, and a window of one event, so that two events make a gap.      *)
(***************************************************************************)
EXTENDS SiteEvents

Kinds == <<"draft", "release">>

=============================================================================
