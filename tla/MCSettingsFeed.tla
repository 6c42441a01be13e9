--------------------------- MODULE MCSettingsFeed ---------------------------
(***************************************************************************)
(* Instances of SettingsFeed: channels of one or two places, so that each   *)
(* of them overflows.                                                       *)
(***************************************************************************)
EXTENDS SettingsFeed

CONSTANTS d1, d2

MCDocument == {d1, d2}

=============================================================================
