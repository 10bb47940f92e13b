--------------------------- MODULE MCAnnouncements ---------------------------
(***************************************************************************)
(* Small instances of Announcements: a batch that is full and one that is  *)
(* not, a crowd and an audience below the floor, an attempt that is not    *)
(* the last, a worker that takes over from another.                        *)
(***************************************************************************)
EXTENDS Announcements, TLC

Few == {1}
Everyone == Members
MCAudiences == {Few, Everyone}
=============================================================================
