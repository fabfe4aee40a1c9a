-------------------------- MODULE MCAnnouncements --------------------------
(* Small instances of Announcements for TLC. *)
EXTENDS Announcements, TLC

Symmetry == Permutations(Users)
=============================================================================
