---------------------------- MODULE MCUnlockMenu ----------------------------
(***************************************************************************)
(* UnlockMenu for the configurations the sources can be built in. Menus    *)
(* and Virtual A/B are in different builds, since they only meet in misc.  *)
(***************************************************************************)
EXTENDS UnlockMenu

B(avb, user, vab, hasMenus, display) ==
  [avb |-> avb, user |-> user, vab |-> vab, menus |-> hasMenus,
   display |-> display]

\* Without a menu: a user build with Virtual A/B, another one, and LE. With
\* a menu, and one whose device has no display.
MCBuilds ==
  {B("AVB_1", TRUE, TRUE, FALSE, TRUE), B("NO_AVB", FALSE, TRUE, FALSE, TRUE),
   B("AVB_LE", FALSE, FALSE, FALSE, TRUE),
   B("AVB_2", TRUE, FALSE, TRUE, TRUE), B("NO_AVB", FALSE, FALSE, TRUE, FALSE)}
=============================================================================
