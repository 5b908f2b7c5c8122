---------------------------- MODULE MCBrowserTabs ----------------------------
(***************************************************************************)
(* The tabs of a browser for TLC: each may ask for one thing of a kind at  *)
(* a time.                                                                 *)
(***************************************************************************)
EXTENDS BrowserTabs

MCRequests == Tabs \X Kinds
=============================================================================
