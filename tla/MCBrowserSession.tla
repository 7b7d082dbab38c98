-------------------------- MODULE MCBrowserSession --------------------------
(* Small instances of BrowserSession for TLC. *)
EXTENDS BrowserSession, TLC

Symmetric == Permutations(Tab) \union Permutations(User) \union Permutations(Csrf)
=============================================================================
