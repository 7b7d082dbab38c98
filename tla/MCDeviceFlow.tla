---------------------------- MODULE MCDeviceFlow ----------------------------
(* Small instances of DeviceFlow for TLC. *)
EXTENDS DeviceFlow, TLC

\* Codes, clients, users and request slots are interchangeable.
Symmetric == Permutations(Code) \union Permutations(Client) \union Permutations(User)
               \union Permutations(Poll) \union Permutations(Consent)
=============================================================================
