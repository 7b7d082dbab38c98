---------------------------- MODULE MCDeployment ----------------------------
(* A small instance of Deployment for TLC: three of the six tables.          *)
EXTENDS Deployment, TLC

CONSTANTS clients, users, r1, r2

Issuers == "trusted_assertion_issuers"
MCTables == <<clients, Issuers, users>>
MCSeedOrder == <<clients, users, Issuers>>
MCConfigurations ==
  [localhost : {TRUE}, defaultSecret : {TRUE}, allowDemoSeed : {FALSE}, keyPath : BOOLEAN,
   keyId : {FALSE}, backend : {"sqlite", "postgresql"}]
  \union
  [localhost : {FALSE}, defaultSecret : BOOLEAN, allowDemoSeed : {TRUE}, keyPath : {TRUE},
   keyId : {TRUE}, backend : {"memory"}]
Symmetric == Permutations(Replica) \union Permutations(Key) \union Permutations(IssuerKey)
=============================================================================
