--------------------------- MODULE AccessGrantsMC ---------------------------
(* Instances of AccessGrants: two clients, one with two sites, and a role  *)
(* of each kind the decision tells apart.                                  *)
EXTENDS AccessGrants, TLC

CONSTANTS c1, c2, s1, s2, s3, admin, manager, inspector, read, write

ClientTable == [s \in Sites |-> IF s = s3 THEN c2 ELSE c1]
DefaultSiteTable == [c \in Clients |-> IF c = c1 THEN s1 ELSE None]
ScopeTable == [r \in Roles |-> CASE r = admin -> "SYSTEM" [] r = manager -> "CLIENT"
                                 [] r = inspector -> "SITE"]
CapabilityTable == [r \in Roles |-> IF r = inspector THEN {write} ELSE {read}]

(* 'system' is resolved like 'elevated'.  The e-mail is taken for one of   *)
(* the bootstrap administrators where that can make a difference.  c2 has  *)
(* no site to fall back on.                                                *)
ContextSet ==
    {x \in Context : /\ x.intent # "system"
                     /\ x.bootstrap = ((x.client = None /\ x.intent = "elevated") \/ x.client = c2)
                     /\ x.client = c2 => x.intent = "elevated"
                     /\ x.site = None \/ (x.site = s1 /\ x.intent = "user")}
=============================================================================
