--------------------------- MODULE SiteVisibility ---------------------------
(***************************************************************************)
(* Which sites a member sees (src/auth/utils/site-visibility.ts), and which *)
(* sites row level security lets through for the site of a grant            *)
(* (PrismaService.getAllowedSiteIdsForSite).  up maps a site to its parent. *)
(***************************************************************************)
EXTENDS Naturals, Sequences, FiniteSets

CONSTANT None

SCOPE_HIERARCHY == <<"SYSTEM", "GLOBAL", "CLIENT", "SITE_GROUP", "SITE", "SELF">>
ScopeRank(scope) == CHOOSE i \in DOMAIN SCOPE_HIERARCHY : SCOPE_HIERARCHY[i] = scope
ScopeAtLeast(scope, required) == ScopeRank(scope) <= ScopeRank(required)

Subsites(up, S) == {t \in DOMAIN up : up[t] \in S}

(* buildSiteHierarchy: all sites below s, the least set that has the       *)
(* subsites of s and of its members.  The recursion does not end when a    *)
(* site is below itself.                                                   *)
Descendants(up, s) ==
    LET closed == {T \in SUBSET DOMAIN up : Subsites(up, T \cup {s}) \subseteq T}
    IN  {t \in DOMAIN up : \A T \in closed : t \in T}
Cyclic(up) == \E T \in SUBSET DOMAIN up : T # {} /\ \A t \in T : up[t] \in T

(* getAllowedSiteIdsForSite: three levels of subsites, flattened. *)
AllowedSiteIds(up, s) ==
    LET one == Subsites(up, {s})
        two == Subsites(up, one)
    IN {s} \cup one \cup two \cup Subsites(up, two)

(* reduceAccessGrants on rows [site, scope]: the most permissive scope, and *)
(* the site of the last row that has it.                                    *)
Reduced(rows) ==
    rows[CHOOSE i \in DOMAIN rows : \A k \in DOMAIN rows :
            /\ ScopeAtLeast(rows[i].scope, rows[k].scope)
            /\ k > i => ~ScopeAtLeast(rows[k].scope, rows[i].scope)]

(* Faulty variant: no sites is taken for no restriction. *)
VisibleSitesSelfAll(up, rows) ==
    LET g == Reduced(rows) IN
    CASE g.scope = "SITE_GROUP" -> {g.site} \cup Descendants(up, g.site)
      [] g.scope = "SITE" -> {g.site}
      [] OTHER -> DOMAIN up

(* getVisibleSiteIds for the rows of a member. *)
VisibleSites(up, rows) ==
    LET g == Reduced(rows) IN
    CASE ScopeAtLeast(g.scope, "CLIENT") -> DOMAIN up
      [] g.scope = "SITE_GROUP" -> {g.site} \cup Descendants(up, g.site)
      [] g.scope = "SITE" -> {g.site}
      [] OTHER -> {}

(* The reference: the way up from a site, and what a single row reaches. *)
ParentOf(up, s) == IF s = None THEN None ELSE up[s]
Above(up, s) ==
    LET closed == {T \in SUBSET DOMAIN up : \A t \in T \cup {s} : up[t] \in T \cup {None}}
    IN  {t \in DOMAIN up : \A T \in closed : t \in T}

Reaches(up, row, s) ==
    \/ ScopeAtLeast(row.scope, "CLIENT")
    \/ row.scope \in {"SITE", "SITE_GROUP"} /\ s = row.site
    \/ row.scope = "SITE_GROUP" /\ row.site \in Above(up, s)
=============================================================================
