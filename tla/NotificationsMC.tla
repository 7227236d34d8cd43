-------------------------- MODULE NotificationsMC --------------------------
(* Two sites, one below the other; an asset with the shortest cycle that   *)
(* is allowed; a member of the site group and one whose grant is SELF.     *)
EXTENDS Notifications, TLC

CONSTANTS s1, s2, a1, m1, m2

AssetTable == a1 :> [site |-> s2, cycle |-> 7]
Row(s, k) == [site |-> s, scope |-> k]
MemberTable ==
    m1 :> [rows |-> <<Row(s2, "SELF"), Row(s1, "SITE_GROUP")>>,
           groups |-> {LastWarning, "inspection_due_soon_alert_level_3",
                       "inspection_alert_triggered", "monthly_consumables_report"}]
    @@ m2 :> [rows |-> <<Row(s2, "SELF")>>, groups |-> {"inspection_due_soon_alert_level_2",
                                              "monthly_compliance_report"}]
Chain == s1 :> None @@ s2 :> s1
MoveSet == {[site |-> s1, to |-> s2], [site |-> s2, to |-> None]}
=============================================================================
