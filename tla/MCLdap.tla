------------------------------- MODULE MCLdap -------------------------------
(* Two logins tell the last simple bind from an earlier one.  Four packets   *)
(* are two simple binds, a StartTLS that fails and one that succeeds, or a   *)
(* bind and a search before and after the upgrade.                           *)
EXTENDS LdapSession

CONSTANTS admin, guest

MCLogins == {admin, guest}
=============================================================================
