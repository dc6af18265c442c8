------------------------------ MODULE MCConsole ------------------------------
(***************************************************************************)
(* A console with two rows in each list and two requests in flight, on     *)
(* every page in turn.  A plan names the requests a behaviour may send,    *)
(* how many, how many mishaps it meets, and what the row is, beside the    *)
(* administrator's own, that the list starts with.                         *)
(***************************************************************************)
EXTENDS Console

P(p, uses, n, m, others) ==
    [page |-> p, uses |-> uses, calls |-> n, mishaps |-> m, others |-> others]

MCPlans ==
    {P("admins", {"role", "status"}, 2, 0, "active"), P("admins", {"email"}, 1, 1, "active"),
     P("admins", {"password", "inviteadmin"}, 2, 0, "none"), P("admins", {"resetmfa"}, 1, 1, "active"),
     P("admins", {"email"}, 2, 0, "none"), P("backups", {"upload"}, 2, 0, "none"),
     P("peers", {"editpeer", "resendpeer"}, 2, 0, "active"), P("users", {"edituser"}, 2, 0, "active"),
     P("servers", {"saveserver", "addserver"}, 2, 0, "none"), P("servers", {"delserver", "hostsetup"}, 1, 1, "active"),
     P("nodes", {"rotate"}, 1, 1, "active"), P("nodes", {"addnode"}, 2, 1, "none"),
     P("nodes", {"delnode"}, 1, 0, "active"), P("nodes", {"addnode"}, 1, 1, "active"),
     P("backups", {"restore", "delbackup"}, 1, 1, "active"), P("backups", {"addbackup"}, 2, 1, "none"),
     P("backups", {"upload", "download"}, 1, 0, "active"), P("backups", {"addbackup"}, 1, 1, "active"),
     P("profile", {"deltotp", "delkey"}, 2, 0, "active"), P("profile", {"addkey"}, 2, 0, "active"),
     P("profile", {"addtotp", "totpfinish"}, 3, 0, "active"), P("profile", {"newcodes"}, 1, 1, "none"),
     P("profile", {"passwd", "revoke", "revokeothers"}, 2, 0, "active"), P("profile", {"revoke"}, 1, 2, "active"),
     P("users", {"edituser"}, 2, 1, "none"), P("users", {"inviteuser", "resend"}, 2, 1, "invited"),
     P("users", {"suspend", "resume", "removeuser"}, 2, 0, "suspended"),
     P("departments", {"adddept", "editdept", "deldept"}, 2, 0, "active"), P("departments", {"adddept"}, 2, 1, "none"),
     P("peers", {"addpeer", "editpeer"}, 2, 0, "none"), P("peers", {"addpeer"}, 2, 1, "none"),
     P("peers", {"delpeer", "resendpeer", "peerconfig"}, 2, 0, "active"), P("peers", {"addpeer"}, 1, 0, "active"),
     P("ip-rules", {"addrule"}, 1, 0, "none"), P("domain-rules", {"addrule"}, 1, 0, "active"),
     P("domain-rules", {"delrule", "delgroup"}, 2, 1, "none"), P("ip-rules", {"addgroup", "editgroup"}, 2, 0, "none"),
     P("smtp", {"savesmtp", "testsmtp"}, 2, 1, "none"), P("timezone", {"savezone"}, 2, 1, "none"),
     P("templates", {"savetemplate"}, 2, 1, "none"), P("security", {"savestepup", "savepolicy"}, 1, 0, "none"),
     P("security", {"savelockout", "saveexpiry"}, 2, 0, "none")}

=============================================================================
