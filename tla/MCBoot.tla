------------------------------- MODULE MCBoot -------------------------------
(***************************************************************************)
(* Configuration files for TLC: one of each kind that setup() tells apart. *)
(***************************************************************************)
EXTENDS Boot

Addressed == [f \in Fields |-> "good"]

MCConfigs ==
  {Missing, Unread, Addressed,
   [Unread EXCEPT !["staticIP"] = "", !["apPwd"] = ""],
   [Addressed EXCEPT !["primaryDNS"] = "null", !["secondaryDNS"] = "null"],
   [Addressed EXCEPT !["gateway"] = "malformed"],
   [Addressed EXCEPT !["staticIP"] = "malformed", !["apPwd"] = "malformed"]}
=============================================================================
