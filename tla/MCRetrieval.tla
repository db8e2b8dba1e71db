---------------------------- MODULE MCRetrieval -----------------------------
(***************************************************************************)
(* Two calls, late on the 31st in UTC and after midnight in the zone of    *)
(* the reports, and two organizations: a manager with one operator, and an *)
(* owner.                                                                  *)
(***************************************************************************)
EXTENDS Retrieval, TLC

CONSTANTS i1, i2, c1, c2, lead, op, out, o1, o2

MCWeight == (i1 :> 100) @@ (i2 :> 200)
MCRole == (lead :> "manager") @@ (op :> "operator") @@ (out :> "owner")
MCOrg == (lead :> o1) @@ (op :> o1) @@ (out :> o2)
MCManager == (lead :> NoUser) @@ (op :> lead) @@ (out :> NoUser)
MCUploaders == (c1 :> {op}) @@ (c2 :> {lead, out})
MCMaxAnswer == (c1 :> 2) @@ (c2 :> 1)
MCCreatedAt == (c1 :> 20) @@ (c2 :> 23)
MCDistance == [p \in Calls \X Calls |-> IF p[1] = p[2] THEN 0 ELSE 1]
=============================================================================
