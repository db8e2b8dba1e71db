--------------------------- MODULE MCRegistration ---------------------------
(***************************************************************************)
(* Two registrations of one or two addresses, for organizations of one     *)
(* name, of names of which one is the other with a number, and without a   *)
(* usable name; "organisation" has room for a 2, and is cut for a 3.       *)
(***************************************************************************)
EXTENDS Registration

CONSTANTS r1, r2

MCCut(s, n) == IF s = <<"organisation">> /\ n = "3" THEN <<"organisati">> ELSE s
MCForms ==
  (r1 :> [email : {"e1"}, base : {<<"acme">>, <<"organisation">>, <<>>}]) @@
  (r2 :> [email : {"e1", "e2"}, base : {<<"acme">>, <<"acme", "2">>, <<"organisation">>}])
MCParts == {"acme", "organisation", "organisati", "org", "2", "3"}
MCNumbers == <<"2", "3">>
MCExisting == {<<"acme">>, <<"organisation">>, <<"organisation", "2">>}
=============================================================================
