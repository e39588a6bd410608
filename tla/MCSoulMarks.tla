---------------------------- MODULE MCSoulMarks ----------------------------
(* A team of four pets: 1 has a mark of its own, 2 and 3 share one, for      *)
(* which two libraries register programs, and 4 has a mark of the old kind,  *)
(* for which a library registers hooks and no nodes.                         *)
EXTENDS SoulMarks, TLC

N(t, o, e, s) == [trigger |-> t, once |-> o, early |-> e, scope |-> s]

Nodes == {N("START", TRUE, TRUE, "STAGE"), N("FIGHT", FALSE, FALSE, "STAGE"),
          N("FIGHT", TRUE, FALSE, "ROSTER"), N("MINUS", FALSE, TRUE, "ROSTER"),
          N("START", FALSE, TRUE, "STAGE")}

Duellist == [mark |-> 1, hooked |-> TRUE,
             nodes |-> <<N("START", TRUE, TRUE, "STAGE"), N("FIGHT", FALSE, FALSE, "STAGE")>>]
Patron == [mark |-> 2, hooked |-> TRUE,
           nodes |-> <<N("FIGHT", TRUE, FALSE, "ROSTER"), N("MINUS", FALSE, TRUE, "ROSTER"),
                       N("START", TRUE, TRUE, "STAGE")>>]
Rival == [mark |-> 2, hooked |-> TRUE, nodes |-> <<N("START", FALSE, TRUE, "STAGE")>>]

Herald == [mark |-> 3, hooked |-> TRUE, nodes |-> <<>>]

FourLibraries == {Duellist, Patron, Rival, Herald}
Shared == (1 :> 1) @@ (2 :> 2) @@ (3 :> 2) @@ (4 :> 3)
=============================================================================
