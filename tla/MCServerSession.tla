--------------------------- MODULE MCServerSession ---------------------------
(* Two accounts, two sockets.  The server starts from the tables of the        *)
(* installation script, or from ones where a student has been granted the      *)
(* right to delete users.                                                      *)
EXTENDS ServerSession, TLC

CONSTANTS admin, stud

MCAccts == {admin, stud}
MCAdminRow == [id |-> 1, ident |-> 3, auth |-> "del"]
MCTables == {[a \in MCAccts |-> IF a = admin THEN MCAdminRow ELSE NoRow],
             [a \in MCAccts |-> IF a = admin THEN MCAdminRow
                                ELSE [id |-> 2, ident |-> 1, auth |-> "del"]]}
MCRanges == {<<1, 3>>}

\* Socket numbers are only compared for equality.
MCSymmetry == Permutations(Socks)
==============================================================================
