------------------------------ MODULE UserTable ------------------------------
(***************************************************************************)
(* The tables userInfo and userAuthority, one row per account, and what    *)
(* the stored procedures of the database do to them.  A row's authority    *)
(* string is abstracted to what the server asks of it: "none" is a user    *)
(* without a row in userAuthority, "plain" one whose authority lacks the   *)
(* right to delete user information, "del" one that has it.                *)
(***************************************************************************)
EXTENDS Naturals

CONSTANTS Accts,    \* the accounts
          NoAcct    \* the empty account string of a session nobody uses

ASSUME AcctsAssumption == NoAcct \notin Accts

\* Ident: 1 student, 2 teacher, 3 administrator, 0 the value of no row.
Idents == 0..3
Auths == {"none", "plain", "del"}

Row == [id : Nat, ident : Idents, auth : Auths]
NoRow == [id |-> 0, ident |-> 0, auth |-> "none"]
Table == [Accts -> Row]

\* account is unique in userInfo: an account has a row or it has none.
Exists(tab, a) == tab[a].id # 0

\* insert into userInfo and, when auth is not "none", into userAuthority.
Inserted(tab, a, id, ident, auth) ==
    [tab EXCEPT ![a] = [id |-> id, ident |-> ident, auth |-> auth]]

\* The account and password of the login select, joined with userAuthority.
LoginRow(tab, a, pwdOk) == Exists(tab, a) /\ pwdOk /\ tab[a].auth # "none"

\* Whose rows DeleteSingleUserInfoByAccount deletes for requester my.
SingleTargets(tab, a, my) ==
    {b \in {a} : /\ Exists(tab, b)
                 /\ \/ my.ident = 1 /\ my.canDel /\ tab[b].ident = 1
                    \/ /\ my.ident > 1
                       /\ \/ tab[b].ident < my.ident
                          \/ tab[b].ident = my.ident /\ b = my.acct}

\* Whose rows DeleteBatchUserInfoByUserId deletes for requester my.
BatchTargets(tab, lo, hi, my) ==
    {b \in Accts : /\ Exists(tab, b)
                   /\ lo <= tab[b].id /\ tab[b].id <= hi
                   /\ \/ tab[b].ident = 1 /\ my.canDel
                      \/ tab[b].ident < my.ident
                      \/ tab[b].ident = my.ident /\ b = my.acct}

\* The rows of gone deleted from both tables, those of half from
\* userAuthority only: userInfo is the last of the deletes.
Deleted(tab, gone, half) ==
    [b \in Accts |-> IF b \in gone THEN NoRow
                     ELSE IF b \in half THEN [tab[b] EXCEPT !.auth = "none"]
                     ELSE tab[b]]
==============================================================================
