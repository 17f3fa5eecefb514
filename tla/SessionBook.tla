----------------------------- MODULE SessionBook -----------------------------
(***************************************************************************)
(* What the server promises about sessions, without its queues, its two    *)
(* step statements and its sockets' lives: an account is opened at most    *)
(* once at a time and every time with a new user id, and a connection is   *)
(* bound to nothing or to an account that was opened, with the user id it  *)
(* was opened with.                                                        *)
(***************************************************************************)
EXTENDS Naturals

CONSTANTS Socks, Accts

VARIABLES opened,  \* the <<account, user id>> ever opened
          bound    \* per connection, the one it is bound to, or <<>>

bookVars == <<opened, bound>>

BookInit ==
    /\ opened \subseteq Accts \X (Nat \ {0})
    /\ bound = [s \in Socks |-> <<>>]

\* A new user id, larger than every one before it.
Open ==
    /\ \E q \in opened' :
          /\ opened' = opened \cup {q}
          /\ q \in Accts \X (Nat \ {0})
          /\ \A p \in opened : p[2] < q[2]
    /\ UNCHANGED bound

\* One connection becomes another user.
Bind ==
    /\ \E s \in Socks, p \in opened : bound' = [bound EXCEPT ![s] = p]
    /\ UNCHANGED opened

\* Connections end: one at a time, or all with the process.
Unbind ==
    /\ \E S \in SUBSET Socks :
          bound' = [s \in Socks |-> IF s \in S THEN <<>> ELSE bound[s]]
    /\ UNCHANGED opened

BookNext == Open \/ Bind \/ Unbind

Spec == BookInit /\ [][BookNext]_bookVars
==============================================================================
