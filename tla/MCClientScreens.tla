--------------------------- MODULE MCClientScreens ---------------------------
(* One client.  Its users have no rights, one right of each kind of operation   *)
(* (a request, two requests, three, a batch, pages), or others.                 *)
EXTENDS ClientScreens

MCRights == {{}, {9, 19}, {9, 25, 29}}
MCVisited == {"enter", "common", "score", "userInfo", "updateScore", "addUserInfo", "selectUserInfo",
              "authority"}
\* An operation of three requests, a batch, or pages.
MCFewRights == {{}, {9}, {19, 25}}
MCFewVisited == MCVisited \ {"authority"}
==============================================================================
