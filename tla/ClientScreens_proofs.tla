-------------------------- MODULE ClientScreens_proofs --------------------------
(***************************************************************************)
(* Proofs about ClientScreens, for users with any rights, any screens they *)
(* go to and any number of requests.                                       *)
(*                                                                         *)
(* Until a screen is started early, one thing happens at a time: the main  *)
(* thread is busy with a screen, or one screen is to be shown, or one      *)
(* waits for the answer to its request, or is shown again after its input  *)
(* was refused.  Only the screen it happens to runs or is at an operation, *)
(* but that RecvThread may yet have to end the one before, which may be    *)
(* the same one.  After that nothing but the types of the variables is     *)
(* claimed.                                                                *)
(***************************************************************************)
EXTENDS ClientScreens, Ordering_proofs

------------------------------------------------------------------------------
(* The inductive invariant *)

Requests == [kind : Kinds \cup {"exit"}, oper : Operations \cup {NoOper}]
Acks == [kind : Kinds \cup {"exit"}, oper : Operations \cup {NoOper}, ok : BOOLEAN,
         rights : SUBSET Operations, more : BOOLEAN]

MainPlaces == {"notify", "run", "flag", "choose", "input", "check", "stop", "forget", "switch",
               "exited"}
AtScreen == {"ask", "input", "act", "check", "stop", "forget", "switch"}

\* A message is at one screen at a time, the one at pos.
Typed ==
    /\ proc \in [Screens -> Proc] /\ rights \subseteq Operations
    /\ pc \in [Threads -> MainPlaces \cup AtScreen \cup {"recv", "scan"}]
    /\ pc["main"] \in MainPlaces /\ pc["recv"] \in AtScreen \cup {"recv", "scan", "exited"}
    /\ at \in [Threads -> Screens] /\ to \in [Threads -> Screens \cup {"none"}]
    /\ pos \in 1..Len(Order) + 1
    /\ requests \in Seq(Requests) /\ inbox \in Seq(Acks)
    /\ sent \in 0..MaxSent /\ session \in {"none", "in", "kicked"} /\ granted \subseteq Operations
    /\ pc["recv"] = "recv" => msg = NoMessage
    /\ pc["recv"] \notin {"recv", "exited"} => msg \in Acks
    /\ pc["recv"] \notin {"check", "stop", "forget", "switch"} => to["recv"] = "none"
    /\ pc["recv"] \in AtScreen =>
          pos \in 1..Len(Order) /\ at["recv"] = Order[pos] /\ msg.kind # "exit"
    /\ pc["main"] = "exited" <=> pc["recv"] = "exited"

\* An operation belongs to its screen.
Fits == \A p \in Screens : proc[p].oper # NoOper => ScreenOf[proc[p].oper] = p

\* It is one the server gave the user who is logged in a right to.
Rightful == \A p \in Screens : proc[p].oper \in granted \cup LoginOpers \cup {NoOper}

Exits(q) == \A i \in 1..Len(q) : q[i].kind = "exit"
NoFlight == Exits(requests) /\ Exits(inbox)

\* The request of an operation, or the answer to it, maybe a page more.
Is(r, o) == r.oper = o /\ r.kind \in Range(Steps[o])

Asked1(o) ==
    /\ requests # <<>> /\ Is(requests[Len(requests)], o)
    /\ \A i \in 1..Len(requests) - 1 : requests[i].kind = "exit"
    /\ Exits(inbox)

Answered1(o) ==
    /\ requests = <<>>
    /\ \E k \in 1..Len(inbox) :
          /\ Is(inbox[k], o) /\ ~inbox[k].more
          /\ \A i \in 1..Len(inbox) :
                i = k \/ inbox[i].kind = "exit"
                \/ (i < k /\ Is(inbox[i], o) /\ inbox[i].more /\ inbox[i].kind \in Paged
                    /\ inbox[i].ok)

Await(o) == Asked1(o) \/ Answered1(o)

\* RecvThread is busy with an answer, not with the notification to exit.
Handling == pc["recv"] \notin {"recv", "exited"} /\ msg.kind # "exit"

Others(p) == \A q \in Screens \ {p} : ~proc[q].running /\ proc[q].oper = NoOper
NoneShown == \A q \in Screens : ~proc[q].show
OneShown(p) == proc[p].show /\ \A q \in Screens \ {p} : ~proc[q].show

\* What the client takes for its rights are those of the session, or there is none.
ExitSent == \E i \in 1..Len(requests) : requests[i].kind = "exit"
LoggedIn == ~ExitSent /\ rights \subseteq granted \cup LoginOpers
LoggedOut == ExitSent \/ session = "none" \/ granted = {}
Login(p) == IF p = "enter" THEN LoggedOut ELSE LoggedIn

\* The main thread is busy with a screen.
MainTurn ==
    LET m == at["main"]
    IN /\ pc["main"] \notin {"notify", "exited"}
       /\ ~Handling /\ NoneShown /\ NoFlight /\ Others(m)
       /\ pc["main"] \in {"choose", "input"} => proc[m].endFlag = 0
       /\ pc["main"] = "input" => proc[m].oper # NoOper
       /\ pc["main"] \in {"check", "stop"} => proc[m].endFlag # 0
       /\ pc["main"] \in {"check", "stop", "forget", "switch"} => to["main"] \in Screens
       /\ pc["main"] \in {"check", "stop", "forget", "switch"} =>
             (to["main"] = "enter" => m \in {"enter", "common"})
       /\ pc["main"] = "check" /\ m = "common" => proc[m].choice = to["main"]
       /\ pc["main"] \in {"forget", "switch"} => ~proc[m].running
       /\ pc["main"] = "switch" => proc[m].oper = NoOper
       /\ IF pc["main"] \in {"stop", "forget", "switch"} THEN Login(to["main"])
          ELSE IF pc["main"] = "check" /\ m = "enter" THEN to["main"] = "enter" /\ Login(m)
          ELSE Login(m)

\* Screen q is to be shown; RecvThread may still have to end screen p.
Ready(q) ==
    LET p == at["recv"]
    IN /\ pc["main"] = "notify" /\ OneShown(q) /\ NoFlight /\ Login(q)
       /\ IF Handling
          THEN /\ Others(p) /\ p \notin Menus /\ to["recv"] = "none"
               /\ q = p \/ q \in Menus
               /\ pc["recv"] \in {"act", "check", "stop", "forget", "switch", "scan"}
               /\ pc["recv"] = "act" => q = p /\ proc[p].endFlag = -1
               /\ pc["recv"] \in {"check", "stop"} => proc[p].endFlag # 0
               /\ pc["recv"] \in {"forget", "switch", "scan"} => ~proc[p].running
               /\ pc["recv"] \in {"switch", "scan"} => proc[p].oper = NoOper
               /\ pc["recv"] = "scan" =>
                     q \in Menus \/ \A i \in pos..Len(Order) : Order[i] # q
          ELSE Others(q)

\* The main thread has started screen m, and RecvThread is still busy with the message
\* after which it was shown, at screen p or past it.  When p is m itself, RecvThread may
\* stop it and forget its operation under the main thread's hands.
Overlap(m, p) ==
    /\ at["main"] = m /\ pc["main"] \in {"run", "flag", "choose"}
    /\ at["recv"] = p /\ pc["recv"] \in {"check", "stop", "forget", "switch", "scan"}
    /\ Handling /\ NoneShown /\ NoFlight /\ Login(m)
    /\ p \notin Menus /\ to["recv"] = "none" /\ (m = p \/ m \in Menus)
    /\ \A q \in Screens \ {m, p} : ~proc[q].running /\ proc[q].oper = NoOper
    /\ pc["main"] = "choose" => proc[m].endFlag = 0
    /\ m # p =>
          /\ proc[m].oper = NoOper
          /\ pc["recv"] \in {"check", "stop"} => proc[p].endFlag # 0
          /\ pc["recv"] \in {"forget", "switch", "scan"} => ~proc[p].running
          /\ pc["recv"] \in {"switch", "scan"} => proc[p].oper = NoOper
    /\ pc["recv"] = "scan" => m \in Menus \/ \A i \in pos..Len(Order) : Order[i] # m

\* Screen p waits for an answer, or RecvThread is busy with it.
Waiting(p) ==
    LET o == proc[p].oper
    IN /\ pc["main"] = "notify" /\ NoneShown /\ Others(p) /\ p \notin Menus /\ o # NoOper
       /\ Await(o) \/ NoFlight
       /\ IF Handling
          THEN /\ Is(msg, o) /\ (msg.more => msg.ok /\ msg.kind \in Paged)
               /\ pc["recv"] \in AtScreen => at["recv"] = p
               /\ pc["recv"] \in {"ask", "input", "scan", "switch"} => proc[p].endFlag = 0
               /\ pc["recv"] \in {"ask", "input"} \/ proc[p].endFlag # 0 => NoFlight
               /\ pc["recv"] = "scan" =>
                     msg.more \/ NoFlight \/ \A i \in pos..Len(Order) : Order[i] # p
               /\ IF pc["recv"] \in {"stop", "forget"} \/ (pc["recv"] = "check" /\ proc[p].endFlag # 0)
                  THEN to["recv"] = p /\ proc[p].endFlag = -1
                  ELSE to["recv"] = "none"
               /\ pc["recv"] = "forget" => ~proc[p].running
          ELSE proc[p].endFlag = 0

\* Screen p is shown again, after its input was refused in RecvThread.
Again(p) ==
    /\ pc["main"] = "notify" /\ NoneShown /\ NoFlight /\ Handling
    /\ pc["recv"] = "switch" /\ at["recv"] = p /\ to["recv"] = p
    /\ Others(p) /\ ~proc[p].running /\ proc[p].oper = NoOper /\ proc[p].endFlag = -1
    /\ p \notin Menus /\ p # "enter" /\ LoggedIn

\* What the answer to a login says is what the server has granted.
Told(a) == IF a.ok THEN granted = a.rights ELSE LoggedOut

LoginTold ==
    /\ requests # <<>> => LoggedOut
    /\ \A i \in 1..Len(inbox) : inbox[i].kind # "exit" => Told(inbox[i])
    /\ Handling =>
          /\ requests = <<>> /\ pc["recv"] \in {"scan", "act"}
          /\ pc["recv"] = "scan" => Told(msg)
          /\ pc["recv"] = "act" => IF proc["enter"].endFlag = 1 THEN LoggedIn
                                   ELSE proc["enter"].endFlag = -1 /\ LoggedOut

Stage ==
    \/ pc["main"] = "exited"
    \/ MainTurn
    \/ \E m, p \in Screens : Overlap(m, p)
    \/ \E q \in Screens : Ready(q)
    \/ \E p \in Screens : Waiting(p) /\ (IF p = "enter" THEN LoginTold ELSE LoggedIn)
    \/ \E p \in Screens : Again(p)

OneFlight == NoFlight \/ \E o \in Operations : Await(o)

IInv == Typed /\ Fits /\ Rightful /\ OneFlight /\ Stage

\* The main thread knows what a screen it ends leads to.
Directed == pc["main"] \in {"check", "stop", "forget", "switch"} => to["main"] \in Screens

Inv == Typed /\ Directed /\ early \in BOOLEAN /\ (early \/ IInv)

------------------------------------------------------------------------------
(* The screens and their operations *)

KindNames ==
    {"login", "register", "addBatchScore", "getSubjects", "addSingleScore", "selectSingleScore",
     "updateSingleScore", "selectBatchScore", "deleteScore", "alterSubjects", "addBatchUserInfo",
     "addSingleUserInfo", "selectSingleUserInfo", "updateSingleUserInfo", "selectBatchUserInfo",
     "deleteUserInfo", "getAuthority", "editAuthority"}

LEMMA OrderLen == Len(Order) = 14
  BY DEF Order

\* m_mProcMgr has every screen once.
LEMMA ScreensAre ==
    /\ Screens = {"enter", "common", "score", "userInfo", "authority", "addScore", "updateScore",
                  "selectScore", "deleteScore", "alterSubjects", "addUserInfo", "updateUserInfo",
                  "selectUserInfo", "deleteUserInfo"}
    /\ \A i \in 1..14 : Order[i] \in Screens
    /\ \A i, j \in 1..14 : Order[i] = Order[j] => i = j
  <1>1. DOMAIN Order = 1..14
    BY DEF Order
  <1>2. \A i \in 1..14 : i = 1 \/ i = 2 \/ i = 3 \/ i = 4 \/ i = 5 \/ i = 6 \/ i = 7 \/ i = 8 \/ i = 9
                      \/ i = 10 \/ i = 11 \/ i = 12 \/ i = 13 \/ i = 14
    OBVIOUS
  <1>3. /\ Order[1] = "enter" /\ Order[2] = "common" /\ Order[3] = "score" /\ Order[4] = "userInfo"
        /\ Order[5] = "authority" /\ Order[6] = "addScore" /\ Order[7] = "updateScore"
        /\ Order[8] = "selectScore" /\ Order[9] = "deleteScore" /\ Order[10] = "alterSubjects"
        /\ Order[11] = "addUserInfo" /\ Order[12] = "updateUserInfo"
        /\ Order[13] = "selectUserInfo" /\ Order[14] = "deleteUserInfo"
    BY DEF Order
  <1>4. Screens = {Order[i] : i \in 1..14}
    BY <1>1 DEF Screens, Range
  <1>5. \A i, j \in 1..14 : Order[i] = Order[j] => i = j
    BY <1>2, <1>3
  <1> QED BY <1>2, <1>3, <1>4, <1>5

\* A list of requests in which what is answered in pages comes last.
RequestList(s) ==
    /\ s \in Seq(KindNames) /\ Len(s) >= 1
    /\ \A k \in 1..Len(s) : s[k] \in Paged => k = Len(s)

LEMMA RequestLists ==
    ASSUME NEW a \in KindNames, NEW b \in KindNames, NEW c \in KindNames
    PROVE  /\ RequestList(<<a>>)
           /\ a \notin Paged => RequestList(<<a, b>>)
           /\ a \notin Paged /\ b \notin Paged => RequestList(<<a, b, c>>)
  <1>1. <<a>> \in Seq(KindNames) /\ Len(<<a>>) = 1
    OBVIOUS
  <1>2. <<a, b>> \in Seq(KindNames) /\ Len(<<a, b>>) = 2 /\ <<a, b>>[1] = a
    OBVIOUS
  <1>3. /\ <<a, b, c>> \in Seq(KindNames) /\ Len(<<a, b, c>>) = 3
        /\ <<a, b, c>>[1] = a /\ <<a, b, c>>[2] = b
    OBVIOUS
  <1>4. RequestList(<<a>>)
    BY <1>1 DEF RequestList
  <1>5. ASSUME a \notin Paged PROVE RequestList(<<a, b>>)
    BY <1>2, <1>5 DEF RequestList
  <1>6. ASSUME a \notin Paged, b \notin Paged PROVE RequestList(<<a, b, c>>)
    BY <1>3, <1>6 DEF RequestList
  <1> QED BY <1>4, <1>5, <1>6

LEMMA KindNamesAre ==
    /\ \A k \in KindNames : k # "exit" /\ k # "none"
    /\ \A k \in KindNames \ {"selectBatchScore", "selectBatchUserInfo"} : k \notin Paged
  BY DEF KindNames, Paged

\* What a screen offers is a list of requests for each operation, in which what is
\* answered in pages comes last.
LEMMA OffersAre ==
    ASSUME NEW p \in Screens, NEW o \in DOMAIN Offers[p]
    PROVE  /\ o \in 1..30 /\ p \notin Menus
           /\ RequestList(Offers[p][o])
           /\ p = "enter" => Len(Offers[p][o]) = 1
           /\ o \in LoginOpers => p = "enter"
  <1>0. LoginOpers = 1..2
    BY DEF LoginOpers, EnterSysProc
  <1>1. CASE p = "enter"
    <2>1. Offers[p] = EnterSysProc
      BY <1>1 DEF Offers
    <2>2. o \in 1..2 /\ Offers[p][o] \in {<<"login">>, <<"register">>}
      BY <2>1 DEF EnterSysProc
    <2>3. RequestList(Offers[p][o]) /\ Len(Offers[p][o]) = 1
      BY <2>2, RequestLists DEF KindNames
    <2> QED BY <2>3, <1>0, <1>1, <2>2 DEF Menus
  <1>2. CASE p \in {"common", "score", "userInfo"}
    <2>1. Offers[p] = <<>>
      BY <1>2 DEF Offers
    <2> QED BY <2>1
  <1>3. CASE p = "authority"
    <2>1. Offers[p] = AuthoritySysProc
      BY <1>3 DEF Offers
    <2>2. o \in 29..30 /\ Offers[p][o] \in {<<"getAuthority", "editAuthority">>}
      BY <2>1 DEF AuthoritySysProc
    <2>3. RequestList(Offers[p][o])
      BY <2>2, RequestLists DEF KindNames, Paged
    <2> QED BY <2>3, <1>0, <1>3, <2>2 DEF Menus
  <1>4. CASE p = "addScore"
    <2>1. Offers[p] = AddScoreSysProc
      BY <1>4 DEF Offers
    <2>2. o \in 3..6 /\ Offers[p][o] \in {<<"addBatchScore">>, <<"getSubjects", "addSingleScore">>}
      BY <2>1 DEF AddScoreSysProc
    <2>3. RequestList(Offers[p][o])
      BY <2>2, RequestLists DEF KindNames, Paged
    <2> QED BY <2>3, <1>0, <1>4, <2>2 DEF Menus
  <1>5. CASE p = "updateScore"
    <2>1. Offers[p] = UpdateScoreSysProc
      BY <1>5 DEF Offers
    <2>2. o \in 9..10 /\ Offers[p][o] \in {<<"getSubjects", "selectSingleScore", "updateSingleScore">>}
      BY <2>1 DEF UpdateScoreSysProc
    <2>3. RequestList(Offers[p][o])
      BY <2>2, RequestLists DEF KindNames, Paged
    <2> QED BY <2>3, <1>0, <1>5, <2>2 DEF Menus
  <1>6. CASE p = "selectScore"
    <2>1. Offers[p] = SelectScoreSysProc
      BY <1>6 DEF Offers
    <2>2. o \in 11..14 /\ Offers[p][o] \in {<<"getSubjects", "selectBatchScore">>, <<"getSubjects", "selectSingleScore">>}
      BY <2>1 DEF SelectScoreSysProc
    <2>3. RequestList(Offers[p][o])
      BY <2>2, RequestLists DEF KindNames, Paged
    <2> QED BY <2>3, <1>0, <1>6, <2>2 DEF Menus
  <1>7. CASE p = "deleteScore"
    <2>1. Offers[p] = DeleteScoreSysProc
      BY <1>7 DEF Offers
    <2>2. o \in 15..16 /\ Offers[p][o] \in {<<"deleteScore">>}
      BY <2>1 DEF DeleteScoreSysProc
    <2>3. RequestList(Offers[p][o])
      BY <2>2, RequestLists DEF KindNames, Paged
    <2> QED BY <2>3, <1>0, <1>7, <2>2 DEF Menus
  <1>8. CASE p = "alterSubjects"
    <2>1. Offers[p] = AlterSubjectsSysProc
      BY <1>8 DEF Offers
    <2>2. o \in 17..18 /\ Offers[p][o] \in {<<"getSubjects", "alterSubjects">>}
      BY <2>1 DEF AlterSubjectsSysProc
    <2>3. RequestList(Offers[p][o])
      BY <2>2, RequestLists DEF KindNames, Paged
    <2> QED BY <2>3, <1>0, <1>8, <2>2 DEF Menus
  <1>9. CASE p = "addUserInfo"
    <2>1. Offers[p] = AddUserInfoSysProc
      BY <1>9 DEF Offers
    <2>2. o \in 19..20 /\ Offers[p][o] \in {<<"addBatchUserInfo">>, <<"addSingleUserInfo">>}
      BY <2>1 DEF AddUserInfoSysProc
    <2>3. RequestList(Offers[p][o])
      BY <2>2, RequestLists DEF KindNames, Paged
    <2> QED BY <2>3, <1>0, <1>9, <2>2 DEF Menus
  <1>10. CASE p = "updateUserInfo"
    <2>1. Offers[p] = UpdateUserInfoSysProc
      BY <1>10 DEF Offers
    <2>2. o \in 23..24 /\ Offers[p][o] \in {<<"selectSingleUserInfo", "updateSingleUserInfo">>}
      BY <2>1 DEF UpdateUserInfoSysProc
    <2>3. RequestList(Offers[p][o])
      BY <2>2, RequestLists DEF KindNames, Paged
    <2> QED BY <2>3, <1>0, <1>10, <2>2 DEF Menus
  <1>11. CASE p = "selectUserInfo"
    <2>1. Offers[p] = SelectUserInfoSysProc
      BY <1>11 DEF Offers
    <2>2. o \in 25..26 /\ Offers[p][o] \in {<<"selectBatchUserInfo">>, <<"selectSingleUserInfo">>}
      BY <2>1 DEF SelectUserInfoSysProc
    <2>3. RequestList(Offers[p][o])
      BY <2>2, RequestLists DEF KindNames, Paged
    <2> QED BY <2>3, <1>0, <1>11, <2>2 DEF Menus
  <1>12. CASE p = "deleteUserInfo"
    <2>1. Offers[p] = DeleteUserInfoSysProc
      BY <1>12 DEF Offers
    <2>2. o \in 27..28 /\ Offers[p][o] \in {<<"deleteUserInfo">>}
      BY <2>1 DEF DeleteUserInfoSysProc
    <2>3. RequestList(Offers[p][o])
      BY <2>2, RequestLists DEF KindNames, Paged
    <2> QED BY <2>3, <1>0, <1>12, <2>2 DEF Menus
  <1> QED BY <1>1, <1>2, <1>3, <1>4, <1>5, <1>6, <1>7, <1>8, <1>9, <1>10, <1>11, <1>12, ScreensAre

\* An operation is of one screen, not a menu, and made of requests; those of the
\* first screen are made of one.
LEMMA OperationsAre ==
    ASSUME NEW o \in Operations
    PROVE  /\ o # NoOper /\ ScreenOf[o] \in Screens \ Menus
           /\ RequestList(Steps[o])
           /\ ScreenOf[o] = "enter" <=> o \in LoginOpers
           /\ o \in LoginOpers => Len(Steps[o]) = 1
           /\ After[o] = IF o \in LoginOpers THEN "common" ELSE ScreenOf[o]
  <1> DEFINE p == ScreenOf[o]
  <1>1. p \in Screens /\ o \in DOMAIN Offers[p]
    <2>1. \E q \in Screens : o \in DOMAIN Offers[q]
      BY DEF Operations
    <2>2. p = CHOOSE q \in Screens : o \in DOMAIN Offers[q]
      BY DEF ScreenOf
    <2> QED BY <2>1, <2>2
  <1>2. Steps[o] = Offers[p][o]
    BY DEF Steps
  <1>3. After[o] = IF o \in LoginOpers THEN "common" ELSE p
    BY DEF After
  <1>4. p = "enter" => o \in LoginOpers
    BY <1>1 DEF Offers, LoginOpers
  <1>5. /\ o \in 1..30 /\ p \notin Menus
        /\ RequestList(Steps[o])
        /\ p = "enter" => Len(Steps[o]) = 1
        /\ o \in LoginOpers => p = "enter"
    <2> HIDE DEF p
    <2> QED BY <1>1, <1>2, OffersAre
  <1>6. o # NoOper
    BY <1>5 DEF NoOper
  <1>7. p = "enter" <=> o \in LoginOpers
    BY <1>4, <1>5
  <1> QED BY <1>1, <1>3, <1>5, <1>6, <1>7

LEMMA KindsAre ==
    /\ \A o \in Operations : \A k \in Range(Steps[o]) : k \in Kinds /\ k \in KindNames
    /\ \A o \in Operations : Head(Steps[o]) \in Range(Steps[o])
    /\ \A k \in Kinds : k \in KindNames /\ k # "exit" /\ k # "none"
  <1>1. \A o \in Operations : Steps[o] \in Seq(KindNames) /\ Steps[o] # <<>>
    BY OperationsAre DEF RequestList
  <1>2. \A o \in Operations : \A k \in Range(Steps[o]) : k \in KindNames
    BY <1>1 DEF Range
  <1>3. \A o \in Operations : Head(Steps[o]) \in Range(Steps[o])
    <2> TAKE o \in Operations
    <2>1. Steps[o] \in Seq(KindNames) /\ Len(Steps[o]) >= 1
      BY OperationsAre DEF RequestList
    <2>2. Head(Steps[o]) = Steps[o][1] /\ 1 \in DOMAIN Steps[o]
      BY <2>1
    <2> QED BY <2>2 DEF Range
  <1> QED BY <1>2, <1>3, KindNamesAre DEF Kinds

\* What is answered in pages is the last request of its operation, not one in parts,
\* and of no login.
LEMMA PagedAre ==
    ASSUME NEW o \in Operations, NEW k \in Paged, k \in Range(Steps[o])
    PROVE  NextKind(o, k) = "none" /\ k \notin Batches /\ o \notin LoginOpers
  <1>1. /\ Steps[o] \in Seq(KindNames) /\ Len(Steps[o]) \in Nat
        /\ \A i \in 1..Len(Steps[o]) : Steps[o][i] \in Paged => i = Len(Steps[o])
    BY OperationsAre DEF RequestList
  <1>2. {i \in 1..(IF o = NoOper THEN 0 ELSE Len(Steps[o]) - 1) : Steps[o][i] = k} = {}
    BY <1>1, OperationsAre
  <1>3. k \notin Batches
    BY DEF Batches, Paged
  <1>4. o \notin LoginOpers
    <2>1. SUFFICES ASSUME o \in LoginOpers PROVE FALSE
      OBVIOUS
    <2>2. LoginOpers = 1..2 /\ "enter" \in Screens
      BY ScreensAre DEF LoginOpers, EnterSysProc
    <2>3. Steps[o] = Offers["enter"][o]
      BY <2>1, OperationsAre DEF Steps
    <2>4. Steps[o] = <<"login">> \/ Steps[o] = <<"register">>
      BY <2>1, <2>2, <2>3 DEF Offers, EnterSysProc, LoginOpers
    <2> QED BY <2>4 DEF Range, Paged
  <1> QED BY <1>2, <1>3, <1>4 DEF NextKind

LEMMA NextKindIs ==
    ASSUME NEW o \in Operations, NEW k
    PROVE  /\ NextKind(o, k) = "none" \/ NextKind(o, k) \in Range(Steps[o])
           /\ o \in LoginOpers => NextKind(o, k) = "none"
  <1> DEFINE I == {i \in 1..(IF o = NoOper THEN 0 ELSE Len(Steps[o]) - 1) : Steps[o][i] = k}
  <1>1. /\ Steps[o] \in Seq(KindNames) /\ Len(Steps[o]) \in Nat /\ o # NoOper
        /\ o \in LoginOpers => Len(Steps[o]) = 1
    BY OperationsAre DEF RequestList
  <1>2. \A i \in I : i + 1 \in DOMAIN Steps[o]
    BY <1>1
  <1>3. NextKind(o, k) = IF I = {} THEN "none" ELSE Steps[o][(CHOOSE i \in I : TRUE) + 1]
    BY DEF NextKind
  <1>4. o \in LoginOpers => I = {}
    <2>1. 1..(1 - 1) = {}
      OBVIOUS
    <2>2. o \in LoginOpers => 1..(Len(Steps[o]) - 1) = {}
      BY <1>1, <2>1, Zenon
    <2> QED BY <1>1, <2>2
  <1>5. I # {} => (CHOOSE i \in I : TRUE) \in I
    OBVIOUS
  <1> HIDE DEF I
  <1>6. I # {} => NextKind(o, k) \in Range(Steps[o])
    BY <1>2, <1>3, <1>5 DEF Range
  <1> QED BY <1>3, <1>4, <1>6

LEMMA LoginKinds ==
    ASSUME NEW o \in LoginOpers, NEW k \in Range(Steps[o])
    PROVE  k \in {"login", "register"} /\ k \notin Batches /\ k \notin Unasked /\ k \notin Paged
  <1>1. LoginOpers = 1..2 /\ "enter" \in Screens
    BY ScreensAre DEF LoginOpers, EnterSysProc
  <1>2. o \in Operations
    BY <1>1 DEF Operations, Offers, LoginOpers
  <1>3. Steps[o] = Offers["enter"][o]
    BY <1>2, OperationsAre DEF Steps
  <1>4. Steps[o] = <<"login">> \/ Steps[o] = <<"register">>
    BY <1>1, <1>3 DEF Offers, EnterSysProc
  <1>5. k \in {"login", "register"}
    BY <1>4 DEF Range
  <1> QED BY <1>5 DEF Batches, Unasked, Paged

LEMMA LeadsToAre ==
    ASSUME NEW p \in Screens, NEW q \in LeadsTo[p]
    PROVE  /\ q \in Screens \/ q = "exit"
           /\ q = "enter" => p = "common"
           /\ p = "enter" => q = "exit"
  BY ScreensAre DEF LeadsTo, CommonSysProc, ScoreSysProc, UserInfoSysProc

------------------------------------------------------------------------------
(* The network: one request, or the answer to it, is on its way *)

NetTyped == requests \in Seq(Requests) /\ inbox \in Seq(Acks)

LEMMA NotExit ==
    ASSUME NEW o \in Operations, NEW r, Is(r, o)
    PROVE  r.kind # "exit" /\ r.kind \in Kinds
  BY KindsAre DEF Is

\* A request is sent when none is on its way.
LEMMA SendFlight ==
    ASSUME NetTyped, NoFlight, NEW o \in Operations, NEW k \in Range(Steps[o]),
           requests' = Append(requests, [kind |-> k, oper |-> o]), inbox' = inbox
    PROVE  Await(o)' /\ (ExitSent' <=> ExitSent) /\ NetTyped'
  <1> DEFINE r == [kind |-> k, oper |-> o]
  <1>1. k \in Kinds /\ k # "exit"
    BY KindsAre
  <1>2. r \in Requests /\ r.kind = k /\ r.oper = o
    BY <1>1 DEF Requests
  <1> HIDE DEF r
  <1>3. /\ Append(requests, r) \in Seq(Requests) /\ Len(requests) \in Nat
        /\ Len(Append(requests, r)) = Len(requests) + 1
        /\ Append(requests, r)[Len(requests) + 1] = r
        /\ \A i \in 1..Len(requests) : Append(requests, r)[i] = requests[i]
    BY <1>2, AppendOf DEF NetTyped
  <1>4. requests' = Append(requests, r)
    BY DEF r
  <1>5. Asked1(o)'
    BY <1>2, <1>3, <1>4 DEF Asked1, Is, NoFlight, Exits
  <1>6. ExitSent' <=> ExitSent
    BY <1>1, <1>2, <1>3, <1>4 DEF ExitSent
  <1> QED BY <1>3, <1>4, <1>5, <1>6 DEF Await, NetTyped

\* CommonSysProc sends its exit when none is on its way.
LEMMA ExitFlight ==
    ASSUME NetTyped, NoFlight, inbox' = inbox,
           requests' = Append(requests, [kind |-> "exit", oper |-> NoOper])
    PROVE  NoFlight' /\ ExitSent' /\ NetTyped'
  <1> DEFINE r == [kind |-> "exit", oper |-> NoOper]
  <1>2. r \in Requests /\ r.kind = "exit"
    BY DEF Requests
  <1>4. requests' = Append(requests, r)
    OBVIOUS
  <1> HIDE DEF r
  <1>3. /\ Append(requests, r) \in Seq(Requests) /\ Len(requests) \in Nat
        /\ Len(Append(requests, r)) = Len(requests) + 1
        /\ Append(requests, r)[Len(requests) + 1] = r
        /\ \A i \in 1..Len(requests) : Append(requests, r)[i] = requests[i]
        /\ \A i \in 1..Len(Append(requests, r)) : i \in 1..Len(requests) \/ i = Len(requests) + 1
    BY <1>2, AppendOf DEF NetTyped
  <1>5. Exits(requests)'
    BY <1>2, <1>3, <1>4 DEF NoFlight, Exits
  <1>6. ExitSent'
    BY <1>2, <1>3, <1>4 DEF ExitSent
  <1> QED BY <1>3, <1>4, <1>5, <1>6 DEF NoFlight, Exits, NetTyped

\* RecvThread takes an exit, a page or the answer.
LEMMA TakeFlight ==
    ASSUME NetTyped, inbox # <<>>, inbox' = Tail(inbox), requests' = requests
    PROVE  /\ NetTyped' /\ Head(inbox) \in Acks
           /\ NoFlight => NoFlight' /\ Head(inbox).kind = "exit"
           /\ \A o \in Operations : Await(o) =>
                 \/ Head(inbox).kind = "exit" /\ Await(o)'
                 \/ /\ requests = <<>> /\ Is(Head(inbox), o)
                    /\ IF Head(inbox).more
                       THEN Head(inbox).ok /\ Head(inbox).kind \in Paged /\ Await(o)'
                       ELSE NoFlight'
  <1>1. /\ Len(inbox) \in Nat /\ 1 \in 1..Len(inbox) /\ Head(inbox) = inbox[1] /\ inbox[1] \in Acks
        /\ Tail(inbox) \in Seq(Acks) /\ Len(Tail(inbox)) = Len(inbox) - 1
        /\ \A i \in 1..Len(Tail(inbox)) : i + 1 \in 1..Len(inbox) /\ Tail(inbox)[i] = inbox[i + 1]
    BY TailOf DEF NetTyped
  <1>2. NoFlight => NoFlight' /\ Head(inbox).kind = "exit"
    BY <1>1 DEF NoFlight, Exits
  <1>3. ASSUME NEW o \in Operations, Await(o)
        PROVE  \/ Head(inbox).kind = "exit" /\ Await(o)'
               \/ /\ requests = <<>> /\ Is(Head(inbox), o)
                  /\ IF Head(inbox).more
                     THEN Head(inbox).ok /\ Head(inbox).kind \in Paged /\ Await(o)'
                     ELSE NoFlight'
    <2>1. CASE Asked1(o)
      <3>1. Head(inbox).kind = "exit" /\ Exits(inbox)'
        BY <1>1, <2>1 DEF Asked1, Exits
      <3> QED BY <3>1, <2>1 DEF Asked1, Await
    <2>2. CASE Answered1(o)
      <3>1. PICK k \in 1..Len(inbox) :
              /\ Is(inbox[k], o) /\ ~inbox[k].more
              /\ \A i \in 1..Len(inbox) :
                    i = k \/ inbox[i].kind = "exit"
                    \/ (i < k /\ Is(inbox[i], o) /\ inbox[i].more /\ inbox[i].kind \in Paged
                        /\ inbox[i].ok)
        BY <2>2 DEF Answered1
      <3>2. requests = <<>> /\ requests' = <<>>
        BY <2>2 DEF Answered1
      <3>3. CASE k = 1
        <4>1. \A i \in 1..Len(Tail(inbox)) : Tail(inbox)[i].kind = "exit"
          BY <1>1, <3>1, <3>3
        <4>2. Exits(requests)'
          BY <3>2 DEF Exits
        <4>3. NoFlight'
          BY <4>1, <4>2 DEF NoFlight, Exits
        <4> QED BY <1>1, <3>1, <3>2, <3>3, <4>3
      <3>4. CASE k # 1
        <4>1. k - 1 \in 1..Len(Tail(inbox)) /\ Tail(inbox)[k - 1] = inbox[k]
          BY <1>1, <3>1, <3>4
        <4>2. \A i \in 1..Len(Tail(inbox)) :
                 i = k - 1 \/ Tail(inbox)[i].kind = "exit"
                 \/ (i < k - 1 /\ Is(Tail(inbox)[i], o) /\ Tail(inbox)[i].more
                     /\ Tail(inbox)[i].kind \in Paged /\ Tail(inbox)[i].ok)
          BY <1>1, <3>1, <3>4
        <4>3. Answered1(o)'
          BY <3>1, <3>2, <4>1, <4>2 DEF Answered1
        <4>4. \/ inbox[1].kind = "exit"
              \/ Is(inbox[1], o) /\ inbox[1].more /\ inbox[1].kind \in Paged /\ inbox[1].ok
          BY <1>1, <3>1, <3>4
        <4> QED BY <1>1, <3>2, <4>3, <4>4 DEF Await
      <3> QED BY <3>3, <3>4
    <2> QED BY <1>3, <2>1, <2>2 DEF Await
  <1> QED BY <1>1, <1>2, <1>3 DEF NetTyped

\* The server takes the request, which is then the only one.
LEMMA RequestAlone ==
    ASSUME NetTyped, requests # <<>>, Head(requests).kind # "exit", OneFlight
    PROVE  /\ ~NoFlight /\ Tail(requests) = <<>> /\ Exits(inbox) /\ ~ExitSent
           /\ \A o \in Operations : Await(o) => Is(Head(requests), o)
  <1>1. /\ Len(requests) \in Nat /\ 1 \in 1..Len(requests) /\ Head(requests) = requests[1]
        /\ Tail(requests) \in Seq(Requests) /\ Len(Tail(requests)) = Len(requests) - 1
    BY TailOf DEF NetTyped
  <1>2. ~NoFlight
    BY <1>1 DEF NoFlight, Exits
  <1>3. ASSUME NEW o \in Operations, Await(o)
        PROVE  Len(requests) = 1 /\ Is(Head(requests), o) /\ Exits(inbox)
    <2>1. Asked1(o)
      BY <1>3 DEF Await, Answered1
    <2>2. ~(1 \in 1..Len(requests) - 1)
      BY <1>1, <2>1 DEF Asked1
    <2>3. Len(requests) = 1
      BY <1>1, <2>2
    <2> QED BY <1>1, <2>1, <2>3 DEF Asked1
  <1>4. PICK o \in Operations : Await(o)
    BY <1>2 DEF OneFlight
  <1>5. Len(requests) = 1 /\ Exits(inbox)
    BY <1>3, <1>4
  <1>6. Tail(requests) = <<>>
    <2>1. requests \in Seq(Requests) /\ Len(requests) <= 1
      BY <1>5 DEF NetTyped
    <2> QED BY <2>1, TailOne
  <1>7. ~ExitSent
    <2>1. \A i \in 1..Len(requests) : i = 1
      BY <1>5
    <2> QED BY <1>1, <2>1 DEF ExitSent
  <1> QED BY <1>2, <1>3, <1>5, <1>6, <1>7

LEMMA TypeOfAck ==
    ASSUME NEW r \in Requests, NEW ok \in BOOLEAN, NEW rs \in SUBSET Operations,
           NEW more \in BOOLEAN
    PROVE  /\ Ack(r, ok, rs, more) \in Acks
           /\ Ack(r, ok, rs, more).kind = r.kind /\ Ack(r, ok, rs, more).oper = r.oper
           /\ Ack(r, ok, rs, more).ok = ok /\ Ack(r, ok, rs, more).rights = rs
           /\ Ack(r, ok, rs, more).more = more
  BY DEF Ack, Acks, Requests

\* It answers it at once,
LEMMA AnswerFlight ==
    ASSUME NetTyped, Exits(inbox), requests' = <<>>, NEW o \in Operations,
           NEW a \in Acks, Is(a, o), ~a.more, inbox' = Append(inbox, a)
    PROVE  /\ Await(o)' /\ NetTyped' /\ requests' = <<>>
           /\ \A i \in 1..Len(inbox') : inbox'[i].kind # "exit" => inbox'[i] = a
  <1>1. /\ Append(inbox, a) \in Seq(Acks) /\ Len(inbox) \in Nat
        /\ Len(Append(inbox, a)) = Len(inbox) + 1
        /\ Append(inbox, a)[Len(inbox) + 1] = a
        /\ \A i \in 1..Len(inbox) : Append(inbox, a)[i] = inbox[i]
        /\ \A i \in 1..Len(Append(inbox, a)) : i \in 1..Len(inbox) \/ i = Len(inbox) + 1
    BY AppendOf DEF NetTyped
  <1> DEFINE k == Len(inbox) + 1
  <1>2. k \in 1..Len(inbox') /\ inbox'[k] = a
    BY <1>1
  <1>3. \A i \in 1..Len(inbox') : i = k \/ inbox'[i].kind = "exit"
    BY <1>1 DEF Exits
  <1> HIDE DEF k
  <1>4. Answered1(o)'
    BY <1>2, <1>3 DEF Answered1
  <1>5. requests' \in Seq(Requests)
    OBVIOUS
  <1> QED BY <1>1, <1>2, <1>3, <1>4, <1>5 DEF Await, NetTyped

\* or in two pages.
LEMMA PagesFlight ==
    ASSUME NetTyped, Exits(inbox), requests' = <<>>, NEW o \in Operations,
           NEW a \in Acks, Is(a, o), a.more, a.ok, a.kind \in Paged,
           NEW b \in Acks, Is(b, o), ~b.more, inbox' = inbox \o <<a, b>>
    PROVE  Await(o)' /\ NetTyped' /\ requests' = <<>>
  <1>1. /\ <<a, b>> \in Seq(Acks) /\ Len(<<a, b>>) = 2 /\ <<a, b>>[1] = a /\ <<a, b>>[2] = b
    OBVIOUS
  <1> DEFINE s == <<a, b>>
             k == Len(inbox) + 2
  <1> HIDE DEF s
  <1>2. /\ inbox \o s \in Seq(Acks) /\ Len(inbox) \in Nat
        /\ Len(inbox \o s) = Len(inbox) + 2
        /\ \A i \in 1..Len(inbox) : (inbox \o s)[i] = inbox[i]
        /\ (inbox \o s)[Len(inbox) + 1] = a /\ (inbox \o s)[Len(inbox) + 2] = b
    <2>1. inbox \in Seq(Acks) /\ s \in Seq(Acks) /\ Len(s) = 2 /\ s[1] = a /\ s[2] = b
      BY <1>1 DEF s, NetTyped
    <2>2. /\ inbox \o s \in Seq(Acks) /\ Len(inbox \o s) = Len(inbox) + Len(s)
          /\ \A i \in 1..Len(inbox) + Len(s) :
                (inbox \o s)[i] = IF i <= Len(inbox) THEN inbox[i] ELSE s[i - Len(inbox)]
      BY <2>1, ConcatProperties
    <2>3. Len(inbox) \in Nat
      BY <2>1
    <2>4. (inbox \o s)[Len(inbox) + 1] = s[1] /\ (inbox \o s)[Len(inbox) + 2] = s[2]
      BY <2>1, <2>2, <2>3
    <2> QED BY <2>1, <2>2, <2>3, <2>4
  <1>3. inbox' = inbox \o s
    BY DEF s
  <1>4. k \in 1..Len(inbox') /\ inbox'[k] = b
    BY <1>2, <1>3
  <1>5. \A i \in 1..Len(inbox') : i = k \/ i \in 1..Len(inbox) \/ (i = Len(inbox) + 1 /\ i < k)
    BY <1>2, <1>3
  <1>6. \A i \in 1..Len(inbox) : inbox'[i].kind = "exit"
    BY <1>2, <1>3 DEF Exits
  <1>7. inbox'[Len(inbox) + 1] = a
    BY <1>2, <1>3
  <1> HIDE DEF k
  <1>8. Answered1(o)'
    BY <1>4, <1>5, <1>6, <1>7 DEF Answered1
  <1>9. requests' \in Seq(Requests)
    OBVIOUS
  <1> QED BY <1>2, <1>3, <1>8, <1>9 DEF Await, NetTyped

\* The exit before a request is taken.
LEMMA SignOutFlight ==
    ASSUME NetTyped, requests # <<>>, Head(requests).kind = "exit",
           requests' = Tail(requests), inbox' = inbox
    PROVE  /\ NetTyped' /\ ExitSent /\ (NoFlight => NoFlight')
           /\ \A o \in Operations : Await(o) => Await(o)'
  <1>1. /\ Len(requests) \in Nat /\ 1 \in 1..Len(requests) /\ Head(requests) = requests[1]
        /\ Tail(requests) \in Seq(Requests) /\ Len(Tail(requests)) = Len(requests) - 1
        /\ \A i \in 1..Len(Tail(requests)) :
              i + 1 \in 1..Len(requests) /\ Tail(requests)[i] = requests[i + 1]
    BY TailOf DEF NetTyped
  <1>2. ExitSent
    BY <1>1 DEF ExitSent
  <1>3. NoFlight => NoFlight'
    BY <1>1 DEF NoFlight, Exits
  <1>4. ASSUME NEW o \in Operations, Await(o) PROVE Asked1(o)'
    <2>1. Asked1(o)
      BY <1>4 DEF Await, Answered1
    <2>2. Is(requests[Len(requests)], o)
      BY <2>1 DEF Asked1
    <2>3. Len(requests) > 1
      BY <1>1, <2>2, NotExit
    <2>4. /\ Len(Tail(requests)) \in 1..Len(Tail(requests))
          /\ Tail(requests)[Len(Tail(requests))] = requests[Len(requests)]
          /\ Tail(requests) # <<>>
      <3>1. Len(Tail(requests)) \in 1..Len(Tail(requests))
        BY <1>1, <2>3
      <3>2. Tail(requests)[Len(Tail(requests))] = requests[Len(Tail(requests)) + 1]
        BY <1>1, <3>1
      <3>3. Len(Tail(requests)) + 1 = Len(requests)
        BY <1>1
      <3>4. Tail(requests) # <<>>
        <4>1. Len(<<>>) = 0
          OBVIOUS
        <4>2. Len(Tail(requests)) # 0
          BY <1>1, <2>3
        <4> QED BY <4>1, <4>2
      <3> QED BY <3>1, <3>2, <3>3, <3>4
    <2>5. \A i \in 1..Len(Tail(requests)) - 1 : Tail(requests)[i].kind = "exit"
      <3> TAKE i \in 1..Len(Tail(requests)) - 1
      <3>1. i \in 1..Len(Tail(requests)) /\ i + 1 \in 1..Len(requests) - 1
        BY <1>1
      <3> QED BY <1>1, <2>1, <3>1 DEF Asked1
    <2> QED BY <2>1, <2>2, <2>4, <2>5 DEF Asked1
  <1> QED BY <1>1, <1>2, <1>3, <1>4 DEF NetTyped, Await

\* The server's notification to exit comes after all that it has sent.
LEMMA KickFlight ==
    ASSUME NetTyped, NEW a \in Acks, a.kind = "exit", requests' = requests,
           inbox' = Append(inbox, a)
    PROVE  /\ NetTyped' /\ (NoFlight => NoFlight')
           /\ \A o \in Operations : Await(o) => Await(o)'
           /\ \A i \in 1..Len(inbox') :
                 inbox'[i].kind # "exit" => i \in 1..Len(inbox) /\ inbox'[i] = inbox[i]
  <1>1. /\ Append(inbox, a) \in Seq(Acks) /\ Len(inbox) \in Nat
        /\ Len(Append(inbox, a)) = Len(inbox) + 1
        /\ Append(inbox, a)[Len(inbox) + 1] = a
        /\ \A i \in 1..Len(inbox) : Append(inbox, a)[i] = inbox[i]
        /\ \A i \in 1..Len(Append(inbox, a)) : i \in 1..Len(inbox) \/ i = Len(inbox) + 1
    BY AppendOf DEF NetTyped
  <1>2. Exits(inbox) => Exits(inbox)'
    BY <1>1 DEF Exits
  <1>3. ASSUME NEW o \in Operations, Await(o) PROVE Await(o)'
    <2>1. CASE Asked1(o)
      BY <1>2, <2>1 DEF Asked1, Await
    <2>2. CASE Answered1(o)
      <3>1. PICK k \in 1..Len(inbox) :
              /\ Is(inbox[k], o) /\ ~inbox[k].more
              /\ \A i \in 1..Len(inbox) :
                    i = k \/ inbox[i].kind = "exit"
                    \/ (i < k /\ Is(inbox[i], o) /\ inbox[i].more /\ inbox[i].kind \in Paged
                        /\ inbox[i].ok)
        BY <2>2 DEF Answered1
      <3>2. k \in 1..Len(inbox')
        BY <1>1
      <3> QED BY <1>1, <2>2, <3>1, <3>2 DEF Answered1, Await
    <2> QED BY <1>3, <2>1, <2>2 DEF Await
  <1>4. NoFlight => NoFlight'
    BY <1>2 DEF NoFlight, Exits
  <1> QED BY <1>1, <1>3, <1>4 DEF NetTyped

------------------------------------------------------------------------------
(* The main thread *)

\* One screen is changed.
Others2(p) == \A q \in Screens : q # p => proc'[q] = proc[q]

LEMMA FlagsAre == /\ 0 \in -1..1 /\ 1 \in -1..1 /\ -1 \in -1..1 /\ 0 \in Nat /\ 1 \in Nat
                  /\ 0 # 1 /\ -1 # 0 /\ -1 # 1
  OBVIOUS

\* A step of the main thread, which leaves RecvThread where it is.
LEMMA MainTyped ==
    ASSUME Typed, pc["main"] # "exited", NEW l \in MainPlaces \ {"exited"},
           pc' = [pc EXCEPT !["main"] = l],
           at' = at \/ \E p \in Screens : at' = [at EXCEPT !["main"] = p],
           to' = to \/ \E q \in Screens \cup {"none"} : to' = [to EXCEPT !["main"] = q],
           proc' \in [Screens -> Proc], rights' = rights, pos' = pos, msg' = msg,
           NetTyped', sent' \in 0..MaxSent, session' = session, granted' = granted
    PROVE  /\ Typed' /\ (Handling' <=> Handling) /\ pc'["main"] = l
           /\ pc'["recv"] = pc["recv"] /\ at'["recv"] = at["recv"] /\ to'["recv"] = to["recv"]
  <1>1. /\ pc'["main"] = l /\ pc'["recv"] = pc["recv"]
        /\ pc' \in [Threads -> MainPlaces \cup AtScreen \cup {"recv", "scan"}]
    BY DEF Typed, Threads
  <1>2. at'["recv"] = at["recv"] /\ at' \in [Threads -> Screens]
    BY DEF Typed, Threads
  <1>3. to'["recv"] = to["recv"] /\ to' \in [Threads -> Screens \cup {"none"}]
    BY DEF Typed, Threads
  <1>4. Typed'
    BY <1>1, <1>2, <1>3 DEF Typed, NetTyped
  <1> QED BY <1>1, <1>2, <1>3, <1>4 DEF Handling

LEMMA IsMainTurn ==
    ASSUME Stage, pc["main"] \notin {"notify", "exited"},
           UserReady \/ pc["main"] \notin {"run", "flag", "choose"} \/ ~Handling
    PROVE  MainTurn
  <1>1. \A m, p \in Screens : ~Overlap(m, p)
    BY DEF Overlap, UserReady
  <1> QED BY <1>1 DEF Stage, Ready, Waiting, Again

\* Operations are only forgotten.
LEMMA OpersForgotten ==
    ASSUME IInv, granted' = granted, NEW p \in Screens, Others2(p),
           proc'[p].oper = proc[p].oper \/ proc'[p].oper = NoOper
    PROVE  Fits' /\ Rightful'
  <1>1. Fits /\ Rightful
    BY DEF IInv
  <1>2. ASSUME NEW q \in Screens
        PROVE  /\ proc'[q].oper # NoOper => ScreenOf[proc'[q].oper] = q
               /\ proc'[q].oper \in granted \cup LoginOpers \cup {NoOper}
    <2>1. /\ proc[q].oper # NoOper => ScreenOf[proc[q].oper] = q
          /\ proc[q].oper \in granted \cup LoginOpers \cup {NoOper}
      BY <1>1 DEF Fits, Rightful
    <2>2. proc'[q].oper = proc[q].oper \/ proc'[q].oper = NoOper
      BY DEF Others2
    <2> QED BY <2>1, <2>2
  <1> QED BY <1>2 DEF Fits, Rightful

LEMMA FlightOfStage ==
    ASSUME Typed', Stage', pc'["main"] # "exited"
    PROVE  OneFlight'
  <1>1. CASE MainTurn'
    BY <1>1 DEF MainTurn, OneFlight
  <1>2. ASSUME NEW q \in Screens, Ready(q)' PROVE OneFlight'
    BY <1>2 DEF Ready, OneFlight
  <1>3. ASSUME NEW p \in Screens, Waiting(p)' PROVE OneFlight'
    <2>1. proc'[p].oper \in Operations
      BY <1>3 DEF Waiting, Typed, Proc
    <2> QED BY <1>3, <2>1 DEF Waiting, OneFlight
  <1>4. ASSUME NEW p \in Screens, Again(p)' PROVE OneFlight'
    BY <1>4 DEF Again, OneFlight
  <1>5. ASSUME NEW m \in Screens, NEW p \in Screens, Overlap(m, p)' PROVE OneFlight'
    BY <1>5 DEF Overlap, OneFlight
  <1> QED BY <1>1, <1>2, <1>3, <1>4, <1>5 DEF Stage

LEMMA NetOfTyped ==
    ASSUME Typed
    PROVE  NetTyped
  BY DEF Typed, NetTyped

LEMMA SameNet ==
    ASSUME network' = network, Typed
    PROVE  /\ NetTyped' /\ sent' \in 0..MaxSent /\ session' = session /\ granted' = granted
           /\ NoFlight' = NoFlight /\ ExitSent' = ExitSent
  BY DEF network, Typed, NetTyped, NoFlight, Exits, ExitSent

LEMMA SameLogin ==
    ASSUME rights' = rights, granted' = granted, session' = session, ExitSent' <=> ExitSent
    PROVE  LoggedIn' = LoggedIn /\ LoggedOut' = LoggedOut
           /\ \A p : Login(p)' = Login(p)
  BY DEF LoggedIn, LoggedOut, Login

\* Notify starts the screen that is to be shown.  If it is not one RecvThread is about
\* to end, RecvThread is done with messages, or at another screen, or past EndRecv.
LEMMA NotifyGood ==
    ASSUME IInv, NEW q \in Screens, Notify(q), ~early'
    PROVE  IInv'
  <1>1. /\ pc["main"] = "notify" /\ proc[q].show /\ ~Undecided(q)
        /\ pc' = [pc EXCEPT !["main"] = "run"] /\ at' = [at EXCEPT !["main"] = q]
        /\ proc' = [proc EXCEPT ![q].show = FALSE] /\ to' = to
        /\ rights' = rights /\ pos' = pos /\ msg' = msg /\ network' = network
    BY DEF Notify, Goto, network
  <1>2. /\ proc' \in [Screens -> Proc] /\ Others2(q)
        /\ proc'[q] = [proc[q] EXCEPT !.show = FALSE] /\ proc[q] \in Proc
    BY <1>1 DEF IInv, Typed, Proc, Others2
  <1>3. /\ proc'[q].show = FALSE /\ proc'[q].running = proc[q].running
        /\ proc'[q].oper = proc[q].oper /\ proc'[q].endFlag = proc[q].endFlag
    BY <1>2 DEF Proc
  <1>4. Ready(q)
    <2>1. ~MainTurn /\ \A x, y \in Screens : ~Overlap(x, y)
      BY <1>1 DEF MainTurn, Overlap
    <2>2. \A x \in Screens : ~Waiting(x) /\ ~Again(x)
      BY <1>1 DEF Waiting, Again, NoneShown
    <2>3. PICK x \in Screens : Ready(x)
      BY <1>1, <2>1, <2>2 DEF IInv, Stage
    <2>4. x = q
      BY <1>1, <2>3 DEF Ready, OneShown
    <2> QED BY <2>3, <2>4
  <1>5. /\ Typed' /\ (Handling' <=> Handling) /\ pc'["main"] = "run" /\ at'["main"] = q
        /\ pc'["recv"] = pc["recv"] /\ at'["recv"] = at["recv"]
        /\ NoFlight' = NoFlight /\ granted' = granted /\ Login(q)' = Login(q)
    <2>1. Typed /\ "run" \in MainPlaces \ {"exited"}
      BY DEF IInv, MainPlaces
    <2>2. /\ Typed' /\ (Handling' <=> Handling) /\ pc'["main"] = "run"
          /\ pc'["recv"] = pc["recv"] /\ at'["recv"] = at["recv"]
      BY <1>1, <1>2, <2>1, MainTyped, SameNet
    <2>3. at'["main"] = q
      BY <1>1, <2>1 DEF Typed, Threads
    <2> QED BY <1>1, <2>1, <2>2, <2>3, SameNet, SameLogin
  <1>6. Fits' /\ Rightful'
    BY <1>2, <1>3, <1>5, OpersForgotten
  <1>7. NoneShown' /\ NoFlight' /\ Login(q)'
    <2>1. NoneShown'
      BY <1>2, <1>3, <1>4 DEF Ready, OneShown, NoneShown, Others2
    <2> QED BY <1>4, <1>5, <2>1 DEF Ready
  <1>8. CASE ~Handling
    <2>1. Others(q)'
      BY <1>2, <1>3, <1>4, <1>8 DEF Ready, Others, Others2
    <2>2. Others(at["main"])' /\ Login(at["main"])'
      BY <1>5, <1>7, <2>1 DEF Others, Login
    <2>3. MainTurn'
      BY <1>5, <1>7, <1>8, <2>1, <2>2 DEF MainTurn
    <2> QED BY <1>5, <1>6, <2>3, FlightOfStage DEF IInv, Stage
  <1>9. CASE Handling
    <2>1. PICK p \in Screens : p = at["recv"]
      BY DEF IInv, Typed, Threads
    <2>2. /\ Others(p) /\ p \notin Menus /\ to["recv"] = "none" /\ (q = p \/ q \in Menus)
          /\ pc["recv"] \in {"act", "check", "stop", "forget", "switch", "scan"}
          /\ pc["recv"] = "act" => q = p
          /\ pc["recv"] \in {"check", "stop"} => proc[p].endFlag # 0
          /\ pc["recv"] \in {"forget", "switch", "scan"} => ~proc[p].running
          /\ pc["recv"] \in {"switch", "scan"} => proc[p].oper = NoOper
          /\ pc["recv"] = "scan" => q \in Menus \/ \A i \in pos..Len(Order) : Order[i] # q
      BY <1>4, <1>9, <2>1 DEF Ready
    <2>3. pc["recv"] \in {"check", "stop", "forget", "switch", "scan"}
      BY <1>1, <2>1, <2>2 DEF Undecided
    <2>4. q # p => proc[q].oper = NoOper
      BY <2>2 DEF Others
    <2>5. \A x \in Screens : /\ proc'[x].running = proc[x].running
                             /\ proc'[x].oper = proc[x].oper
                             /\ proc'[x].endFlag = proc[x].endFlag
      BY <1>2, <1>3 DEF Others2
    <2>6. \A x \in Screens \ {q, p} : ~proc'[x].running /\ proc'[x].oper = NoOper
      BY <2>2, <2>5 DEF Others
    <2>7. Overlap(q, p)'
      BY <1>1, <1>5, <1>7, <1>9, <2>1, <2>2, <2>3, <2>4, <2>5, <2>6 DEF Overlap
    <2>8. Stage' /\ pc'["main"] # "exited"
      BY <1>5, <2>7 DEF Stage
    <2> QED BY <1>5, <1>6, <2>8, FlightOfStage DEF IInv
  <1> QED BY <1>8, <1>9

LEMMA Together ==
    ASSUME Typed', Fits', Rightful', Stage', pc'["main"] # "exited"
    PROVE  IInv'
  BY FlightOfStage DEF IInv

\* A step of the main thread with screen m, which sends nothing.
LEMMA MainQuiet ==
    ASSUME IInv, NEW m \in Screens, m = at["main"], pc["main"] \notin {"notify", "exited"},
           UserReady \/ pc["main"] \notin {"run", "flag", "choose"} \/ ~Handling,
           NEW l \in MainPlaces \ {"exited"}, pc' = [pc EXCEPT !["main"] = l], at' = at,
           to' = to \/ \E q \in Screens \cup {"none"} : to' = [to EXCEPT !["main"] = q],
           proc' \in [Screens -> Proc], Others2(m), rights' = rights, pos' = pos, msg' = msg,
           network' = network
    PROVE  /\ MainTurn /\ Typed' /\ ~Handling' /\ pc'["main"] = l /\ at'["main"] = m
           /\ NoFlight' /\ granted' = granted /\ \A p : Login(p)' = Login(p)
           /\ Others(m) /\ Others(m)'
           /\ \A q \in Screens : ~proc[q].show /\ (q # m => ~proc'[q].show)
  <1>1. MainTurn
    BY IsMainTurn DEF IInv
  <1>2. Typed
    BY DEF IInv
  <1>3. Typed' /\ (Handling' <=> Handling) /\ pc'["main"] = l
    BY <1>2, MainTyped, SameNet
  <1>4. /\ NoFlight' /\ granted' = granted /\ \A p : Login(p)' = Login(p)
    BY <1>1, <1>2, SameNet, SameLogin DEF MainTurn
  <1>5. Others(m)
    BY <1>1 DEF MainTurn, Others
  <1>6. Others(m)'
    BY <1>5 DEF Others, Others2
  <1>7. \A q \in Screens : ~proc[q].show /\ (q # m => ~proc'[q].show)
    BY <1>1 DEF MainTurn, NoneShown, Others2
  <1> QED BY <1>1, <1>3, <1>4, <1>5, <1>6, <1>7 DEF MainTurn

\* The same while RecvThread is still busy with the message.
LEMMA OverlapQuiet ==
    ASSUME IInv, NEW m \in Screens, m = at["main"], pc["main"] \in {"run", "flag"}, Handling,
           NEW l \in {"flag", "choose"}, pc' = [pc EXCEPT !["main"] = l], at' = at, to' = to,
           proc' \in [Screens -> Proc], Others2(m), proc'[m].show = proc[m].show,
           proc'[m].oper = proc[m].oper, l = "choose" => proc'[m].endFlag = 0,
           rights' = rights, pos' = pos, msg' = msg, network' = network
    PROVE  IInv'
  <1>1. PICK p \in Screens : Overlap(m, p)
    <2>1. ~MainTurn
      BY DEF MainTurn
    <2>2. \A x \in Screens : ~Ready(x) /\ ~Waiting(x) /\ ~Again(x)
      BY DEF Ready, Waiting, Again
    <2>3. PICK x \in Screens, p \in Screens : Overlap(x, p)
      BY <2>1, <2>2 DEF IInv, Stage
    <2> QED BY <2>3 DEF Overlap
  <1>2. /\ Typed' /\ Handling' /\ pc'["main"] = l /\ pc'["recv"] = pc["recv"]
        /\ NoFlight' /\ granted' = granted /\ Login(m)'
    <2>1. Typed /\ l \in MainPlaces \ {"exited"} /\ NoFlight /\ Login(m)
      BY <1>1 DEF IInv, MainPlaces, Overlap
    <2>2. /\ Typed' /\ (Handling' <=> Handling) /\ pc'["main"] = l /\ pc'["recv"] = pc["recv"]
      BY <2>1, MainTyped, SameNet
    <2> QED BY <2>1, <2>2, SameNet, SameLogin
  <1>3. Fits' /\ Rightful'
    BY <1>2, OpersForgotten
  <1>4. NoneShown'
    BY <1>1 DEF Overlap, NoneShown, Others2
  <1>5. \A x \in Screens \ {m, p} : ~proc'[x].running /\ proc'[x].oper = NoOper
    BY <1>1 DEF Overlap, Others2
  <1>6. p # m => proc'[p] = proc[p]
    BY DEF Others2
  <1>7. /\ pc["recv"] \in {"check", "stop", "forget", "switch", "scan"}
        /\ m # p =>
              /\ proc'[m].oper = NoOper
              /\ pc["recv"] \in {"check", "stop"} => proc'[p].endFlag # 0
              /\ pc["recv"] \in {"forget", "switch", "scan"} => ~proc'[p].running
              /\ pc["recv"] \in {"switch", "scan"} => proc'[p].oper = NoOper
        /\ pc["recv"] = "scan" => m \in Menus \/ \A i \in pos..Len(Order) : Order[i] # m
        /\ at["main"] = m /\ at["recv"] = p /\ p \notin Menus /\ to["recv"] = "none"
        /\ m = p \/ m \in Menus
    BY <1>1, <1>6 DEF Overlap
  <1>8. Overlap(m, p)'
    BY <1>2, <1>4, <1>5, <1>7 DEF Overlap
  <1>9. Stage' /\ pc'["main"] # "exited"
    BY <1>2, <1>8 DEF Stage
  <1> QED BY <1>2, <1>3, <1>9, Together

LEMMA RunGood ==
    ASSUME IInv, Run
    PROVE  IInv'
  <1>0. PICK m \in Screens : m = at["main"]
    BY DEF IInv, Typed, Threads
  <1>1. /\ pc["main"] = "run" /\ pc' = [pc EXCEPT !["main"] = "flag"] /\ at' = at /\ to' = to
        /\ proc' = [proc EXCEPT ![m].running = TRUE]
        /\ rights' = rights /\ pos' = pos /\ msg' = msg /\ network' = network
    BY <1>0 DEF Run, Goto, network
  <1>2. /\ proc' \in [Screens -> Proc] /\ Others2(m)
        /\ proc'[m] = [proc[m] EXCEPT !.running = TRUE] /\ proc[m] \in Proc
    <2>1. proc \in [Screens -> Proc] /\ proc[m] \in Proc
      BY DEF IInv, Typed
    <2>2. proc'[m] = [proc[m] EXCEPT !.running = TRUE] /\ DOMAIN proc' = Screens
      BY <1>1, <2>1
    <2>3. \A x \in Screens : x # m => proc'[x] = proc[x]
      BY <1>1, <2>1
    <2>4. [proc[m] EXCEPT !.running = TRUE] \in Proc
      BY <2>1, FlagsAre DEF Proc
    <2>5. \A x \in Screens : proc'[x] \in Proc
      BY <2>1, <2>2, <2>3, <2>4
    <2>6. proc' = [x \in Screens |-> proc'[x]]
      BY <1>1, <2>1
    <2>7. proc' \in [Screens -> Proc]
      BY <2>5, <2>6
    <2> QED BY <2>1, <2>2, <2>3, <2>7 DEF Others2
  <1>3. /\ proc'[m].show = proc[m].show /\ proc'[m].oper = proc[m].oper
        /\ proc'[m].errors = proc[m].errors /\ proc'[m].endFlag = proc[m].endFlag
    BY <1>2 DEF Proc
  <1>4. "flag" \in MainPlaces \ {"exited"}
    BY DEF MainPlaces
  <1>5. CASE Handling
    BY <1>0, <1>1, <1>2, <1>3, <1>5, OverlapQuiet
  <1>6. CASE ~Handling
    <2>1. /\ MainTurn /\ Typed' /\ ~Handling' /\ pc'["main"] = "flag" /\ at'["main"] = m
          /\ NoFlight' /\ granted' = granted /\ \A p : Login(p)' = Login(p)
          /\ Others(m) /\ Others(m)'
          /\ \A q \in Screens : ~proc[q].show /\ (q # m => ~proc'[q].show)
      BY <1>0, <1>1, <1>2, <1>4, <1>6, MainQuiet
    <2>2. Fits' /\ Rightful'
      BY <1>2, <1>3, <2>1, OpersForgotten
    <2>3. NoneShown'
      BY <1>3, <2>1 DEF NoneShown
    <2>4. Login(m)
      BY <1>0, <1>1, <2>1 DEF MainTurn
    <2>5. MainTurn'
      BY <1>3, <2>1, <2>3, <2>4 DEF MainTurn
    <2> QED BY <2>1, <2>2, <2>5, Together DEF Stage
  <1> QED BY <1>5, <1>6

LEMMA FlagGood ==
    ASSUME IInv, Flag
    PROVE  IInv'
  <1>0. PICK m \in Screens : m = at["main"]
    BY DEF IInv, Typed, Threads
  <1>1. /\ pc["main"] = "flag" /\ pc' = [pc EXCEPT !["main"] = "choose"] /\ at' = at /\ to' = to
        /\ proc' = [proc EXCEPT ![m].endFlag = 0, ![m].errors = 0]
        /\ rights' = rights /\ pos' = pos /\ msg' = msg /\ network' = network
    BY <1>0 DEF Flag, Goto, network
  <1>2. /\ proc' \in [Screens -> Proc] /\ Others2(m)
        /\ proc'[m] = [proc[m] EXCEPT !.endFlag = 0, !.errors = 0] /\ proc[m] \in Proc
    <2>1. proc \in [Screens -> Proc] /\ proc[m] \in Proc
      BY DEF IInv, Typed
    <2>2. proc'[m] = [proc[m] EXCEPT !.endFlag = 0, !.errors = 0] /\ DOMAIN proc' = Screens
      BY <1>1, <2>1
    <2>3. \A x \in Screens : x # m => proc'[x] = proc[x]
      BY <1>1, <2>1
    <2>4. [proc[m] EXCEPT !.endFlag = 0, !.errors = 0] \in Proc
      BY <2>1, FlagsAre DEF Proc
    <2>5. \A x \in Screens : proc'[x] \in Proc
      BY <2>1, <2>2, <2>3, <2>4
    <2>6. proc' = [x \in Screens |-> proc'[x]]
      BY <1>1, <2>1
    <2>7. proc' \in [Screens -> Proc]
      BY <2>5, <2>6
    <2> QED BY <2>1, <2>2, <2>3, <2>7 DEF Others2
  <1>3. /\ proc'[m].show = proc[m].show /\ proc'[m].oper = proc[m].oper
        /\ proc'[m].errors = 0 /\ proc'[m].endFlag = 0
    BY <1>2 DEF Proc
  <1>4. "choose" \in MainPlaces \ {"exited"}
    BY DEF MainPlaces
  <1>5. CASE Handling
    BY <1>0, <1>1, <1>2, <1>3, <1>5, OverlapQuiet
  <1>6. CASE ~Handling
    <2>1. /\ MainTurn /\ Typed' /\ ~Handling' /\ pc'["main"] = "choose" /\ at'["main"] = m
          /\ NoFlight' /\ granted' = granted /\ \A p : Login(p)' = Login(p)
          /\ Others(m) /\ Others(m)'
          /\ \A q \in Screens : ~proc[q].show /\ (q # m => ~proc'[q].show)
      BY <1>0, <1>1, <1>2, <1>4, <1>6, MainQuiet
    <2>2. Fits' /\ Rightful'
      BY <1>2, <1>3, <2>1, OpersForgotten
    <2>3. NoneShown'
      BY <1>3, <2>1 DEF NoneShown
    <2>4. Login(m)
      BY <1>0, <1>1, <2>1 DEF MainTurn
    <2>5. MainTurn'
      BY <1>3, <2>1, <2>3, <2>4 DEF MainTurn
    <2> QED BY <2>1, <2>2, <2>5, Together DEF Stage
  <1> QED BY <1>5, <1>6

\* The user picks an operation of the screen that its rights have, which are those of
\* the session unless the screen is the first one.
LEMMA ChooseOperGood ==
    ASSUME IInv, pc["main"] = "choose", UserReady, NEW o \in Offered(at["main"]), ChooseOper(o)
    PROVE  IInv'
  <1>0. PICK m \in Screens : m = at["main"]
    BY DEF IInv, Typed, Threads
  <1>01. o \in Operations /\ o \in rights /\ ScreenOf[o] = m /\ After[o] \in Screens
    <2>1. o \in Operations /\ o \in rights /\ ScreenOf[o] = m
      BY <1>0 DEF Offered, IInv, Typed
    <2>2. After[o] \in Screens
      BY <2>1, OperationsAre, ScreensAre
    <2> QED BY <2>1, <2>2
  <1>1. /\ pc' = [pc EXCEPT !["main"] = "input"] /\ at' = at /\ to' = to
        /\ proc' = [proc EXCEPT ![m].choice = After[o], ![m].oper = o]
        /\ rights' = rights /\ pos' = pos /\ msg' = msg /\ network' = network
    BY <1>0 DEF ChooseOper, Goto, network
  <1>2. /\ proc' \in [Screens -> Proc] /\ Others2(m)
        /\ proc'[m] = [proc[m] EXCEPT !.choice = After[o], !.oper = o] /\ proc[m] \in Proc
    <2>1. proc \in [Screens -> Proc] /\ proc[m] \in Proc
      BY DEF IInv, Typed
    <2>2. proc'[m] = [proc[m] EXCEPT !.choice = After[o], !.oper = o] /\ DOMAIN proc' = Screens
      BY <1>1, <2>1
    <2>3. \A x \in Screens : x # m => proc'[x] = proc[x]
      BY <1>1, <2>1
    <2>4. [proc[m] EXCEPT !.choice = After[o], !.oper = o] \in Proc
      BY <2>1, <1>01, FlagsAre DEF Proc
    <2>5. \A x \in Screens : proc'[x] \in Proc
      BY <2>1, <2>2, <2>3, <2>4
    <2>6. proc' = [x \in Screens |-> proc'[x]]
      BY <1>1, <2>1
    <2>7. proc' \in [Screens -> Proc]
      BY <2>5, <2>6
    <2> QED BY <2>1, <2>2, <2>3, <2>7 DEF Others2
  <1>3. /\ proc'[m].show = proc[m].show /\ proc'[m].oper = o
        /\ proc'[m].errors = proc[m].errors /\ proc'[m].endFlag = proc[m].endFlag
    BY <1>2 DEF Proc
  <1>4. "input" \in MainPlaces \ {"exited"}
    BY DEF MainPlaces
  <1>5. /\ MainTurn /\ Typed' /\ ~Handling' /\ pc'["main"] = "input" /\ at'["main"] = m
        /\ NoFlight' /\ granted' = granted /\ \A p : Login(p)' = Login(p)
        /\ Others(m) /\ Others(m)'
        /\ \A q \in Screens : ~proc[q].show /\ (q # m => ~proc'[q].show)
    BY <1>0, <1>1, <1>2, <1>4, MainQuiet
  <1>6. Login(m) /\ proc[m].endFlag = 0
    BY <1>0, <1>5 DEF MainTurn
  <1>7. o \in granted \cup LoginOpers
    <2>1. CASE m = "enter"
      BY <1>01, <2>1, OperationsAre
    <2>2. CASE m # "enter"
      BY <1>01, <1>6, <2>2 DEF Login, LoggedIn
    <2> QED BY <2>1, <2>2
  <1>8. Fits' /\ Rightful'
    <2>1. ASSUME NEW q \in Screens
          PROVE  /\ proc'[q].oper # NoOper => ScreenOf[proc'[q].oper] = q
                 /\ proc'[q].oper \in granted \cup LoginOpers \cup {NoOper}
      <3>1. CASE q = m
        BY <1>01, <1>3, <1>7, <3>1
      <3>2. CASE q # m
        <4>1. proc'[q] = proc[q]
          BY <1>2, <3>2 DEF Others2
        <4> QED BY <4>1 DEF IInv, Fits, Rightful
      <3> QED BY <3>1, <3>2
    <2> QED BY <1>5, <2>1 DEF Fits, Rightful
  <1>9. NoneShown'
    BY <1>3, <1>5 DEF NoneShown
  <1>10. MainTurn'
    <2>1. o # NoOper
      BY <1>01, OperationsAre
    <2> QED BY <1>3, <1>5, <1>6, <1>9, <2>1 DEF MainTurn
  <1> QED BY <1>5, <1>8, <1>10, Together DEF Stage

LEMMA ChooseScreenGood ==
    ASSUME IInv, pc["main"] = "choose", UserReady, NEW q \in LeadsTo[at["main"]], ChooseScreen(q)
    PROVE  IInv'
  <1>0. PICK m \in Screens : m = at["main"]
    BY DEF IInv, Typed, Threads
  <1>01. q \in Screens /\ q # "exit" /\ (q = "enter" => m = "common") /\ m # "enter"
    <2>1. q \in Screens
      BY ScreensAssumption DEF ChooseScreen
    <2>2. q # "exit"
      BY <2>1, ScreensAre
    <2> QED BY <1>0, <2>1, <2>2, LeadsToAre
  <1>1. /\ pc' = [pc EXCEPT !["main"] = "check"] /\ at' = at /\ to' = [to EXCEPT !["main"] = q]
        /\ proc' = [proc EXCEPT ![m].choice = q, ![m].endFlag = 1]
        /\ rights' = rights /\ pos' = pos /\ msg' = msg /\ network' = network
    BY <1>0 DEF ChooseScreen, Goto, network
  <1>2. /\ proc' \in [Screens -> Proc] /\ Others2(m)
        /\ proc'[m] = [proc[m] EXCEPT !.choice = q, !.endFlag = 1] /\ proc[m] \in Proc
    <2>1. proc \in [Screens -> Proc] /\ proc[m] \in Proc
      BY DEF IInv, Typed
    <2>2. proc'[m] = [proc[m] EXCEPT !.choice = q, !.endFlag = 1] /\ DOMAIN proc' = Screens
      BY <1>1, <2>1
    <2>3. \A x \in Screens : x # m => proc'[x] = proc[x]
      BY <1>1, <2>1
    <2>4. [proc[m] EXCEPT !.choice = q, !.endFlag = 1] \in Proc
      BY <2>1, <1>01, FlagsAre DEF Proc
    <2>5. \A x \in Screens : proc'[x] \in Proc
      BY <2>1, <2>2, <2>3, <2>4
    <2>6. proc' = [x \in Screens |-> proc'[x]]
      BY <1>1, <2>1
    <2>7. proc' \in [Screens -> Proc]
      BY <2>5, <2>6
    <2> QED BY <2>1, <2>2, <2>3, <2>7 DEF Others2
  <1>3. /\ proc'[m].show = proc[m].show /\ proc'[m].oper = proc[m].oper /\ proc'[m].choice = q
        /\ proc'[m].errors = proc[m].errors /\ proc'[m].endFlag = 1 /\ to'["main"] = q
    BY <1>1, <1>2 DEF Proc, IInv, Typed, Threads
  <1>4. "check" \in MainPlaces \ {"exited"}
    BY DEF MainPlaces
  <1>5. /\ MainTurn /\ Typed' /\ ~Handling' /\ pc'["main"] = "check" /\ at'["main"] = m
        /\ NoFlight' /\ granted' = granted /\ \A p : Login(p)' = Login(p)
        /\ Others(m) /\ Others(m)'
        /\ \A r \in Screens : ~proc[r].show /\ (r # m => ~proc'[r].show)
    BY <1>0, <1>1, <1>2, <1>4, <1>01, MainQuiet
  <1>6. Fits' /\ Rightful'
    BY <1>2, <1>3, <1>5, OpersForgotten
  <1>7. NoneShown'
    BY <1>3, <1>5 DEF NoneShown
  <1>8. Login(m)
    BY <1>0, <1>5 DEF MainTurn
  <1>9. MainTurn'
    BY <1>3, <1>5, <1>7, <1>8, <1>01 DEF MainTurn
  <1> QED BY <1>5, <1>6, <1>9, Together DEF Stage

LEMMA ChooseExitGood ==
    ASSUME IInv, pc["main"] = "choose", UserReady, NEW q \in LeadsTo[at["main"]], ChooseExit(q)
    PROVE  IInv'
  <1>1. /\ pc' = [t \in Threads |-> "exited"] /\ network' = network
        /\ UNCHANGED <<proc, rights, at, to, pos, msg>>
    BY DEF ChooseExit, ExitProgram, network
  <1>2. pc'["main"] = "exited" /\ pc'["recv"] = "exited"
    BY <1>1 DEF Threads
  <1>3. ~Handling
    BY IsMainTurn DEF IInv, MainTurn
  <1>4. to["recv"] = "none"
    BY <1>3 DEF IInv, Typed, Handling, AtScreen
  <1>5. Typed'
    BY <1>1, <1>2, <1>4 DEF IInv, Typed, network, MainPlaces, AtScreen, Threads
  <1>6. Fits' /\ Rightful' /\ OneFlight'
    BY <1>1 DEF IInv, Fits, Rightful, OneFlight, network, NoFlight, Exits, Await, Asked1,
                Answered1
  <1> QED BY <1>2, <1>5, <1>6 DEF IInv, Stage

LEMMA ChooseWrongGood ==
    ASSUME IInv, pc["main"] = "choose", UserReady, ChooseWrong
    PROVE  IInv'
  <1>0. PICK m \in Screens : m = at["main"]
    BY DEF IInv, Typed, Threads
  <1>1. /\ pc' = [pc EXCEPT !["main"] = "notify"] /\ at' = at /\ to' = to
        /\ proc' = [[proc EXCEPT ![m].show = TRUE] EXCEPT ![m].choice = "none"]
        /\ rights' = rights /\ pos' = pos /\ msg' = msg /\ network' = network
    BY <1>0 DEF ChooseWrong, Goto, network, Shown
  <1>2. /\ proc' \in [Screens -> Proc] /\ Others2(m)
        /\ proc'[m] = [proc[m] EXCEPT !.show = TRUE, !.choice = "none"] /\ proc[m] \in Proc
    <2>1. proc \in [Screens -> Proc] /\ proc[m] \in Proc
      BY DEF IInv, Typed
    <2>2. proc'[m] = [proc[m] EXCEPT !.show = TRUE, !.choice = "none"] /\ DOMAIN proc' = Screens
      BY <1>1, <2>1
    <2>3. \A x \in Screens : x # m => proc'[x] = proc[x]
      BY <1>1, <2>1
    <2>4. [proc[m] EXCEPT !.show = TRUE, !.choice = "none"] \in Proc
      BY <2>1, FlagsAre DEF Proc
    <2>5. \A x \in Screens : proc'[x] \in Proc
      BY <2>1, <2>2, <2>3, <2>4
    <2>6. proc' = [x \in Screens |-> proc'[x]]
      BY <1>1, <2>1
    <2>7. proc' \in [Screens -> Proc]
      BY <2>5, <2>6
    <2> QED BY <2>1, <2>2, <2>3, <2>7 DEF Others2
  <1>3. /\ proc'[m].show = TRUE /\ proc'[m].oper = proc[m].oper
        /\ proc'[m].errors = proc[m].errors /\ proc'[m].endFlag = proc[m].endFlag
    BY <1>2 DEF Proc
  <1>4. "notify" \in MainPlaces \ {"exited"}
    BY DEF MainPlaces
  <1>5. /\ MainTurn /\ Typed' /\ ~Handling' /\ pc'["main"] = "notify" /\ at'["main"] = m
        /\ NoFlight' /\ granted' = granted /\ \A p : Login(p)' = Login(p)
        /\ Others(m) /\ Others(m)'
        /\ \A q \in Screens : ~proc[q].show /\ (q # m => ~proc'[q].show)
    BY <1>0, <1>1, <1>2, <1>4, MainQuiet
  <1>6. Fits' /\ Rightful'
    BY <1>2, <1>3, <1>5, OpersForgotten
  <1>7. OneShown(m)'
    BY <1>3, <1>5 DEF OneShown
  <1>8. Login(m)
    BY <1>0, <1>5 DEF MainTurn
  <1>9. Ready(m)'
    BY <1>3, <1>5, <1>7, <1>8 DEF Ready
  <1> QED BY <1>5, <1>6, <1>9, Together DEF Stage

LEMMA ChooseGood ==
    ASSUME IInv, Choose
    PROVE  IInv'
  BY ChooseOperGood, ChooseScreenGood, ChooseExitGood, ChooseWrongGood DEF Choose

\* The main thread sends the first request, and waits for its answer.
LEMMA MainSends ==
    ASSUME IInv, NEW m \in Screens, m = at["main"], pc["main"] = "input",
           SendRequest(Head(Steps[proc[m].oper]), proc[m].oper), Goto("main", "notify"),
           proc' = proc \/ proc' = [proc EXCEPT ![m].errors = 0],
           UNCHANGED <<rights, at, to, pos, msg>>
    PROVE  IInv'
  <1>1. MainTurn /\ Typed
    BY IsMainTurn DEF IInv
  <1>2. /\ proc[m].oper \in Operations /\ proc[m].endFlag = 0 /\ m \notin Menus
        /\ NoFlight /\ NoneShown /\ Others(m) /\ Login(m) /\ ~Handling
    <2>1. proc[m].oper \in Operations \cup {NoOper} /\ proc[m].oper # NoOper
      BY <1>1 DEF MainTurn, Typed, Proc
    <2>2. ScreenOf[proc[m].oper] = m
      BY <2>1 DEF IInv, Fits
    <2>3. m \notin Menus
      BY <2>1, <2>2, OperationsAre
    <2> QED BY <1>1, <2>1, <2>3 DEF MainTurn
  <1>3. PICK o \in Operations : o = proc[m].oper
    BY <1>2
  <1>4. PICK k \in Range(Steps[o]) : k = Head(Steps[o])
    BY KindsAre
  <1>5. /\ requests' = Append(requests, [kind |-> k, oper |-> o]) /\ inbox' = inbox
        /\ sent' = sent + 1 /\ sent < MaxSent /\ session' = session /\ granted' = granted
    BY <1>3, <1>4 DEF SendRequest, CanSend
  <1>6. Await(o)' /\ (ExitSent' <=> ExitSent) /\ NetTyped'
    BY <1>1, <1>2, <1>5, SendFlight DEF Typed, NetTyped
  <1>7. /\ proc' \in [Screens -> Proc] /\ Others2(m)
        /\ proc'[m].show = proc[m].show /\ proc'[m].oper = o /\ proc'[m].endFlag = 0
        /\ proc'[m].errors = proc[m].errors \/ proc'[m].errors = 0
    <2>1. CASE proc' = proc
      BY <1>1, <1>2, <1>3, <2>1 DEF Typed, Others2
    <2>2. CASE proc' = [proc EXCEPT ![m].errors = 0]
      <3>1. /\ proc \in [Screens -> Proc] /\ proc[m] \in Proc
        BY <1>1 DEF Typed
      <3>2. proc'[m] = [proc[m] EXCEPT !.errors = 0] /\ DOMAIN proc' = Screens
        BY <2>2, <3>1
      <3>3. \A x \in Screens : x # m => proc'[x] = proc[x]
        BY <2>2, <3>1
      <3>4. [proc[m] EXCEPT !.errors = 0] \in Proc
        BY <3>1, FlagsAre DEF Proc
      <3>5. \A x \in Screens : proc'[x] \in Proc
        BY <3>1, <3>2, <3>3, <3>4
      <3>6. proc' = [x \in Screens |-> proc'[x]]
        BY <2>2, <3>1
      <3>7. proc' \in [Screens -> Proc]
        BY <3>5, <3>6
      <3>8. /\ proc'[m].show = proc[m].show /\ proc'[m].oper = proc[m].oper
            /\ proc'[m].endFlag = proc[m].endFlag /\ proc'[m].errors = 0
        BY <3>1, <3>2 DEF Proc
      <3> QED BY <1>2, <1>3, <3>3, <3>7, <3>8 DEF Others2
    <2> QED BY <2>1, <2>2
  <1>8. /\ Typed' /\ ~Handling' /\ pc'["main"] = "notify"
    <2>1. "notify" \in MainPlaces \ {"exited"} /\ pc' = [pc EXCEPT !["main"] = "notify"]
      BY DEF MainPlaces, Goto
    <2>2. sent' \in 0..MaxSent
      BY <1>1, <1>5, ScreensAssumption DEF Typed
    <2> QED BY <1>1, <1>2, <1>5, <1>6, <1>7, <2>1, <2>2, MainTyped
  <1>9. Fits' /\ Rightful'
    <2>1. proc'[m].oper = proc[m].oper
      BY <1>3, <1>7
    <2> QED BY <1>5, <1>7, <2>1, OpersForgotten
  <1>10. NoneShown' /\ Others(m)'
    BY <1>2, <1>7 DEF NoneShown, Others, Others2
  <1>11. Waiting(m)'
    <2>1. o # NoOper
      BY OperationsAre
    <2> QED BY <1>2, <1>6, <1>7, <1>8, <1>10, <2>1 DEF Waiting
  <1>12. Login(m)' = Login(m)
    BY <1>5, <1>6, SameLogin
  <1>13. IF m = "enter" THEN LoginTold' ELSE LoggedIn'
    <2>1. \A i \in 1..Len(inbox') : inbox'[i].kind = "exit"
      BY <1>2, <1>5 DEF NoFlight, Exits
    <2> QED BY <1>2, <1>8, <1>12, <2>1 DEF Login, LoginTold
  <1> QED BY <1>8, <1>9, <1>11, <1>13, Together DEF Stage

LEMMA MainSendUnaskedGood ==
    ASSUME IInv, SendUnasked("main")
    PROVE  IInv'
  <1>0. PICK m \in Screens : m = at["main"]
    BY DEF IInv, Typed, Threads
  <1>1. pc["main"] = "input" /\ proc[m].oper # NoOper
    BY <1>0, IsMainTurn DEF SendUnasked, IInv, MainTurn
  <1>2. SendRequest(Head(Steps[proc[m].oper]), proc[m].oper) /\ Goto("main", "notify")
    BY <1>0, <1>1 DEF SendUnasked, FirstKind, Return
  <1> QED BY <1>0, <1>1, <1>2, MainSends DEF SendUnasked

LEMMA MainInputGoodGood ==
    ASSUME IInv, InputGood("main")
    PROVE  IInv'
  <1>0. PICK m \in Screens : m = at["main"]
    BY DEF IInv, Typed, Threads
  <1>1. pc["main"] = "input" /\ proc[m].oper # NoOper
    BY <1>0, IsMainTurn DEF InputGood, IInv, MainTurn
  <1>2. SendRequest(Head(Steps[proc[m].oper]), proc[m].oper) /\ Goto("main", "notify")
    BY <1>0, <1>1 DEF InputGood, FirstKind, Return
  <1>3. proc' = proc \/ proc' = [proc EXCEPT ![m].errors = 0]
    BY <1>0 DEF InputGood
  <1> QED BY <1>0, <1>1, <1>2, <1>3, MainSends DEF InputGood

\* A bad input ends the screen, which is then to be shown again.
LEMMA MainGivesUp ==
    ASSUME IInv, pc["main"] = "input", GiveUp("main"), UNCHANGED <<rights, at, pos, msg, network>>
    PROVE  IInv'
  <1>0. PICK m \in Screens : m = at["main"]
    BY DEF IInv, Typed, Threads
  <1>1. /\ pc' = [pc EXCEPT !["main"] = "check"] /\ at' = at /\ to' = [to EXCEPT !["main"] = m]
        /\ proc' = [proc EXCEPT ![m].errors = @ + 1, ![m].endFlag = -1]
        /\ rights' = rights /\ pos' = pos /\ msg' = msg /\ network' = network
    BY <1>0 DEF GiveUp, Goto, network
  <1>01. proc[m].errors + 1 \in Nat /\ proc[m].oper # NoOper /\ Login(m) /\ m \notin Menus
    <2>1. /\ proc[m].endFlag = 0 /\ proc[m].oper # NoOper /\ Login(m) /\ proc[m].errors \in Nat
          /\ proc[m].oper \in Operations \cup {NoOper}
      BY <1>0, IsMainTurn DEF IInv, MainTurn, Typed, Proc
    <2>3. proc[m].errors + 1 \in Nat
      BY <2>1
    <2>4. m \notin Menus
      BY <2>1, OperationsAre DEF IInv, Fits
    <2> QED BY <2>1, <2>3, <2>4
  <1>2. /\ proc' \in [Screens -> Proc] /\ Others2(m)
        /\ proc'[m] = [proc[m] EXCEPT !.errors = proc[m].errors + 1, !.endFlag = -1] /\ proc[m] \in Proc
    <2>1. proc \in [Screens -> Proc] /\ proc[m] \in Proc
      BY DEF IInv, Typed
    <2>2. proc'[m] = [proc[m] EXCEPT !.errors = proc[m].errors + 1, !.endFlag = -1] /\ DOMAIN proc' = Screens
      BY <1>1, <2>1
    <2>3. \A x \in Screens : x # m => proc'[x] = proc[x]
      BY <1>1, <2>1
    <2>4. [proc[m] EXCEPT !.errors = proc[m].errors + 1, !.endFlag = -1] \in Proc
      BY <2>1, <1>01, FlagsAre DEF Proc
    <2>5. \A x \in Screens : proc'[x] \in Proc
      BY <2>1, <2>2, <2>3, <2>4
    <2>6. proc' = [x \in Screens |-> proc'[x]]
      BY <1>1, <2>1
    <2>7. proc' \in [Screens -> Proc]
      BY <2>5, <2>6
    <2> QED BY <2>1, <2>2, <2>3, <2>7 DEF Others2
  <1>3. /\ proc'[m].show = proc[m].show /\ proc'[m].oper = proc[m].oper
        /\ proc'[m].endFlag = -1 /\ to'["main"] = m
    BY <1>1, <1>2 DEF Proc, IInv, Typed, Threads
  <1>4. "check" \in MainPlaces \ {"exited"}
    BY DEF MainPlaces
  <1>5. /\ MainTurn /\ Typed' /\ ~Handling' /\ pc'["main"] = "check" /\ at'["main"] = m
        /\ NoFlight' /\ granted' = granted /\ \A p : Login(p)' = Login(p)
        /\ Others(m) /\ Others(m)'
        /\ \A q \in Screens : ~proc[q].show /\ (q # m => ~proc'[q].show)
    BY <1>0, <1>1, <1>2, <1>4, MainQuiet
  <1>6. Fits' /\ Rightful'
    BY <1>2, <1>3, <1>5, OpersForgotten
  <1>7. NoneShown'
    BY <1>3, <1>5 DEF NoneShown
  <1>8. m # "common"
    BY <1>01 DEF Menus
  <1>9. MainTurn'
    <2>1. proc'[m].endFlag # 0
      BY <1>3
    <2> QED BY <1>3, <1>5, <1>7, <1>8, <1>01, <2>1 DEF MainTurn
  <1> QED BY <1>5, <1>6, <1>9, Together DEF Stage

LEMMA MainInputBadGood ==
    ASSUME IInv, InputBad("main")
    PROVE  IInv'
  <1>0. PICK m \in Screens : m = at["main"]
    BY DEF IInv, Typed, Threads
  <1>01. pc["main"] = "input" /\ proc[m].oper # NoOper /\ proc[m].endFlag = 0 /\ Login(m)
    BY <1>0, IsMainTurn DEF InputBad, IInv, MainTurn
  <1>02. CASE GiveUp("main")
    BY <1>01, <1>02, MainGivesUp DEF InputBad
  <1>03. CASE /\ proc' = [proc EXCEPT ![m].errors = 1]
              /\ to' = to /\ pc' = pc
    <2>1. /\ pc' = [pc EXCEPT !["main"] = "input"] /\ at' = at /\ to' = to
          /\ rights' = rights /\ pos' = pos /\ msg' = msg /\ network' = network
      BY <1>01, <1>03 DEF InputBad, network, IInv, Typed, Threads
    <2>2. /\ proc' \in [Screens -> Proc] /\ Others2(m)
          /\ proc'[m] = [proc[m] EXCEPT !.errors = 1] /\ proc[m] \in Proc
      <3>1. proc \in [Screens -> Proc] /\ proc[m] \in Proc
        BY DEF IInv, Typed
      <3>2. proc'[m] = [proc[m] EXCEPT !.errors = 1] /\ DOMAIN proc' = Screens
        BY <1>03, <3>1
      <3>3. \A x \in Screens : x # m => proc'[x] = proc[x]
        BY <1>03, <3>1
      <3>4. [proc[m] EXCEPT !.errors = 1] \in Proc
        BY <3>1, FlagsAre DEF Proc
      <3>5. \A x \in Screens : proc'[x] \in Proc
        BY <3>1, <3>2, <3>3, <3>4
      <3>6. proc' = [x \in Screens |-> proc'[x]]
        BY <1>03, <3>1
      <3>7. proc' \in [Screens -> Proc]
        BY <3>5, <3>6
      <3> QED BY <3>1, <3>2, <3>3, <3>7 DEF Others2
    <2>3. /\ proc'[m].show = proc[m].show /\ proc'[m].oper = proc[m].oper
          /\ proc'[m].errors = 1 /\ proc'[m].endFlag = proc[m].endFlag
      BY <2>2 DEF Proc
    <2>4. "input" \in MainPlaces \ {"exited"}
      BY DEF MainPlaces
    <2>5. /\ MainTurn /\ Typed' /\ ~Handling' /\ pc'["main"] = "input" /\ at'["main"] = m
          /\ NoFlight' /\ granted' = granted /\ \A p : Login(p)' = Login(p)
          /\ Others(m) /\ Others(m)'
          /\ \A q \in Screens : ~proc[q].show /\ (q # m => ~proc'[q].show)
      BY <1>0, <1>01, <2>1, <2>2, <2>4, MainQuiet
    <2>6. Fits' /\ Rightful'
        BY <2>2, <2>3, <2>5, OpersForgotten
    <2>7. NoneShown'
      BY <2>3, <2>5 DEF NoneShown
    <2>8. MainTurn'
      BY <1>01, <2>3, <2>5, <2>7 DEF MainTurn
    <2> QED BY <2>5, <2>6, <2>8, Together DEF Stage
  <1> QED BY <1>0, <1>01, <1>02, <1>03 DEF InputBad

LEMMA MainFileBadGood ==
    ASSUME IInv, FileBad("main")
    PROVE  IInv'
  BY MainGivesUp DEF FileBad

\* CommonSysProc sends its exit when it leads to the first screen.
LEMMA MainCheckGood ==
    ASSUME IInv, EndRecvCheck("main")
    PROVE  IInv'
  <1>0. PICK m \in Screens : m = at["main"]
    BY DEF IInv, Typed, Threads
  <1>1. MainTurn /\ Typed /\ pc["main"] = "check"
    BY IsMainTurn DEF EndRecvCheck, IInv
  <1>2. /\ proc[m].endFlag # 0 /\ to["main"] \in Screens /\ NoFlight /\ NoneShown /\ Others(m)
        /\ (to["main"] = "enter" => m \in {"enter", "common"}) /\ ~Handling
        /\ m = "common" => proc[m].choice = to["main"]
        /\ IF m = "enter" THEN to["main"] = "enter" /\ Login(m) ELSE Login(m)
    BY <1>0, <1>1 DEF MainTurn
  <1>3. /\ pc' = [pc EXCEPT !["main"] = "stop"] /\ UNCHANGED <<proc, rights, at, to, pos, msg>>
        /\ IF Leaves(m) THEN SendRequest("exit", NoOper) ELSE network' = network
    BY <1>0, <1>2 DEF EndRecvCheck, Goto, network
  <1>4. /\ NetTyped' /\ NoFlight' /\ sent' \in 0..MaxSent /\ session' = session
        /\ granted' = granted /\ Login(to["main"])'
    <2>1. CASE Leaves(m)
      <3>1. /\ requests' = Append(requests, [kind |-> "exit", oper |-> NoOper]) /\ inbox' = inbox
            /\ sent' = sent + 1 /\ sent < MaxSent /\ session' = session /\ granted' = granted
        BY <1>3, <2>1 DEF SendRequest, CanSend
      <3>2. NoFlight' /\ ExitSent' /\ NetTyped'
        BY <1>1, <1>2, <3>1, ExitFlight, NetOfTyped
      <3>3. sent' \in 0..MaxSent
        BY <1>1, <3>1, ScreensAssumption DEF Typed
      <3>4. to["main"] = "enter"
        BY <1>2, <2>1 DEF Leaves
      <3>5. Login(to["main"])'
        BY <1>3, <3>2, <3>4 DEF Login, LoggedOut
      <3> QED BY <3>1, <3>2, <3>3, <3>5
    <2>2. CASE ~Leaves(m)
      <3>1. /\ NetTyped' /\ sent' \in 0..MaxSent /\ session' = session /\ granted' = granted
            /\ NoFlight' = NoFlight /\ ExitSent' = ExitSent
        BY <1>1, <1>3, <2>2, SameNet
      <3>2. LoggedIn' = LoggedIn /\ LoggedOut' = LoggedOut
        BY <1>3, <3>1, SameLogin
      <3>3. to["main"] = "enter" <=> m = "enter"
        BY <1>2, <2>2 DEF Leaves
      <3>4. Login(to["main"])'
        BY <1>2, <1>3, <3>2, <3>3 DEF Login
      <3> QED BY <1>2, <3>1, <3>4
    <2> QED BY <2>1, <2>2
  <1>5. /\ Typed' /\ ~Handling' /\ pc'["main"] = "stop"
    <2>1. "stop" \in MainPlaces \ {"exited"} /\ proc' \in [Screens -> Proc]
      BY <1>1, <1>3 DEF MainPlaces, Typed
    <2> QED BY <1>1, <1>2, <1>3, <1>4, <2>1, MainTyped
  <1>6. Others2(m)
    BY <1>3 DEF Others2
  <1>7. Fits' /\ Rightful'
    BY <1>3, <1>4, <1>6, OpersForgotten
  <1>8. NoneShown' /\ Others(m)'
    BY <1>2, <1>3 DEF NoneShown, Others
  <1>9. MainTurn'
    BY <1>0, <1>2, <1>3, <1>4, <1>5, <1>8 DEF MainTurn
  <1> QED BY <1>5, <1>7, <1>9, Together DEF Stage

LEMMA MainStopGood ==
    ASSUME IInv, EndRecvStop("main")
    PROVE  IInv'
  <1>0. PICK m \in Screens : m = at["main"]
    BY DEF IInv, Typed, Threads
  <1>1. /\ pc["main"] = "stop" /\ pc' = [pc EXCEPT !["main"] = "forget"] /\ at' = at /\ to' = to
        /\ proc' = [proc EXCEPT ![m].errors = 0, ![m].running = FALSE, ![m].choice = "none"]
        /\ rights' = rights /\ pos' = pos /\ msg' = msg /\ network' = network
    BY <1>0 DEF EndRecvStop, Stopped, Goto, network
  <1>2. /\ proc' \in [Screens -> Proc] /\ Others2(m)
        /\ proc'[m] = [proc[m] EXCEPT !.errors = 0, !.running = FALSE, !.choice = "none"] /\ proc[m] \in Proc
    <2>1. proc \in [Screens -> Proc] /\ proc[m] \in Proc
      BY DEF IInv, Typed
    <2>2. proc'[m] = [proc[m] EXCEPT !.errors = 0, !.running = FALSE, !.choice = "none"] /\ DOMAIN proc' = Screens
      BY <1>1, <2>1
    <2>3. \A x \in Screens : x # m => proc'[x] = proc[x]
      BY <1>1, <2>1
    <2>4. [proc[m] EXCEPT !.errors = 0, !.running = FALSE, !.choice = "none"] \in Proc
      BY <2>1, FlagsAre DEF Proc
    <2>5. \A x \in Screens : proc'[x] \in Proc
      BY <2>1, <2>2, <2>3, <2>4
    <2>6. proc' = [x \in Screens |-> proc'[x]]
      BY <1>1, <2>1
    <2>7. proc' \in [Screens -> Proc]
      BY <2>5, <2>6
    <2> QED BY <2>1, <2>2, <2>3, <2>7 DEF Others2
  <1>3. /\ proc'[m].show = proc[m].show /\ proc'[m].oper = proc[m].oper
        /\ proc'[m].errors = 0 /\ proc'[m].endFlag = proc[m].endFlag /\ ~proc'[m].running
    BY <1>2 DEF Proc
  <1>4. "forget" \in MainPlaces \ {"exited"}
    BY DEF MainPlaces
  <1>5. /\ MainTurn /\ Typed' /\ ~Handling' /\ pc'["main"] = "forget" /\ at'["main"] = m
        /\ NoFlight' /\ granted' = granted /\ \A p : Login(p)' = Login(p)
        /\ Others(m) /\ Others(m)'
        /\ \A q \in Screens : ~proc[q].show /\ (q # m => ~proc'[q].show)
    BY <1>0, <1>1, <1>2, <1>4, MainQuiet
  <1>6. Fits' /\ Rightful'
    BY <1>2, <1>3, <1>5, OpersForgotten
  <1>7. NoneShown'
    BY <1>3, <1>5 DEF NoneShown
  <1>8. /\ to["main"] \in Screens /\ (to["main"] = "enter" => m \in {"enter", "common"})
        /\ Login(to["main"])
    BY <1>0, <1>1, <1>5 DEF MainTurn
  <1>9. Login(to["main"])'
    <2>1. PICK q \in Screens : q = to["main"]
      BY <1>8
    <2>2. Login(q)'
      BY <1>5, <1>8, <2>1
    <2> QED BY <1>1, <2>1, <2>2 DEF Login
  <1>10. MainTurn'
    BY <1>1, <1>3, <1>5, <1>7, <1>8, <1>9 DEF MainTurn
  <1> QED BY <1>5, <1>6, <1>10, Together DEF Stage

LEMMA MainForgetGood ==
    ASSUME IInv, EndRecvForget("main")
    PROVE  IInv'
  <1>0. PICK m \in Screens : m = at["main"]
    BY DEF IInv, Typed, Threads
  <1>1. /\ pc["main"] = "forget" /\ pc' = [pc EXCEPT !["main"] = "switch"] /\ at' = at /\ to' = to
        /\ proc' = [proc EXCEPT ![m].oper = NoOper]
        /\ rights' = rights /\ pos' = pos /\ msg' = msg /\ network' = network
    BY <1>0 DEF EndRecvForget, Goto, network
  <1>2. /\ proc' \in [Screens -> Proc] /\ Others2(m)
        /\ proc'[m] = [proc[m] EXCEPT !.oper = NoOper] /\ proc[m] \in Proc
    <2>1. proc \in [Screens -> Proc] /\ proc[m] \in Proc
      BY DEF IInv, Typed
    <2>2. proc'[m] = [proc[m] EXCEPT !.oper = NoOper] /\ DOMAIN proc' = Screens
      BY <1>1, <2>1
    <2>3. \A x \in Screens : x # m => proc'[x] = proc[x]
      BY <1>1, <2>1
    <2>4. [proc[m] EXCEPT !.oper = NoOper] \in Proc
      BY <2>1, FlagsAre DEF Proc
    <2>5. \A x \in Screens : proc'[x] \in Proc
      BY <2>1, <2>2, <2>3, <2>4
    <2>6. proc' = [x \in Screens |-> proc'[x]]
      BY <1>1, <2>1
    <2>7. proc' \in [Screens -> Proc]
      BY <2>5, <2>6
    <2> QED BY <2>1, <2>2, <2>3, <2>7 DEF Others2
  <1>3. /\ proc'[m].show = proc[m].show /\ proc'[m].oper = NoOper /\ proc'[m].running = proc[m].running
        /\ proc'[m].errors = proc[m].errors /\ proc'[m].endFlag = proc[m].endFlag
    BY <1>2 DEF Proc
  <1>4. "switch" \in MainPlaces \ {"exited"}
    BY DEF MainPlaces
  <1>5. /\ MainTurn /\ Typed' /\ ~Handling' /\ pc'["main"] = "switch" /\ at'["main"] = m
        /\ NoFlight' /\ granted' = granted /\ \A p : Login(p)' = Login(p)
        /\ Others(m) /\ Others(m)'
        /\ \A q \in Screens : ~proc[q].show /\ (q # m => ~proc'[q].show)
    BY <1>0, <1>1, <1>2, <1>4, MainQuiet
  <1>6. Fits' /\ Rightful'
    BY <1>2, <1>3, <1>5, OpersForgotten
  <1>7. NoneShown'
    BY <1>3, <1>5 DEF NoneShown
  <1>8. /\ to["main"] \in Screens /\ (to["main"] = "enter" => m \in {"enter", "common"})
        /\ Login(to["main"]) /\ ~proc[m].running
    BY <1>0, <1>1, <1>5 DEF MainTurn
  <1>9. Login(to["main"])'
    <2>1. PICK q \in Screens : q = to["main"]
      BY <1>8
    <2>2. Login(q)'
      BY <1>5, <1>8, <2>1
    <2> QED BY <1>1, <2>1, <2>2 DEF Login
  <1>10. MainTurn'
    BY <1>1, <1>3, <1>5, <1>7, <1>8, <1>9 DEF MainTurn
  <1> QED BY <1>5, <1>6, <1>10, Together DEF Stage

LEMMA MainSwitchGood ==
    ASSUME IInv, Switch("main")
    PROVE  IInv'
  <1>0. PICK m \in Screens : m = at["main"]
    BY DEF IInv, Typed, Threads
  <1>01. /\ pc["main"] = "switch" /\ to["main"] \in Screens /\ Login(to["main"])
         /\ NoneShown /\ Others(m) /\ ~proc[m].running /\ proc[m].oper = NoOper
    BY <1>0, IsMainTurn DEF Switch, IInv, MainTurn
  <1>02. PICK q \in Screens : q = to["main"]
    BY <1>01
  <1>03. q # "none"
    BY ScreensAre
  <1>1. /\ pc' = [pc EXCEPT !["main"] = "notify"] /\ at' = at /\ to' = [to EXCEPT !["main"] = "none"]
        /\ proc' = [proc EXCEPT ![q].show = TRUE]
        /\ rights' = rights /\ pos' = pos /\ msg' = msg /\ network' = network
    BY <1>02, <1>03 DEF Switch, Shown, Return, Goto, network
  <1>2. /\ proc' \in [Screens -> Proc] /\ Others2(q)
        /\ proc'[q] = [proc[q] EXCEPT !.show = TRUE] /\ proc[q] \in Proc
    <2>1. proc \in [Screens -> Proc] /\ proc[q] \in Proc
      BY DEF IInv, Typed
    <2>2. proc'[q] = [proc[q] EXCEPT !.show = TRUE] /\ DOMAIN proc' = Screens
      BY <1>1, <2>1
    <2>3. \A x \in Screens : x # q => proc'[x] = proc[x]
      BY <1>1, <2>1
    <2>4. [proc[q] EXCEPT !.show = TRUE] \in Proc
      BY <2>1, FlagsAre DEF Proc
    <2>5. \A x \in Screens : proc'[x] \in Proc
      BY <2>1, <2>2, <2>3, <2>4
    <2>6. proc' = [x \in Screens |-> proc'[x]]
      BY <1>1, <2>1
    <2>7. proc' \in [Screens -> Proc]
      BY <2>5, <2>6
    <2> QED BY <2>1, <2>2, <2>3, <2>7 DEF Others2
  <1>3. /\ proc'[q].show = TRUE /\ proc'[q].oper = proc[q].oper /\ proc'[q].running = proc[q].running
        /\ proc'[q].errors = proc[q].errors /\ proc'[q].endFlag = proc[q].endFlag
    BY <1>2 DEF Proc
  <1>4. "notify" \in MainPlaces \ {"exited"}
    BY DEF MainPlaces
  <1>5. /\ Typed' /\ ~Handling' /\ pc'["main"] = "notify"
        /\ NoFlight' /\ granted' = granted /\ Login(q)'
    <2>1. Typed /\ NoFlight /\ ~Handling
      BY <1>01, IsMainTurn DEF IInv, MainTurn
    <2>2. /\ NetTyped' /\ sent' \in 0..MaxSent /\ session' = session /\ granted' = granted
          /\ NoFlight' = NoFlight /\ ExitSent' = ExitSent
      BY <1>1, <2>1, SameNet
    <2>3. Typed' /\ (Handling' <=> Handling) /\ pc'["main"] = "notify"
      BY <1>1, <1>2, <1>4, <1>01, <2>1, <2>2, MainTyped
    <2>4. Login(q)'
      BY <1>1, <1>01, <1>02, <2>2, SameLogin
    <2> QED BY <2>1, <2>2, <2>3, <2>4
  <1>6. Fits' /\ Rightful'
    BY <1>2, <1>3, <1>5, OpersForgotten
  <1>7. OneShown(q)'
    BY <1>2, <1>3, <1>01 DEF OneShown, NoneShown, Others2
  <1>8. Others(q)' /\ proc'[q].oper = NoOper
    <2>1. \A r \in Screens : ~proc[r].running /\ proc[r].oper = NoOper
      BY <1>01 DEF Others
    <2> QED BY <1>2, <1>3, <2>1 DEF Others, Others2
  <1>9. Ready(q)'
    BY <1>5, <1>7, <1>8 DEF Ready
  <1> QED BY <1>5, <1>6, <1>9, Together DEF Stage

LEMMA MainGood ==
    ASSUME IInv, MainSteps, ~early'
    PROVE  IInv'
  BY NotifyGood, RunGood, FlagGood, MainSendUnaskedGood, MainFileBadGood, MainCheckGood,
     MainStopGood, MainForgetGood, MainSwitchGood DEF MainSteps, EndRecv

------------------------------------------------------------------------------
(* The server, and the messages RecvThread takes *)

LEMMA WaitingKept ==
    ASSUME NEW p \in Screens, Waiting(p), UNCHANGED <<proc, pc, at, to, pos, msg>>,
           NoFlight => NoFlight', \A o \in Operations : Await(o) => Await(o)',
           proc[p].oper \in Operations
    PROVE  Waiting(p)'
  <1>1. (Await(proc[p].oper) \/ NoFlight) => (Await(proc[p].oper) \/ NoFlight)'
    <2>1. PICK o \in Operations : o = proc[p].oper
      OBVIOUS
    <2>2. (Await(o) \/ NoFlight) => (Await(o)' \/ NoFlight')
      OBVIOUS
    <2>3. Await(proc[p].oper)' = Await(o)'
      BY <2>1 DEF Await, Asked1, Answered1, Is
    <2> QED BY <2>1, <2>2, <2>3
  <1>2. Handling' = Handling /\ Others(p)' = Others(p) /\ NoneShown' = NoneShown
    BY DEF Handling, Others, NoneShown
  <1>3. Await(proc[p].oper) \/ NoFlight
    BY DEF Waiting
  <1> DEFINE o == proc[p].oper
  <1>4. (Await(o) \/ NoFlight)'
    BY <1>1, <1>3
  <1>5. /\ pc["main"] = "notify" /\ NoneShown /\ Others(p) /\ p \notin Menus /\ o # NoOper
    BY DEF Waiting
  <1>6. CASE ~Handling
    <2>1. proc[p].endFlag = 0
      BY <1>6 DEF Waiting
    <2> QED BY <1>2, <1>4, <1>5, <1>6, <2>1 DEF Waiting
  <1>7. CASE Handling
    <2>1. /\ Is(msg, o) /\ (msg.more => msg.ok /\ msg.kind \in Paged)
          /\ pc["recv"] \in AtScreen => at["recv"] = p
          /\ pc["recv"] \in {"ask", "input", "scan", "switch"} => proc[p].endFlag = 0
          /\ pc["recv"] \in {"ask", "input"} \/ proc[p].endFlag # 0 => NoFlight
          /\ pc["recv"] = "scan" =>
                msg.more \/ NoFlight \/ \A i \in pos..Len(Order) : Order[i] # p
          /\ IF pc["recv"] \in {"stop", "forget"} \/ (pc["recv"] = "check" /\ proc[p].endFlag # 0)
             THEN to["recv"] = p /\ proc[p].endFlag = -1
             ELSE to["recv"] = "none"
          /\ pc["recv"] = "forget" => ~proc[p].running
      BY <1>7 DEF Waiting
    <2>2. /\ Is(msg, o)' /\ (msg'.more => msg'.ok /\ msg'.kind \in Paged)
      BY <2>1 DEF Is
    <2> QED BY <1>2, <1>4, <1>5, <1>7, <2>1, <2>2 DEF Waiting
  <1> QED BY <1>6, <1>7

\* A step of the server, which no thread sees.
LEMMA StageKept ==
    ASSUME Typed, Stage, pc["main"] # "exited",
           UNCHANGED <<proc, pc, at, to, pos, msg>>,
           NoFlight => NoFlight', \A o \in Operations : Await(o) => Await(o)',
           NoFlight => \A x : Login(x) => Login(x)',
           LoggedIn /\ (\E p \in Screens \ {"enter"} : Waiting(p)) => LoggedIn',
           LoginTold /\ Waiting("enter") => LoginTold'
    PROVE  Stage'
  <1>1. CASE MainTurn
    <2>1. NoFlight' /\ \A x : Login(x) => Login(x)'
      BY <1>1 DEF MainTurn
    <2>2. /\ Handling' = Handling /\ NoneShown' = NoneShown /\ Others(at["main"])' = Others(at["main"])
      BY DEF Handling, NoneShown, Others
    <2>4. PICK m \in Screens, t \in Screens \cup {"none"} : m = at["main"] /\ t = to["main"]
      BY DEF Typed, Threads
    <2>5. (Login(m) => Login(m)') /\ (Login(t) => Login(t)')
      BY <2>1
    <2>6. (Login(at["main"]) => Login(at["main"])') /\ (Login(to["main"]) => Login(to["main"])')
      BY <2>4, <2>5 DEF Login
    <2>7. MainTurn'
      BY <1>1, <2>1, <2>2, <2>6 DEF MainTurn
    <2> QED BY <2>7 DEF Stage
  <1>2. ASSUME NEW q \in Screens, Ready(q) PROVE Stage'
    <2>1. NoFlight' /\ (Login(q) => Login(q)')
      BY <1>2 DEF Ready
    <2>2. /\ Handling' = Handling /\ OneShown(q)' = OneShown(q) /\ Others(q)' = Others(q)
          /\ Others(at["recv"])' = Others(at["recv"])
      BY DEF Handling, OneShown, Others
    <2>3. Ready(q)'
      BY <1>2, <2>1, <2>2 DEF Ready
    <2> QED BY <2>3 DEF Stage
  <1>3. ASSUME NEW p \in Screens, Waiting(p), IF p = "enter" THEN LoginTold ELSE LoggedIn
        PROVE  Stage'
    <2>1. proc[p].oper \in Operations
      BY <1>3 DEF Waiting, Typed, Proc
    <2>2. Waiting(p)'
      BY <1>3, <2>1, WaitingKept
    <2>3. IF p = "enter" THEN LoginTold' ELSE LoggedIn'
      BY <1>3
    <2> QED BY <2>2, <2>3 DEF Stage
  <1>5. ASSUME NEW m \in Screens, NEW p \in Screens, Overlap(m, p) PROVE Stage'
    <2>1. NoFlight' /\ (Login(m) => Login(m)')
      BY <1>5 DEF Overlap
    <2>2. Handling' = Handling /\ NoneShown' = NoneShown
      BY DEF Handling, NoneShown
    <2>3. Overlap(m, p)'
      BY <1>5, <2>1, <2>2 DEF Overlap
    <2> QED BY <2>3 DEF Stage
  <1>4. ASSUME NEW p \in Screens, Again(p) PROVE Stage'
    <2>1. NoFlight' /\ LoggedIn'
      <3>1. NoFlight /\ LoggedIn
        BY <1>4 DEF Again
      <3>2. Login("common") => Login("common")'
        BY <3>1
      <3> QED BY <3>1, <3>2 DEF Login
    <2>2. /\ Handling' = Handling /\ NoneShown' = NoneShown /\ Others(p)' = Others(p)
      BY DEF Handling, NoneShown, Others
    <2>3. Again(p)'
      BY <1>4, <2>1, <2>2 DEF Again
    <2> QED BY <2>3 DEF Stage
  <1> QED BY <1>1, <1>2, <1>3, <1>4, <1>5 DEF Stage

LEMMA ServerTyped ==
    ASSUME Typed, UNCHANGED <<proc, rights, pc, at, to, pos, msg>>, NetTyped', sent' = sent,
           session' \in {"none", "in", "kicked"}, granted' \subseteq Operations
    PROVE  Typed'
  BY DEF Typed, NetTyped

LEMMA EnterWaits ==
    ASSUME IInv, NEW p \in Screens, Waiting(p)
    PROVE  /\ proc[p].oper \in Operations
           /\ p = "enter" <=> proc[p].oper \in LoginOpers
  <1>1. proc[p].oper \in Operations /\ proc[p].oper # NoOper
    BY DEF Waiting, IInv, Typed, Proc
  <1>2. ScreenOf[proc[p].oper] = p
    BY <1>1 DEF IInv, Fits
  <1> QED BY <1>1, <1>2, OperationsAre

LEMMA AnswerGood ==
    ASSUME IInv, Answer
    PROVE  IInv'
  <1>1. /\ requests # <<>> /\ Head(requests).kind # "exit" /\ pc["main"] # "exited"
        /\ requests' = Tail(requests) /\ sent' = sent
        /\ UNCHANGED <<proc, rights, pc, at, to, pos, msg>>
    BY DEF Answer, Exited, threadVars
  <1>2. NetTyped /\ Typed /\ OneFlight
    BY NetOfTyped DEF IInv
  <1>3. /\ ~NoFlight /\ requests' = <<>> /\ Exits(inbox) /\ ~ExitSent
        /\ \A o \in Operations : Await(o) => Is(Head(requests), o)
    BY <1>1, <1>2, RequestAlone
  <1>4. PICK p \in Screens : Waiting(p) /\ (IF p = "enter" THEN LoginTold ELSE LoggedIn)
    BY <1>1, <1>3 DEF IInv, Stage, MainTurn, Overlap, Ready, Again
  <1>5. PICK o \in Operations : o = proc[p].oper
    BY <1>4, EnterWaits
  <1>6. Await(o) /\ Is(Head(requests), o)
    BY <1>3, <1>4, <1>5 DEF Waiting
  <1>7. PICK r \in Requests : r = Head(requests)
    BY <1>1, <1>2, TailOf DEF NetTyped
  <1>8. Is(r, o) /\ (p = "enter" <=> r.oper \in LoginOpers)
    BY <1>4, <1>5, <1>6, <1>7, EnterWaits DEF Is
  <1>9. /\ NetTyped' /\ \A x \in Operations : Await(x) => Await(x)'
        /\ session' \in {"none", "in", "kicked"} /\ granted' \subseteq Operations
        /\ p # "enter" => granted' = granted
        /\ p = "enter" => \A i \in 1..Len(inbox') : inbox'[i].kind # "exit" =>
              IF inbox'[i].ok THEN granted' = inbox'[i].rights
              ELSE session' = session /\ granted' = granted
    <2>1. ASSUME NEW ok \in BOOLEAN, NEW rs \in SUBSET Operations,
                 inbox' = Append(inbox, Ack(r, ok, rs, FALSE))
          PROVE  /\ NetTyped' /\ \A x \in Operations : Await(x) => Await(x)'
                 /\ \A i \in 1..Len(inbox') : inbox'[i].kind # "exit" =>
                       (inbox'[i].ok <=> ok) /\ inbox'[i].rights = rs
      <3>1. PICK a \in Acks : /\ a = Ack(r, ok, rs, FALSE) /\ a.kind = r.kind /\ a.oper = r.oper
                              /\ a.ok = ok /\ a.rights = rs /\ a.more = FALSE
        BY TypeOfAck
      <3>2. \A x \in Operations : Await(x) => Is(a, x)
        BY <1>3, <1>7, <3>1 DEF Is
      <3>3. ASSUME NEW x \in Operations, Is(a, x)
            PROVE  /\ Await(x)' /\ NetTyped'
                   /\ \A i \in 1..Len(inbox') : inbox'[i].kind # "exit" => inbox'[i] = a
        BY <1>2, <1>3, <2>1, <3>1, <3>3, AnswerFlight
      <3> QED BY <1>6, <3>1, <3>2, <3>3
    <2>2. CASE inbox' = Append(inbox, Ack(r, FALSE, {}, FALSE)) /\ UNCHANGED <<session, granted>>
      <3>1. {} \in SUBSET Operations
        OBVIOUS
      <3>2. session' \in {"none", "in", "kicked"} /\ granted' \subseteq Operations
        BY <1>2, <2>2 DEF Typed
      <3> QED BY <2>1, <2>2, <3>1, <3>2
    <2>3. CASE /\ r.oper \in LoginOpers /\ session' = "in"
               /\ \E rs \in Rights :
                     granted' = rs /\ inbox' = Append(inbox, Ack(r, TRUE, rs, FALSE))
      <3>1. PICK rs \in SUBSET Operations :
                granted' = rs /\ inbox' = Append(inbox, Ack(r, TRUE, rs, FALSE))
        BY <2>3, ScreensAssumption
      <3> QED BY <1>8, <2>1, <2>3, <3>1
    <2>4. CASE /\ r.oper \notin LoginOpers /\ UNCHANGED <<session, granted>>
               /\ inbox' = Append(inbox, Ack(r, TRUE, {}, FALSE))
      <3>1. {} \in SUBSET Operations
        OBVIOUS
      <3>2. session' \in {"none", "in", "kicked"} /\ granted' \subseteq Operations
        BY <1>2, <2>4 DEF Typed
      <3> QED BY <1>8, <2>1, <2>4, <3>1, <3>2
    <2>5. CASE /\ r.oper \notin LoginOpers /\ UNCHANGED <<session, granted>> /\ r.kind \in Paged
               /\ inbox' = inbox \o <<Ack(r, TRUE, {}, TRUE), Ack(r, TRUE, {}, FALSE)>>
      <3>0. {} \in SUBSET Operations /\ TRUE \in BOOLEAN /\ FALSE \in BOOLEAN
        OBVIOUS
      <3>1. PICK a \in Acks : /\ a = Ack(r, TRUE, {}, TRUE) /\ a.kind = r.kind /\ a.oper = r.oper
                              /\ a.ok = TRUE /\ a.more = TRUE
        BY <3>0, TypeOfAck
      <3>01. /\ Ack(r, TRUE, {}, FALSE) \in Acks /\ Ack(r, TRUE, {}, FALSE).kind = r.kind
             /\ Ack(r, TRUE, {}, FALSE).oper = r.oper /\ Ack(r, TRUE, {}, FALSE).more = FALSE
        BY <3>0, TypeOfAck, Zenon
      <3>2. PICK b \in Acks : /\ b = Ack(r, TRUE, {}, FALSE) /\ b.kind = r.kind /\ b.oper = r.oper
                              /\ b.more = FALSE
        BY <3>01
      <3>3. inbox' = inbox \o <<a, b>>
        BY <2>5, <3>1, <3>2
      <3>4. \A x \in Operations : Await(x) => Is(a, x) /\ Is(b, x)
        BY <1>3, <1>7, <3>1, <3>2 DEF Is
      <3>5. a.kind \in Paged
        BY <2>5, <3>1
      <3>6. ASSUME NEW x \in Operations, Is(a, x), Is(b, x)
            PROVE  Await(x)' /\ NetTyped'
        BY <1>2, <1>3, <3>1, <3>2, <3>3, <3>5, <3>6, PagesFlight
      <3>7. session' \in {"none", "in", "kicked"} /\ granted' \subseteq Operations
        BY <1>2, <2>5 DEF Typed
      <3> QED BY <1>6, <1>8, <2>5, <3>4, <3>6, <3>7
    <2> QED BY <1>7, <2>2, <2>3, <2>4, <2>5 DEF Answer
  <1>10. Typed'
    BY <1>1, <1>2, <1>9, ServerTyped
  <1>11. Fits' /\ Rightful'
    <2>1. Fits'
      BY <1>1 DEF IInv, Fits
    <2>2. CASE p # "enter"
      <3>1. granted' = granted
        BY <1>9, <2>2
      <3>2. \A q \in Screens : proc[q].oper \in granted \cup LoginOpers \cup {NoOper}
        BY DEF IInv, Rightful
      <3>3. proc' = proc
        BY <1>1
      <3> QED BY <2>1, <3>1, <3>2, <3>3 DEF Rightful
    <2>3. CASE p = "enter"
      <3>1. o \in LoginOpers
        BY <1>4, <1>5, <2>3, EnterWaits
      <3>2. \A q \in Screens \ {p} : proc[q].oper = NoOper
        BY <1>4 DEF Waiting, Others
      <3>3. \A q \in Screens : proc[q].oper \in LoginOpers \cup {NoOper}
        BY <1>5, <3>1, <3>2
      <3>4. proc' = proc
        BY <1>1
      <3> QED BY <2>1, <3>3, <3>4 DEF Rightful
    <2> QED BY <2>1, <2>2, <2>3
  <1>12. ~ExitSent'
    <2>1. Len(requests') = 0
      BY <1>3
    <2>2. 1..0 = {}
      OBVIOUS
    <2> QED BY <2>1, <2>2 DEF ExitSent
  <1>13. ASSUME NEW x \in Screens \ {"enter"}, Waiting(x), LoggedIn
         PROVE  LoggedIn'
    <2>1. x = p
      <3>1. proc[x].oper # NoOper
        BY <1>13 DEF Waiting
      <3> QED BY <1>4, <3>1 DEF Waiting, Others
    <2> QED BY <1>1, <1>9, <1>12, <1>13, <2>1 DEF LoggedIn
  <1>14. ASSUME LoginTold, Waiting("enter")
         PROVE  LoginTold'
    <2>1. p = "enter"
      <3>1. proc["enter"].oper # NoOper /\ "enter" \in Screens
        BY <1>14, ScreensAre DEF Waiting
      <3> QED BY <1>4, <3>1 DEF Waiting, Others
    <2>2. LoggedOut /\ ~Handling
      BY <1>1, <1>14 DEF LoginTold
    <2>3. session = "none" \/ granted = {}
      BY <1>3, <2>2 DEF LoggedOut
    <2>4. ASSUME NEW i \in 1..Len(inbox'), inbox'[i].kind # "exit"
          PROVE  Told(inbox[i])'
      <3>1. CASE inbox'[i].ok
        BY <1>9, <2>1, <2>4, <3>1 DEF Told
      <3>2. CASE ~inbox'[i].ok
        BY <1>9, <2>1, <2>3, <2>4, <3>2 DEF Told, LoggedOut
      <3> QED BY <3>1, <3>2
    <2>5. ~Handling'
      BY <1>1, <2>2 DEF Handling
    <2> QED BY <1>3, <2>4, <2>5 DEF LoginTold
  <1>15. Stage'
    <2>1. Typed /\ Stage
      BY DEF IInv
    <2> QED BY <1>1, <1>3, <1>9, <1>13, <1>14, <2>1, StageKept
  <1> QED BY <1>1, <1>10, <1>11, <1>15, Together

\* The session of the exit is over when no screen is at an operation of its user.
LEMMA SignOutGood ==
    ASSUME IInv, SignOut
    PROVE  IInv'
  <1>1. /\ requests # <<>> /\ Head(requests).kind = "exit" /\ pc["main"] # "exited"
        /\ requests' = Tail(requests) /\ inbox' = inbox /\ sent' = sent
        /\ session' = "none" /\ granted' = {}
        /\ UNCHANGED <<proc, rights, pc, at, to, pos, msg>>
    BY DEF SignOut, Exited, threadVars
  <1>2. NetTyped /\ Typed /\ Stage
    BY NetOfTyped DEF IInv
  <1>3. /\ NetTyped' /\ ExitSent /\ (NoFlight => NoFlight')
        /\ \A o \in Operations : Await(o) => Await(o)'
    BY <1>1, <1>2, SignOutFlight
  <1>4. ~LoggedIn /\ LoggedOut'
    BY <1>1, <1>3 DEF LoggedIn, LoggedOut
  <1>5. \A x : Login(x) => x = "enter" /\ Login(x)'
    BY <1>4 DEF Login
  <1>6. Typed'
    BY <1>1, <1>2, <1>3, ServerTyped
  <1>7. ASSUME LoginTold, Waiting("enter")
        PROVE  LoginTold'
    <2>1. ~Handling /\ ~Handling'
      BY <1>1, <1>7 DEF LoginTold, Handling
    <2>2. Exits(inbox)
      BY <1>1, <1>7 DEF Waiting, Await, Answered1, Asked1, NoFlight
    <2>3. \A i \in 1..Len(inbox') : inbox'[i].kind = "exit"
      BY <1>1, <2>2 DEF Exits
    <2> QED BY <1>4, <2>1, <2>3 DEF LoginTold
  <1>8. Stage'
    BY <1>1, <1>2, <1>3, <1>4, <1>5, <1>7, StageKept
  <1>9. \A q \in Screens : proc[q].oper \in LoginOpers \cup {NoOper}
    <2>1. \A q \in Screens : proc[q].oper # NoOper =>
             /\ proc[q].oper \in Operations /\ ScreenOf[proc[q].oper] = q
      BY <1>2 DEF Typed, Proc, IInv, Fits
    <2>2. \A q \in Screens : proc[q].oper # NoOper =>
             q \notin Menus /\ (q = "enter" => proc[q].oper \in LoginOpers)
      BY <2>1, OperationsAre
    <2>3. \A q \in Screens : q \in {"enter", "common"} => proc[q].oper \in LoginOpers \cup {NoOper}
      BY <2>2 DEF Menus
    <2>4. CASE MainTurn
      <3>1. at["main"] \in {"enter", "common"}
        BY <1>5, <2>4 DEF MainTurn
      <3>2. \A q \in Screens \ {at["main"]} : proc[q].oper = NoOper
        BY <2>4 DEF MainTurn, Others
      <3> QED BY <2>3, <3>1, <3>2
    <2>5. ASSUME NEW r \in Screens, Ready(r)
          PROVE  \A q \in Screens : proc[q].oper \in LoginOpers \cup {NoOper}
      <3>1. r = "enter"
        BY <1>5, <2>5 DEF Ready
      <3>2. \A q \in Screens : q # "enter" => proc[q].oper = NoOper
        BY <2>5, <3>1 DEF Ready, Others, Menus
      <3> QED BY <2>3, <3>2
    <2>6. ASSUME NEW p \in Screens, Waiting(p), IF p = "enter" THEN LoginTold ELSE LoggedIn
          PROVE  \A q \in Screens : proc[q].oper \in LoginOpers \cup {NoOper}
      <3>1. p = "enter"
        BY <1>4, <2>6
      <3>2. \A q \in Screens : q # "enter" => proc[q].oper = NoOper
        BY <2>6, <3>1 DEF Waiting, Others
      <3> QED BY <2>3, <3>2
    <2>7. ASSUME NEW p \in Screens, Again(p)
          PROVE  \A q \in Screens : proc[q].oper \in LoginOpers \cup {NoOper}
      BY <1>4, <2>7 DEF Again
    <2>8. ASSUME NEW m \in Screens, NEW p \in Screens, Overlap(m, p)
          PROVE  \A q \in Screens : proc[q].oper \in LoginOpers \cup {NoOper}
      <3>1. m = "enter" /\ m = p
        BY <1>5, <2>8 DEF Overlap, Menus
      <3>2. \A q \in Screens : q # "enter" => proc[q].oper = NoOper
        BY <2>8, <3>1 DEF Overlap
      <3> QED BY <2>3, <3>2
    <2> QED BY <1>1, <1>2, <2>4, <2>5, <2>6, <2>7, <2>8 DEF Stage
  <1>10. Fits' /\ Rightful'
    BY <1>1, <1>9 DEF IInv, Fits, Rightful
  <1> QED BY <1>1, <1>6, <1>8, <1>10, Together

LEMMA KickGood ==
    ASSUME IInv, Kick
    PROVE  IInv'
  <1>1. /\ session = "in" /\ session' = "kicked" /\ granted' = granted /\ sent' = sent
        /\ requests' = requests /\ pc["main"] # "exited"
        /\ UNCHANGED <<proc, rights, pc, at, to, pos, msg>>
    BY DEF Kick, Exited, threadVars
  <1>2. NetTyped /\ Typed /\ Stage
    BY NetOfTyped DEF IInv
  <1>3. PICK a \in Acks : a.kind = "exit" /\ inbox' = Append(inbox, a)
    <2>1. [kind |-> "exit", oper |-> NoOper] \in Requests /\ {} \in SUBSET Operations
      BY DEF Requests
    <2>2. /\ Ack([kind |-> "exit", oper |-> NoOper], TRUE, {}, FALSE) \in Acks
          /\ Ack([kind |-> "exit", oper |-> NoOper], TRUE, {}, FALSE).kind = "exit"
      BY <2>1 DEF Ack, Acks
    <2> QED BY <2>2 DEF Kick
  <1>4. /\ NetTyped' /\ (NoFlight => NoFlight')
        /\ \A o \in Operations : Await(o) => Await(o)'
        /\ \A i \in 1..Len(inbox') :
              inbox'[i].kind # "exit" => i \in 1..Len(inbox) /\ inbox'[i] = inbox[i]
    BY <1>1, <1>2, <1>3, KickFlight
  <1>5. Typed'
    BY <1>1, <1>2, <1>4, ServerTyped DEF Typed
  <1>6. (LoggedIn => LoggedIn') /\ (LoggedOut => LoggedOut')
    BY <1>1 DEF LoggedIn, LoggedOut, ExitSent
  <1>7. \A x : Login(x) => Login(x)'
    BY <1>6 DEF Login
  <1>8. ASSUME LoginTold PROVE LoginTold'
    <2>1. \A x \in Acks : Told(x) => Told(x)'
      BY <1>1, <1>6 DEF Told
    <2>2. \A i \in 1..Len(inbox') : inbox'[i].kind # "exit" => Told(inbox[i])'
      <3> SUFFICES ASSUME NEW i \in 1..Len(inbox'), inbox'[i].kind # "exit"
                   PROVE  Told(inbox[i])'
        OBVIOUS
      <3>1. i \in 1..Len(inbox) /\ inbox'[i] = inbox[i]
        BY <1>4
      <3>2. PICK x \in Acks : x = inbox[i] /\ x = inbox'[i]
        BY <1>2, <3>1 DEF NetTyped
      <3>3. Told(x)'
        BY <1>8, <2>1, <3>1, <3>2 DEF LoginTold
      <3> QED BY <3>2, <3>3 DEF Told
    <2>3. Handling' = Handling
      BY <1>1 DEF Handling
    <2>4. Handling /\ pc["recv"] = "scan" => Told(msg)'
      <3> SUFFICES ASSUME Handling, pc["recv"] = "scan"
                   PROVE  Told(msg)'
        OBVIOUS
      <3>1. PICK x \in Acks : x = msg /\ x = msg'
        BY <1>1, <1>2 DEF Typed
      <3>2. Told(x)'
        BY <1>8, <2>1, <3>1 DEF LoginTold
      <3> QED BY <3>1, <3>2 DEF Told
    <2>5. requests # <<>> => LoggedOut'
      BY <1>6, <1>8 DEF LoginTold
    <2> QED BY <1>1, <1>6, <1>8, <2>2, <2>3, <2>4, <2>5 DEF LoginTold
  <1>9. Stage'
    BY <1>1, <1>2, <1>4, <1>6, <1>7, <1>8, StageKept
  <1>10. Fits' /\ Rightful'
    BY <1>1 DEF IInv, Fits, Rightful
  <1> QED BY <1>1, <1>5, <1>9, <1>10, Together

LEMMA TakeMessageGood ==
    ASSUME IInv, TakeMessage
    PROVE  IInv'
  <1>1. /\ pc["recv"] = "recv" /\ inbox # <<>> /\ msg' = Head(inbox) /\ inbox' = Tail(inbox)
        /\ pos' = 1 /\ pc' = [pc EXCEPT !["recv"] = "scan"]
        /\ UNCHANGED <<proc, rights, at, to, requests, sent, session, granted>>
    BY DEF TakeMessage, Goto
  <1>2. NetTyped /\ Typed /\ Stage
    BY NetOfTyped DEF IInv
  <1>3. /\ NetTyped' /\ msg' \in Acks
        /\ NoFlight => NoFlight' /\ msg'.kind = "exit"
        /\ \A o \in Operations : Await(o) =>
              \/ msg'.kind = "exit" /\ Await(o)'
              \/ /\ requests = <<>> /\ Is(msg', o)
                 /\ IF msg'.more THEN msg'.ok /\ msg'.kind \in Paged /\ Await(o)' ELSE NoFlight'
    BY <1>1, <1>2, TakeFlight
  <1>4. /\ pc'["recv"] = "scan" /\ pc'["main"] = pc["main"] /\ pc["main"] # "exited"
        /\ pc' \in [Threads -> MainPlaces \cup AtScreen \cup {"recv", "scan"}]
    BY <1>1, <1>2 DEF Typed, Threads
  <1>5. Typed'
    <2>1. pos' \in 1..Len(Order) + 1
      BY <1>1, OrderLen
    <2> QED BY <1>1, <1>2, <1>3, <1>4, <2>1 DEF Typed, NetTyped, AtScreen
  <1>6. ~Handling /\ (Handling' <=> msg'.kind # "exit") /\ to["recv"] = "none"
    BY <1>1, <1>2, <1>4 DEF Handling, Typed
  <1>7. Fits' /\ Rightful'
    BY <1>1 DEF IInv, Fits, Rightful
  <1>8. /\ LoggedIn' = LoggedIn /\ LoggedOut' = LoggedOut /\ ExitSent' = ExitSent
    BY <1>1 DEF LoggedIn, LoggedOut, ExitSent
  <1>9. NoneShown' = NoneShown /\ \A p : Others(p)' = Others(p) /\ OneShown(p)' = OneShown(p)
    BY <1>1 DEF NoneShown, Others, OneShown
  <1>10. CASE MainTurn
    <2>1. Others(at["main"])' /\ (Login(at["main"])' <=> Login(at["main"]))
          /\ (Login(to["main"])' <=> Login(to["main"]))
      BY <1>1, <1>8, <1>10 DEF MainTurn, Others, Login
    <2>2. MainTurn'
      BY <1>1, <1>3, <1>4, <1>6, <1>9, <1>10, <2>1 DEF MainTurn
    <2> QED BY <1>4, <1>5, <1>7, <2>2, Together DEF Stage
  <1>11. ASSUME NEW q \in Screens, Ready(q) PROVE IInv'
    <2>1. Login(q)' = Login(q)
      BY <1>8 DEF Login
    <2>2. Ready(q)'
      BY <1>1, <1>3, <1>4, <1>6, <1>9, <1>11, <2>1 DEF Ready
    <2> QED BY <1>4, <1>5, <1>7, <2>2, Together DEF Stage
  <1>12. ASSUME NEW p \in Screens, Waiting(p), IF p = "enter" THEN LoginTold ELSE LoggedIn
         PROVE  IInv'
    <2>1. PICK o \in Operations : o = proc[p].oper /\ (Await(o) \/ NoFlight)
      BY <1>12, EnterWaits DEF Waiting
    <2>2. /\ pc["main"] = "notify" /\ NoneShown /\ Others(p) /\ p \notin Menus /\ o # NoOper
          /\ proc[p].endFlag = 0
      BY <1>6, <1>12, <2>1 DEF Waiting
    <2>3. Await(proc[p].oper)' = Await(o)'
      BY <1>1, <2>1 DEF Await, Asked1, Answered1, Is
    <2>4. \/ ~Handling' /\ (Await(o)' \/ NoFlight')
          \/ /\ Handling' /\ (Await(o)' \/ NoFlight') /\ Is(msg', o)
             /\ (msg'.more => msg'.ok /\ msg'.kind \in Paged)
             /\ (msg'.more \/ NoFlight')
      BY <1>3, <1>6, <2>1
    <2>5. Waiting(p)'
      <3>1. CASE ~Handling'
        BY <1>1, <1>4, <1>9, <2>1, <2>2, <2>3, <2>4, <3>1 DEF Waiting
      <3>2. CASE Handling'
        <4>1. Is(msg, proc[p].oper)'
          BY <1>1, <2>1, <2>4, <3>2 DEF Is
        <4>2. pc'["recv"] \notin AtScreen
          BY <1>4 DEF AtScreen
        <4>3. proc'[p].endFlag = 0 /\ to'["recv"] = "none" /\ proc'[p].oper = o
          BY <1>1, <1>6, <2>1, <2>2
        <4> QED BY <1>4, <1>9, <2>2, <2>3, <2>4, <3>2, <4>1, <4>2, <4>3 DEF Waiting
      <3> QED BY <3>1, <3>2
    <2>6. ASSUME p = "enter" PROVE LoginTold'
      <3>1. LoginTold
        BY <1>12, <2>6
      <3>2. /\ Len(inbox) \in Nat /\ 1 \in 1..Len(inbox) /\ Head(inbox) = inbox[1]
            /\ \A i \in 1..Len(inbox') : i + 1 \in 1..Len(inbox) /\ inbox'[i] = inbox[i + 1]
        BY <1>1, <1>2, TailOf DEF NetTyped
      <3>3. \A x : Told(x)' = Told(x)
        BY <1>1, <1>8 DEF Told
      <3>4. ASSUME NEW i \in 1..Len(inbox'), inbox'[i].kind # "exit"
            PROVE  Told(inbox[i])'
        <4>1. inbox'[i] = inbox[i + 1] /\ i + 1 \in 1..Len(inbox)
          BY <3>2
        <4>2. PICK x \in Acks : x = inbox[i + 1]
          BY <1>2, <4>1 DEF NetTyped
        <4>3. Told(x)
          BY <3>1, <3>4, <4>1, <4>2 DEF LoginTold
        <4>4. Told(x)'
          BY <3>3, <4>3
        <4> QED BY <4>1, <4>2, <4>4 DEF Told
      <3>5. msg'.kind # "exit" => Told(msg)'
        <4> SUFFICES ASSUME msg'.kind # "exit" PROVE Told(msg)'
          OBVIOUS
        <4>1. PICK x \in Acks : x = msg' /\ x = inbox[1]
          BY <1>1, <1>3, <3>2
        <4>2. Told(x)
          BY <3>1, <3>2, <4>1 DEF LoginTold
        <4>3. Told(x)'
          BY <3>3, <4>2
        <4> QED BY <4>1, <4>3 DEF Told
      <3>6. msg'.kind # "exit" => requests' = <<>>
        BY <1>1, <1>3, <2>1
      <3>7. requests' # <<>> => LoggedOut'
        BY <1>1, <1>8, <3>1 DEF LoginTold
      <3> QED BY <1>4, <1>6, <3>4, <3>5, <3>6, <3>7 DEF LoginTold
    <2>7. IF p = "enter" THEN LoginTold' ELSE LoggedIn'
      BY <1>8, <1>12, <2>6
    <2> QED BY <1>4, <1>5, <1>7, <2>5, <2>7, Together DEF Stage
  <1>13. ASSUME NEW p \in Screens, Again(p) PROVE IInv'
    BY <1>1, <1>13 DEF Again
  <1>14. \A m, p \in Screens : ~Overlap(m, p)
    BY <1>1 DEF Overlap
  <1> QED BY <1>2, <1>4, <1>10, <1>11, <1>12, <1>13, <1>14 DEF Stage

------------------------------------------------------------------------------
(* RecvThread at a screen *)

LEMMA RecvTyped ==
    ASSUME Typed, pc["recv"] \in AtScreen, NEW l \in AtScreen,
           pc' = [pc EXCEPT !["recv"] = l], at' = at, pos' = pos, msg' = msg,
           \/ to' = to
           \/ \E q \in Screens \cup {"none"} : to' = [to EXCEPT !["recv"] = q],
           l \notin {"check", "stop", "forget", "switch"} => to'["recv"] = "none",
           proc' \in [Screens -> Proc], rights' = rights, NetTyped', sent' \in 0..MaxSent,
           session' = session, granted' = granted
    PROVE  /\ Typed' /\ Handling /\ Handling' /\ pc'["recv"] = l /\ pc'["main"] = pc["main"]
           /\ pc["main"] # "exited"
  <1>1. /\ pc'["recv"] = l /\ pc'["main"] = pc["main"] /\ pc["main"] # "exited"
        /\ pc' \in [Threads -> MainPlaces \cup AtScreen \cup {"recv", "scan"}]
    BY DEF Typed, Threads, AtScreen
  <1>2. to' \in [Threads -> Screens \cup {"none"}]
    BY DEF Typed, Threads
  <1>3. Handling /\ Handling'
    BY <1>1 DEF Typed, Handling, AtScreen
  <1>4. Typed'
    BY <1>1, <1>2 DEF Typed, NetTyped, AtScreen
  <1> QED BY <1>1, <1>3, <1>4

\* When RecvThread asks the user, no request of its screen is on its way.
LEMMA AtAsk ==
    ASSUME IInv, pc["recv"] \in {"ask", "input"}, NEW p \in Screens, p = at["recv"]
    PROVE  /\ Waiting(p) /\ p # "enter" /\ LoggedIn /\ NoFlight /\ Handling /\ Typed
           /\ pc["main"] = "notify" /\ NoneShown /\ Others(p) /\ p \notin Menus
           /\ proc[p].oper \in Operations /\ proc[p].endFlag = 0 /\ to["recv"] = "none"
           /\ Is(msg, proc[p].oper) /\ (msg.more => msg.ok /\ msg.kind \in Paged)
           /\ proc[p].errors \in Nat /\ proc[p] \in Proc
  <1>1. Handling /\ pc["main"] # "exited" /\ pc["recv"] \in AtScreen
    BY DEF IInv, Typed, AtScreen, Handling
  <1>2. PICK x \in Screens : Waiting(x) /\ (IF x = "enter" THEN LoginTold ELSE LoggedIn)
    BY <1>1 DEF IInv, Stage, MainTurn, Overlap, Ready, Again
  <1>3. x = p
    BY <1>1, <1>2 DEF Waiting
  <1>4. p # "enter"
    BY <1>1, <1>2, <1>3 DEF LoginTold
  <1>5. /\ pc["main"] = "notify" /\ NoneShown /\ Others(p) /\ p \notin Menus /\ NoFlight
        /\ proc[p].endFlag = 0 /\ to["recv"] = "none"
        /\ Is(msg, proc[p].oper) /\ (msg.more => msg.ok /\ msg.kind \in Paged)
    BY <1>1, <1>2, <1>3 DEF Waiting
  <1>6. proc[p].oper \in Operations
    BY <1>2, <1>3, EnterWaits
  <1>7. proc[p].errors \in Nat
    BY DEF IInv, Typed, Proc
  <1> QED BY <1>1, <1>2, <1>3, <1>4, <1>5, <1>6, <1>7 DEF IInv, Typed

\* A step from where RecvThread asks, to its end (act), back, or to the end of the screen.
LEMMA AskGoesOn ==
    ASSUME IInv, NEW p \in Screens, p = at["recv"], pc["recv"] \in {"ask", "input"},
           NEW l \in {"act", "input", "check"}, pc' = [pc EXCEPT !["recv"] = l],
           at' = at, pos' = pos, msg' = msg, rights' = rights,
           proc' \in [Screens -> Proc], Others2(p), proc'[p].show = proc[p].show,
           proc'[p].oper = proc[p].oper,
           NetTyped', sent' \in 0..MaxSent, session' = session, granted' = granted,
           ExitSent' <=> ExitSent, \E o \in Operations : o = proc[p].oper /\ (Await(o)' \/ NoFlight'),
           proc'[p].endFlag # 0 \/ l = "input" => NoFlight', l = "input" => proc'[p].endFlag = 0,
           IF l = "check" THEN to' = [to EXCEPT !["recv"] = p] /\ proc'[p].endFlag = -1
           ELSE to' = to
    PROVE  IInv'
  <1>1. /\ Waiting(p) /\ p # "enter" /\ LoggedIn /\ NoFlight /\ Handling /\ Typed
        /\ pc["main"] = "notify" /\ NoneShown /\ Others(p) /\ p \notin Menus
        /\ proc[p].oper \in Operations /\ proc[p].endFlag = 0 /\ to["recv"] = "none"
        /\ Is(msg, proc[p].oper) /\ (msg.more => msg.ok /\ msg.kind \in Paged)
    BY AtAsk
  <1>2. /\ Typed' /\ Handling /\ Handling' /\ pc'["recv"] = l /\ pc'["main"] = pc["main"]
    <2>1. pc["recv"] \in AtScreen /\ l \in AtScreen
      BY DEF AtScreen
    <2>2. l \notin {"check", "stop", "forget", "switch"} => to'["recv"] = "none"
      BY <1>1
    <2> QED BY <1>1, <2>1, <2>2, RecvTyped
  <1>3. Fits' /\ Rightful'
    BY OpersForgotten
  <1>4. NoneShown' /\ Others(p)'
    BY <1>1 DEF NoneShown, Others, Others2
  <1>5. LoggedIn'
    BY <1>1, SameLogin
  <1>6. l = "check" => to'["recv"] = p
    BY <1>1 DEF Typed, Threads
  <1>7. Waiting(p)'
    <2>1. PICK o \in Operations : o = proc[p].oper /\ (Await(o)' \/ NoFlight')
      OBVIOUS
    <2>2. (Await(proc[p].oper) \/ NoFlight)'
      BY <2>1 DEF Await, Asked1, Answered1, Is
    <2>3. Is(msg, proc[p].oper)'
      BY <1>1 DEF Is
    <2>4. proc'[p].oper # NoOper
      BY <1>1, OperationsAre
    <2>5. IF l = "check" THEN to'["recv"] = p /\ proc'[p].endFlag = -1
          ELSE to'["recv"] = "none"
      BY <1>1, <1>6
    <2>6. l \notin {"scan", "switch", "ask", "stop", "forget"}
      OBVIOUS
    <2>7. l = "check" => proc'[p].endFlag # 0
      BY <2>5
    <2>8. at'["recv"] = p
      OBVIOUS
    <2> QED BY <1>1, <1>2, <1>4, <2>2, <2>3, <2>4, <2>5, <2>6, <2>7, <2>8 DEF Waiting
  <1> QED BY <1>1, <1>2, <1>3, <1>5, <1>7, Together DEF Stage

\* The next request of the operation, or the next part of it, is sent.
LEMMA RecvSends ==
    ASSUME IInv, NEW p \in Screens, p = at["recv"], pc["recv"] \in {"ask", "input"},
           NEW k, k \in Range(Steps[proc[p].oper]), SendRequest(k, proc[p].oper),
           Goto("recv", "act"), proc' = proc \/ proc' = [proc EXCEPT ![p].errors = 0],
           UNCHANGED <<rights, at, to, pos, msg>>
    PROVE  IInv'
  <1>1. /\ NoFlight /\ Typed /\ proc[p].oper \in Operations /\ proc[p].endFlag = 0
    BY AtAsk
  <1>2. PICK o \in Operations : o = proc[p].oper
    BY <1>1
  <1>3. /\ requests' = Append(requests, [kind |-> k, oper |-> o]) /\ inbox' = inbox
        /\ sent' = sent + 1 /\ sent < MaxSent /\ session' = session /\ granted' = granted
    BY <1>2 DEF SendRequest, CanSend
  <1>4. Await(o)' /\ (ExitSent' <=> ExitSent) /\ NetTyped'
    BY <1>1, <1>2, <1>3, SendFlight, NetOfTyped
  <1>5. sent' \in 0..MaxSent
    BY <1>1, <1>3, ScreensAssumption DEF Typed
  <1>7. /\ proc' \in [Screens -> Proc] /\ Others2(p)
        /\ proc'[p].show = proc[p].show /\ proc'[p].oper = proc[p].oper /\ proc'[p].endFlag = 0
        /\ proc'[p].errors = proc[p].errors \/ proc'[p].errors = 0
    <2>1. CASE proc' = proc
      BY <1>1, <2>1 DEF Typed, Others2
    <2>2. CASE proc' = [proc EXCEPT ![p].errors = 0]
      <3>1. /\ proc \in [Screens -> Proc] /\ proc[p] \in Proc
        BY <1>1 DEF Typed
      <3>2. proc'[p] = [proc[p] EXCEPT !.errors = 0] /\ DOMAIN proc' = Screens
        BY <2>2, <3>1
      <3>3. \A x \in Screens : x # p => proc'[x] = proc[x]
        BY <2>2, <3>1
      <3>4. [proc[p] EXCEPT !.errors = 0] \in Proc
        BY <3>1, FlagsAre DEF Proc
      <3>5. \A x \in Screens : proc'[x] \in Proc
        BY <3>1, <3>2, <3>3, <3>4
      <3>6. proc' = [x \in Screens |-> proc'[x]]
        BY <2>2, <3>1
      <3>7. proc' \in [Screens -> Proc]
        BY <3>5, <3>6
      <3>8. /\ proc'[p].show = proc[p].show /\ proc'[p].oper = proc[p].oper
            /\ proc'[p].endFlag = proc[p].endFlag /\ proc'[p].errors = 0
        BY <3>1, <3>2 DEF Proc
      <3> QED BY <1>1, <3>3, <3>7, <3>8 DEF Others2
    <2> QED BY <2>1, <2>2
  <1>9. pc' = [pc EXCEPT !["recv"] = "act"] /\ "act" \in {"act", "input", "check"}
        /\ "act" # "input" /\ "act" # "check"
    BY DEF Goto
  <1>10. \E x \in Operations : x = proc[p].oper /\ (Await(x)' \/ NoFlight')
    BY <1>2, <1>4
  <1>11. ~(proc'[p].endFlag # 0 \/ "act" = "input")
    BY <1>7
  <1> QED BY <1>3, <1>4, <1>5, <1>7, <1>9, <1>10, <1>11, AskGoesOn

\* It ends, with m_iEndFlag 1 or -1, or the user is asked again.
LEMMA RecvFlags ==
    ASSUME IInv, NEW p \in Screens, p = at["recv"], pc["recv"] \in {"ask", "input"},
           NEW e \in Nat, NEW f \in -1..1,
           proc' = [proc EXCEPT ![p].errors = e, ![p].endFlag = f],
           NEW l \in {"act", "input", "check"}, pc' = [pc EXCEPT !["recv"] = l],
           l = "input" => f = 0,
           IF l = "check" THEN to' = [to EXCEPT !["recv"] = p] /\ f = -1 ELSE to' = to,
           UNCHANGED <<rights, at, pos, msg, network>>
    PROVE  IInv'
  <1>1. /\ NoFlight /\ Typed /\ proc[p].oper \in Operations
    BY AtAsk
  <1>2. network' = network
    BY DEF network
  <1>3. /\ NetTyped' /\ sent' \in 0..MaxSent /\ session' = session /\ granted' = granted
        /\ NoFlight' /\ ExitSent' = ExitSent
    BY <1>1, <1>2, SameNet
  <1>4. /\ proc' \in [Screens -> Proc] /\ Others2(p)
        /\ proc'[p].show = proc[p].show /\ proc'[p].oper = proc[p].oper
        /\ proc'[p].errors = e /\ proc'[p].endFlag = f
    <2>1. proc \in [Screens -> Proc] /\ proc[p] \in Proc
      BY <1>1 DEF Typed
    <2>2. proc'[p] = [proc[p] EXCEPT !.errors = e, !.endFlag = f] /\ DOMAIN proc' = Screens
      BY <2>1
    <2>3. \A x \in Screens : x # p => proc'[x] = proc[x]
      BY <2>1
    <2>4. [proc[p] EXCEPT !.errors = e, !.endFlag = f] \in Proc
      BY <2>1 DEF Proc
    <2>5. \A x \in Screens : proc'[x] \in Proc
      BY <2>1, <2>2, <2>3, <2>4
    <2>6. proc' = [x \in Screens |-> proc'[x]]
      BY <2>1
    <2>7. proc' \in [Screens -> Proc]
      BY <2>5, <2>6
    <2>8. /\ proc'[p].show = proc[p].show /\ proc'[p].oper = proc[p].oper
          /\ proc'[p].errors = e /\ proc'[p].endFlag = f
      BY <2>1, <2>2 DEF Proc
    <2> QED BY <2>3, <2>7, <2>8 DEF Others2
  <1>5. \E o \in Operations : o = proc[p].oper /\ (Await(o)' \/ NoFlight')
    BY <1>1, <1>3
  <1>6. /\ l = "input" => proc'[p].endFlag = 0
        /\ l = "check" => proc'[p].endFlag = -1
    BY <1>4
  <1> QED BY <1>3, <1>4, <1>5, <1>6, AskGoesOn DEF network

\* A change of one of the two fields is one of both.
LEMMA OneField ==
    ASSUME Typed, NEW p \in Screens, NEW e, NEW f
    PROVE  /\ e = proc[p].errors =>
                 [proc EXCEPT ![p].endFlag = f] = [proc EXCEPT ![p].errors = e, ![p].endFlag = f]
           /\ f = proc[p].endFlag =>
                 [proc EXCEPT ![p].errors = e] = [proc EXCEPT ![p].errors = e, ![p].endFlag = f]
  <1>1. proc \in [Screens -> Proc] /\ proc[p] \in Proc
    BY DEF Typed
  <1>2. ASSUME e = proc[p].errors
        PROVE  [proc[p] EXCEPT !.endFlag = f] = [proc[p] EXCEPT !.errors = e, !.endFlag = f]
    BY <1>1, <1>2 DEF Proc
  <1>3. ASSUME f = proc[p].endFlag
        PROVE  [proc[p] EXCEPT !.errors = e] = [proc[p] EXCEPT !.errors = e, !.endFlag = f]
    BY <1>1, <1>3 DEF Proc
  <1>4. /\ [proc EXCEPT ![p].endFlag = f]
               = [x \in Screens |-> IF x = p THEN [proc[p] EXCEPT !.endFlag = f] ELSE proc[x]]
        /\ [proc EXCEPT ![p].errors = e]
               = [x \in Screens |-> IF x = p THEN [proc[p] EXCEPT !.errors = e] ELSE proc[x]]
        /\ [proc EXCEPT ![p].errors = e, ![p].endFlag = f]
               = [x \in Screens |-> IF x = p THEN [proc[p] EXCEPT !.errors = e, !.endFlag = f]
                                    ELSE proc[x]]
    BY <1>1
  <1> QED BY <1>2, <1>3, <1>4

LEMMA AskGoodGood ==
    ASSUME IInv, AskGood
    PROVE  IInv'
  <1>0. PICK p \in Screens : p = at["recv"]
    BY DEF IInv, Typed, Threads
  <1>1. PICK k : k = NextKind(proc[p].oper, msg.kind)
    OBVIOUS
  <1>2. /\ pc["recv"] = "ask" /\ k # "none" /\ SendRequest(k, proc[p].oper) /\ Goto("recv", "act")
        /\ proc' = proc \/ proc' = [proc EXCEPT ![p].errors = 0]
        /\ UNCHANGED <<rights, at, to, pos, msg>>
    BY <1>0, <1>1 DEF AskGood, Asking
  <1>3. k \in Range(Steps[proc[p].oper])
    <2>1. proc[p].oper \in Operations
      BY <1>0, <1>2, AtAsk
    <2> QED BY <1>1, <1>2, <2>1, NextKindIs
  <1> QED BY <1>0, <1>2, <1>3, RecvSends

LEMMA NextPartGood ==
    ASSUME IInv, NextPart
    PROVE  IInv'
  <1>0. PICK p \in Screens : p = at["recv"]
    BY DEF IInv, Typed, Threads
  <1>1. PICK k : k = msg.kind
    OBVIOUS
  <1>2. /\ pc["recv"] = "ask" /\ SendRequest(k, proc[p].oper) /\ Goto("recv", "act")
        /\ proc' = proc /\ UNCHANGED <<rights, at, to, pos, msg>>
    BY <1>0, <1>1 DEF NextPart, Asking
  <1>3. k \in Range(Steps[proc[p].oper])
    BY <1>0, <1>1, <1>2, AtAsk DEF Is
  <1> QED BY <1>0, <1>2, <1>3, RecvSends

LEMMA RecvSendUnaskedGood ==
    ASSUME IInv, SendUnasked("recv")
    PROVE  IInv'
  <1>0. PICK p \in Screens : p = at["recv"]
    BY DEF IInv, Typed, Threads
  <1>1. pc["recv"] = "input"
    BY DEF SendUnasked
  <1>2. proc[p].oper \in Operations /\ proc[p].oper # NoOper
    BY <1>0, <1>1, AtAsk, OperationsAre
  <1>3. PICK k : k = Head(Steps[proc[p].oper])
    OBVIOUS
  <1>4. /\ SendRequest(k, proc[p].oper) /\ Goto("recv", "act")
        /\ proc' = proc /\ UNCHANGED <<rights, at, to, pos, msg>>
    BY <1>0, <1>2, <1>3 DEF SendUnasked, FirstKind, Return
  <1>5. k \in Range(Steps[proc[p].oper])
    BY <1>2, <1>3, KindsAre
  <1> QED BY <1>0, <1>1, <1>4, <1>5, RecvSends

LEMMA RecvInputGoodGood ==
    ASSUME IInv, InputGood("recv")
    PROVE  IInv'
  <1>0. PICK p \in Screens : p = at["recv"]
    BY DEF IInv, Typed, Threads
  <1>1. pc["recv"] = "input"
    BY DEF InputGood
  <1>2. proc[p].oper \in Operations /\ proc[p].oper # NoOper
    BY <1>0, <1>1, AtAsk, OperationsAre
  <1>3. PICK k : k = Head(Steps[proc[p].oper])
    OBVIOUS
  <1>4. /\ SendRequest(k, proc[p].oper) /\ Goto("recv", "act")
        /\ proc' = proc \/ proc' = [proc EXCEPT ![p].errors = 0]
        /\ UNCHANGED <<rights, at, to, pos, msg>>
    BY <1>0, <1>2, <1>3 DEF InputGood, FirstKind, Return
  <1>5. k \in Range(Steps[proc[p].oper])
    BY <1>2, <1>3, KindsAre
  <1> QED BY <1>0, <1>1, <1>4, <1>5, RecvSends

LEMMA AskBadGood ==
    ASSUME IInv, AskBad
    PROVE  IInv'
  <1>0. PICK p \in Screens : p = at["recv"]
    BY DEF IInv, Typed, Threads
  <1>1. pc["recv"] = "ask" /\ UNCHANGED <<rights, at, to, pos, msg, network>>
    BY DEF AskBad, Asking
  <1>2. /\ proc[p].errors \in Nat /\ proc[p].endFlag = 0 /\ Typed
    BY <1>0, <1>1, AtAsk
  <1>3. CASE /\ proc' = [proc EXCEPT ![p].errors = @ + 1, ![p].endFlag = -1]
             /\ Goto("recv", "act")
    <2>1. PICK e \in Nat : e = proc[p].errors + 1
      BY <1>2
    <2>2. proc' = [proc EXCEPT ![p].errors = e, ![p].endFlag = -1]
      BY <1>3, <2>1
    <2>3. /\ pc' = [pc EXCEPT !["recv"] = "act"] /\ "act" \in {"act", "input", "check"}
          /\ "act" # "input" /\ "act" # "check" /\ to' = to
      BY <1>1, <1>3 DEF Goto
    <2> QED BY <1>0, <1>1, <2>2, <2>3, FlagsAre, RecvFlags
  <1>4. CASE proc' = [proc EXCEPT ![p].errors = 1] /\ Goto("recv", "input")
    <2>1. proc' = [proc EXCEPT ![p].errors = 1, ![p].endFlag = 0]
      <3>1. [proc EXCEPT ![p].errors = 1] = [proc EXCEPT ![p].errors = 1, ![p].endFlag = 0]
        BY <1>2, OneField
      <3> QED BY <1>4, <3>1
    <2>2. /\ pc' = [pc EXCEPT !["recv"] = "input"] /\ "input" \in {"act", "input", "check"}
          /\ "input" # "check" /\ to' = to
      BY <1>1, <1>4 DEF Goto
    <2> QED BY <1>0, <1>1, <2>1, <2>2, FlagsAre, RecvFlags
  <1> QED BY <1>0, <1>3, <1>4 DEF AskBad

\* An end of the operation where it asks.
LEMMA RecvEnds ==
    ASSUME IInv, NEW p \in Screens, p = at["recv"], pc["recv"] \in {"ask", "input"},
           NEW f \in {-1, 1}, proc' = [proc EXCEPT ![p].endFlag = f], Goto("recv", "act"),
           UNCHANGED <<rights, at, to, pos, msg, network>>
    PROVE  IInv'
  <1>1. /\ proc[p].errors \in Nat /\ Typed
    BY AtAsk
  <1>2. PICK e \in Nat : e = proc[p].errors
    BY <1>1
  <1>3. proc' = [proc EXCEPT ![p].errors = e, ![p].endFlag = f]
    <2>1. [proc EXCEPT ![p].endFlag = f] = [proc EXCEPT ![p].errors = e, ![p].endFlag = f]
      BY <1>1, <1>2, OneField
    <2> QED BY <2>1
  <1>4. /\ pc' = [pc EXCEPT !["recv"] = "act"] /\ "act" \in {"act", "input", "check"}
        /\ "act" # "input" /\ "act" # "check" /\ to' = to /\ f \in -1..1
    BY DEF Goto
  <1>6. IF "act" = "check" THEN to' = [to EXCEPT !["recv"] = p] /\ f = -1 ELSE to' = to
    BY <1>4
  <1> QED BY <1>3, <1>4, <1>6, RecvFlags

LEMMA AskNothingGood ==
    ASSUME IInv, AskNothing
    PROVE  IInv'
  <1>0. PICK p \in Screens : p = at["recv"]
    BY DEF IInv, Typed, Threads
  <1>1. pc["recv"] = "ask" /\ UNCHANGED <<rights, at, to, pos, msg, network>> /\ Goto("recv", "act")
    BY DEF AskNothing, Asking
  <1>2. PICK f \in {-1, 1} : proc' = [proc EXCEPT ![p].endFlag = f]
    <2>1. \E f \in {-1} \cup (IF msg.kind = "getSubjects" /\ p # "updateScore" THEN {1} ELSE {}) :
              proc' = [proc EXCEPT ![p].endFlag = f]
      BY <1>0 DEF AskNothing
    <2>2. \A f \in {-1} \cup (IF msg.kind = "getSubjects" /\ p # "updateScore" THEN {1} ELSE {}) :
              f \in {-1, 1}
      OBVIOUS
    <2> QED BY <2>1, <2>2
  <1> QED BY <1>0, <1>1, <1>2, RecvEnds

LEMMA NoPartGood ==
    ASSUME IInv, NoPart
    PROVE  IInv'
  <1>0. PICK p \in Screens : p = at["recv"]
    BY DEF IInv, Typed, Threads
  <1>1. pc["recv"] = "ask" /\ UNCHANGED <<rights, at, to, pos, msg, network>> /\ Goto("recv", "act")
    BY DEF NoPart, Asking
  <1>2. PICK f \in {-1, 1} : proc' = [proc EXCEPT ![p].endFlag = f]
    BY <1>0 DEF NoPart
  <1> QED BY <1>0, <1>1, <1>2, RecvEnds

LEMMA RecvGivesUp ==
    ASSUME IInv, pc["recv"] = "input", GiveUp("recv"), UNCHANGED <<rights, at, pos, msg, network>>
    PROVE  IInv'
  <1>0. PICK p \in Screens : p = at["recv"]
    BY DEF IInv, Typed, Threads
  <1>1. /\ proc' = [proc EXCEPT ![p].errors = @ + 1, ![p].endFlag = -1]
        /\ to' = [to EXCEPT !["recv"] = p] /\ pc' = [pc EXCEPT !["recv"] = "check"]
    BY <1>0 DEF GiveUp, Goto
  <1>2. proc[p].errors \in Nat
    BY <1>0, AtAsk
  <1>3. PICK e \in Nat : e = proc[p].errors + 1
    BY <1>2
  <1>4. proc' = [proc EXCEPT ![p].errors = e, ![p].endFlag = -1]
    BY <1>1, <1>3
  <1>5. "check" \in {"act", "input", "check"} /\ "check" # "input"
    OBVIOUS
  <1> QED BY <1>0, <1>1, <1>4, <1>5, FlagsAre, RecvFlags

LEMMA RecvInputBadGood ==
    ASSUME IInv, InputBad("recv")
    PROVE  IInv'
  <1>0. PICK p \in Screens : p = at["recv"]
    BY DEF IInv, Typed, Threads
  <1>1. pc["recv"] = "input" /\ UNCHANGED <<rights, at, pos, msg, network>>
    BY DEF InputBad
  <1>2. /\ proc[p].errors \in Nat /\ proc[p].endFlag = 0 /\ Typed /\ proc[p].oper # NoOper
    BY <1>0, <1>1, AtAsk, OperationsAre
  <1>3. CASE GiveUp("recv")
    BY <1>1, <1>3, RecvGivesUp
  <1>4. CASE proc' = [proc EXCEPT ![p].errors = 1] /\ to' = to /\ pc' = pc
    <2>1. proc' = [proc EXCEPT ![p].errors = 1, ![p].endFlag = 0]
      <3>1. [proc EXCEPT ![p].errors = 1] = [proc EXCEPT ![p].errors = 1, ![p].endFlag = 0]
        BY <1>2, OneField
      <3> QED BY <1>4, <3>1
    <2>2. /\ pc' = [pc EXCEPT !["recv"] = "input"] /\ "input" \in {"act", "input", "check"}
          /\ "input" # "check"
      BY <1>1, <1>2, <1>4 DEF Typed, Threads
    <2> QED BY <1>0, <1>1, <1>4, <2>1, <2>2, FlagsAre, RecvFlags
  <1> QED BY <1>0, <1>2, <1>3, <1>4 DEF InputBad

\* Where RecvThread is at a screen: one waits, one is to be shown, or shown again.
LEMMA AtScreenStage ==
    ASSUME IInv, pc["recv"] \in AtScreen
    PROVE  /\ Typed /\ Handling /\ pc["main"] # "exited"
           /\ \/ \E q \in Screens : Ready(q)
              \/ \E x \in Screens : x = at["recv"] /\ Waiting(x)
                                    /\ (IF x = "enter" THEN LoginTold ELSE LoggedIn)
              \/ \E x \in Screens : x = at["recv"] /\ Again(x)
              \/ \E m, x \in Screens : x = at["recv"] /\ Overlap(m, x)
  <1>1. Typed /\ Handling /\ pc["main"] # "exited"
    BY DEF IInv, Typed, AtScreen, Handling
  <1>2. ~MainTurn
    BY <1>1 DEF MainTurn
  <1>3. ASSUME NEW x \in Screens, Waiting(x) PROVE x = at["recv"]
    BY <1>1, <1>3 DEF Waiting
  <1>4. ASSUME NEW x \in Screens, Again(x) PROVE x = at["recv"]
    BY <1>4 DEF Again
  <1>5. ASSUME NEW m \in Screens, NEW x \in Screens, Overlap(m, x) PROVE x = at["recv"]
    BY <1>5 DEF Overlap
  <1> QED BY <1>1, <1>2, <1>3, <1>4, <1>5 DEF IInv, Stage

\* A step of RecvThread at screen p, which sends nothing.
LEMMA RecvQuiet ==
    ASSUME IInv, pc["recv"] \in AtScreen, NEW l \in AtScreen,
           pc' = [pc EXCEPT !["recv"] = l], at' = at, pos' = pos, msg' = msg, rights' = rights,
           \/ to' = to
           \/ \E q \in Screens \cup {"none"} : to' = [to EXCEPT !["recv"] = q],
           l \notin {"check", "stop", "forget", "switch"} => to'["recv"] = "none",
           proc' \in [Screens -> Proc], network' = network
    PROVE  /\ Typed' /\ Handling /\ Handling' /\ pc'["recv"] = l /\ pc'["main"] = pc["main"]
           /\ pc["main"] # "exited" /\ NoFlight' = NoFlight /\ granted' = granted
           /\ LoggedIn' = LoggedIn /\ LoggedOut' = LoggedOut
           /\ \A p : Login(p)' = Login(p)
           /\ \A o : Await(o)' = Await(o)
  <1>1. Typed
    BY DEF IInv
  <1>2. /\ NetTyped' /\ sent' \in 0..MaxSent /\ session' = session /\ granted' = granted
        /\ NoFlight' = NoFlight /\ ExitSent' = ExitSent
    BY <1>1, SameNet
  <1>3. /\ Typed' /\ Handling /\ Handling' /\ pc'["recv"] = l /\ pc'["main"] = pc["main"]
        /\ pc["main"] # "exited"
    BY <1>1, <1>2, RecvTyped
  <1>4. /\ LoggedIn' = LoggedIn /\ LoggedOut' = LoggedOut /\ \A p : Login(p)' = Login(p)
    BY <1>2, SameLogin
  <1>5. \A o : Await(o)' = Await(o)
    BY DEF network, Await, Asked1, Answered1, Exits, Is
  <1> QED BY <1>2, <1>3, <1>4, <1>5

\* A screen is shown: nothing else of it changes.
LEMMA ShowOf ==
    ASSUME Typed, NEW q \in Screens, proc' = Shown(q)
    PROVE  /\ proc' \in [Screens -> Proc] /\ Others2(q)
           /\ proc'[q].show = TRUE /\ proc'[q].oper = proc[q].oper
           /\ proc'[q].running = proc[q].running /\ proc'[q].errors = proc[q].errors
           /\ proc'[q].endFlag = proc[q].endFlag
           /\ \A x \in Screens : Others(x)' = Others(x)
           /\ NoneShown => OneShown(q)'
           /\ OneShown(q) => OneShown(q)'
  <1>1. proc' = [proc EXCEPT ![q].show = TRUE]
    BY DEF Shown
  <1>2. proc \in [Screens -> Proc] /\ proc[q] \in Proc
    BY DEF Typed
  <1>3. proc'[q] = [proc[q] EXCEPT !.show = TRUE] /\ DOMAIN proc' = Screens
    BY <1>1, <1>2
  <1>4. \A x \in Screens : x # q => proc'[x] = proc[x]
    BY <1>1, <1>2
  <1>5. [proc[q] EXCEPT !.show = TRUE] \in Proc
    BY <1>2 DEF Proc
  <1>6. \A x \in Screens : proc'[x] \in Proc
    BY <1>2, <1>3, <1>4, <1>5
  <1>7. proc' = [x \in Screens |-> proc'[x]]
    BY <1>1, <1>2
  <1>8. proc' \in [Screens -> Proc]
    BY <1>6, <1>7
  <1>9. /\ proc'[q].show = TRUE /\ proc'[q].oper = proc[q].oper
        /\ proc'[q].running = proc[q].running /\ proc'[q].errors = proc[q].errors
        /\ proc'[q].endFlag = proc[q].endFlag
    BY <1>2, <1>3 DEF Proc
  <1>10. \A x \in Screens : proc'[x].running = proc[x].running /\ proc'[x].oper = proc[x].oper
    BY <1>4, <1>9
  <1>11. \A x \in Screens : Others(x)' = Others(x)
    BY <1>10 DEF Others
  <1>12. (NoneShown => OneShown(q)') /\ (OneShown(q) => OneShown(q)')
    BY <1>4, <1>9 DEF NoneShown, OneShown
  <1> QED BY <1>4, <1>8, <1>9, <1>11, <1>12 DEF Others2

LEMMA ShowKeeps ==
    ASSUME IInv, NEW q \in Screens, proc' = Shown(q), granted' = granted
    PROVE  Fits' /\ Rightful'
  <1>1. Typed
    BY DEF IInv
  <1>2. /\ Others2(q) /\ proc'[q].oper = proc[q].oper
        /\ proc'[q].errors = proc[q].errors /\ proc'[q].endFlag = proc[q].endFlag
    BY <1>1, ShowOf
  <1> QED BY <1>2, OpersForgotten

\* RecvThread shows the next screen: the one the operation leads to, or the same.
LEMMA ActGood ==
    ASSUME IInv, Act
    PROVE  IInv'
  <1>0. PICK p \in Screens : p = at["recv"]
    BY DEF IInv, Typed, Threads
  <1>1. /\ pc["recv"] = "act" /\ pc' = [pc EXCEPT !["recv"] = "check"] /\ network' = network
        /\ UNCHANGED <<rights, at, to, pos, msg>>
        /\ "act" \in AtScreen /\ "check" \in AtScreen
    BY DEF Act, Goto, network, AtScreen
  <1>2. /\ Typed /\ Handling /\ pc["main"] # "exited" /\ proc[p] \in Proc /\ to["recv"] = "none"
    BY <1>1, AtScreenStage DEF Typed
  <1>3. proc[p].endFlag \in {-1, 0, 1}
    BY <1>2, FlagsAre DEF Proc
  \* The parts that do not depend on which screen is shown.
  <1>4. ASSUME proc' \in [Screens -> Proc]
        PROVE  /\ Typed' /\ Handling /\ Handling' /\ pc'["recv"] = "check"
               /\ pc'["main"] = pc["main"] /\ NoFlight' = NoFlight /\ granted' = granted
               /\ LoggedIn' = LoggedIn /\ LoggedOut' = LoggedOut
               /\ \A x : Login(x)' = Login(x)
               /\ \A o : Await(o)' = Await(o)
    BY <1>1, <1>4, RecvQuiet
  <1>5. ASSUME NEW q \in Screens, proc' = Shown(q), pc["main"] = "notify", p \notin Menus,
               Others(p), NoneShown \/ OneShown(q), NoFlight, Login(q), proc[p].endFlag # 0,
               q = p \/ q \in Menus
        PROVE  IInv'
    <2>1. /\ proc' \in [Screens -> Proc] /\ Others2(q) /\ proc'[q].endFlag = proc[q].endFlag
          /\ Others(p)' /\ OneShown(q)'
      BY <1>2, <1>5, ShowOf
    <2>2. /\ Typed' /\ Handling' /\ pc'["recv"] = "check"
          /\ pc'["main"] = pc["main"] /\ NoFlight' /\ granted' = granted /\ Login(q)'
      BY <1>4, <1>5, <2>1
    <2>3. Fits' /\ Rightful'
      BY <1>5, <2>2, ShowKeeps
    <2>4. proc'[p].endFlag # 0
      BY <1>5, <2>1 DEF Others2
    <2>5. Ready(q)'
      <3>1. Others(at["recv"])' /\ at'["recv"] = p /\ to'["recv"] = "none"
        BY <1>0, <1>1, <1>2, <2>1 DEF Others
      <3> QED BY <1>5, <2>1, <2>2, <2>4, <3>1 DEF Ready
    <2> QED BY <1>5, <2>2, <2>3, <2>5, Together DEF Stage
  <1>6. ASSUME NEW q \in Screens, Ready(q) PROVE IInv'
    <2>1. /\ q = p /\ proc[p].endFlag = -1 /\ pc["main"] = "notify" /\ p \notin Menus
          /\ Others(p) /\ OneShown(q) /\ NoFlight /\ Login(q)
      BY <1>0, <1>1, <1>2, <1>6 DEF Ready
    <2>2. proc' = Shown(p)
      BY <1>0, <2>1 DEF Act
    <2>3. proc[p].endFlag # 0
      BY <2>1, FlagsAre
    <2> QED BY <1>5, <2>1, <2>2, <2>3
  <1>7. ASSUME Waiting(p), IF p = "enter" THEN LoginTold ELSE LoggedIn
        PROVE  IInv'
    <2>1. /\ pc["main"] = "notify" /\ p \notin Menus /\ Others(p) /\ NoneShown
          /\ proc[p].endFlag # 0 => NoFlight
          /\ Await(proc[p].oper) \/ NoFlight
          /\ Is(msg, proc[p].oper) /\ (msg.more => msg.ok /\ msg.kind \in Paged)
      BY <1>0, <1>1, <1>2, <1>7 DEF Waiting
    <2>2. /\ proc[p].oper \in Operations /\ (p = "enter" <=> proc[p].oper \in LoginOpers)
      BY <1>7, EnterWaits
    <2>3. /\ proc[p].oper # NoOper /\ ScreenOf[proc[p].oper] = p
      BY <2>2, OperationsAre DEF IInv, Fits
    <2>4. p = "enter" => IF proc[p].endFlag = 1 THEN LoggedIn
                         ELSE proc[p].endFlag = -1 /\ LoggedOut
      BY <1>1, <1>2, <1>7 DEF LoginTold
    <2>5. CASE proc[p].endFlag = -1
      <3>1. proc' = Shown(p)
        BY <1>0, <2>5 DEF Act
      <3>2. Login(p)
        <4>1. -1 # 1
          OBVIOUS
        <4> QED BY <1>7, <2>4, <2>5, <4>1 DEF Login
      <3>3. proc[p].endFlag # 0
        BY <2>5, FlagsAre
      <3> QED BY <1>5, <2>1, <3>1, <3>2, <3>3
    <2>6. CASE proc[p].endFlag = 1
      <3>1. PICK q \in Screens :
                q = After[proc[p].oper] /\ q # "enter" /\ (q = p \/ q \in Menus)
        <4>1. After[proc[p].oper] = IF p = "enter" THEN "common" ELSE p
          BY <2>2, <2>3, OperationsAre
        <4> QED BY <4>1, ScreensAre DEF Menus
      <3>2. proc' = Shown(q)
        <4>1. proc' = Shown(NextProc(p))
          BY <1>0, <2>6 DEF Act
        <4>2. NextProc(p) = q
          BY <2>3, <3>1 DEF NextProc
        <4> QED BY <4>1, <4>2 DEF Shown
      <3>3. Login(q)
        BY <1>7, <2>4, <2>6, <3>1 DEF Login
      <3>4. proc[p].endFlag # 0
        BY <2>6
      <3> QED BY <1>5, <2>1, <3>1, <3>2, <3>3, <3>4
    <2>7. CASE proc[p].endFlag = 0
      <3>1. proc' = proc
        BY <1>0, <2>7 DEF Act
      <3>2. /\ Typed' /\ Handling' /\ pc'["recv"] = "check"
            /\ pc'["main"] = pc["main"] /\ NoFlight' = NoFlight /\ granted' = granted
            /\ LoggedIn' = LoggedIn /\ \A o : Await(o)' = Await(o)
        BY <1>2, <1>4, <3>1 DEF Typed
      <3>3. p # "enter" /\ LoggedIn
        <4>1. 0 # 1 /\ 0 # -1
          OBVIOUS
        <4> QED BY <1>7, <2>4, <2>7, <4>1
      <3>4. Fits' /\ Rightful'
        <4>1. Others2(p)
          BY <3>1 DEF Others2
        <4> QED BY <3>1, <3>2, <4>1, OpersForgotten
      <3>5. Waiting(p)'
        <4>1. NoneShown' /\ Others(p)'
          BY <2>1, <3>1 DEF NoneShown, Others
        <4>2. (Await(proc[p].oper) \/ NoFlight)'
          <5>1. PICK o : o = proc[p].oper
            OBVIOUS
          <5>2. Await(o)' \/ NoFlight'
            BY <2>1, <3>2, <5>1
          <5> QED BY <3>1, <5>1, <5>2 DEF Await, Asked1, Answered1, Is
        <4>3. /\ Is(msg, proc[p].oper)' /\ (msg'.more => msg'.ok /\ msg'.kind \in Paged)
              /\ at'["recv"] = p /\ to'["recv"] = "none" /\ proc'[p].endFlag = 0
              /\ proc'[p].oper # NoOper
          BY <1>0, <1>1, <1>2, <2>1, <2>3, <2>7, <3>1 DEF Is
        <4> QED BY <2>1, <3>2, <4>1, <4>2, <4>3 DEF Waiting
      <3> QED BY <1>2, <3>2, <3>3, <3>4, <3>5, Together DEF Stage
    <2> QED BY <1>3, <2>5, <2>6, <2>7
  <1>8. ~Again(p) /\ \A m \in Screens : ~Overlap(m, p)
    BY <1>1 DEF Again, Overlap
  <1> QED BY <1>0, <1>1, <1>6, <1>7, <1>8, AtScreenStage

\* EndRecv: a screen that goes on waiting is left as it is.
LEMMA RecvCheckGood ==
    ASSUME IInv, EndRecvCheck("recv")
    PROVE  IInv'
  <1>0. PICK p \in Screens : p = at["recv"]
    BY DEF IInv, Typed, Threads
  <1>1. /\ pc["recv"] = "check" /\ "check" \in AtScreen /\ "stop" \in AtScreen
        /\ "switch" \in AtScreen /\ UNCHANGED <<proc, rights, at, to, pos, msg>>
        /\ Leaves(p) \/ network' = network
        /\ pc' = [pc EXCEPT !["recv"] = IF proc[p].endFlag = 0 THEN "switch" ELSE "stop"]
    BY <1>0 DEF EndRecvCheck, Goto, network, AtScreen
  <1>2. /\ Typed /\ Handling /\ pc["main"] # "exited" /\ proc' \in [Screens -> Proc]
    BY <1>1, AtScreenStage DEF Typed
  <1>3. p \notin Menus
    BY <1>0, <1>1, <1>2, AtScreenStage DEF Ready, Waiting, Again, Overlap
  <1>4. network' = network
    BY <1>1, <1>3 DEF Leaves, Menus
  <1>5. Others2(p)
    BY <1>1 DEF Others2
  <1>6. PICK l \in AtScreen : l = IF proc[p].endFlag = 0 THEN "switch" ELSE "stop"
    BY <1>1
  <1>7. /\ Typed' /\ Handling' /\ pc'["recv"] = l /\ pc'["main"] = pc["main"]
        /\ NoFlight' = NoFlight /\ granted' = granted /\ LoggedIn' = LoggedIn
        /\ \A x : Login(x)' = Login(x) /\ Await(x)' = Await(x)
    <2>1. pc' = [pc EXCEPT !["recv"] = l]
      BY <1>1, <1>6
    <2>2. l \in {"check", "stop", "forget", "switch"}
      BY <1>6
    <2> QED BY <1>1, <1>2, <1>4, <2>1, <2>2, RecvQuiet
  <1>8. Fits' /\ Rightful'
    BY <1>1, <1>5, <1>7, OpersForgotten
  <1>9. ASSUME NEW q \in Screens, Ready(q) PROVE IInv'
    <2>1. /\ pc["main"] = "notify" /\ OneShown(q) /\ NoFlight /\ Login(q) /\ Others(p)
          /\ (q = p \/ q \in Menus) /\ proc[p].endFlag # 0 /\ to["recv"] = "none"
      BY <1>0, <1>1, <1>2, <1>9 DEF Ready
    <2>2. OneShown(q)' /\ Others(p)' /\ at'["recv"] = p /\ to'["recv"] = "none"
      BY <1>0, <1>1, <2>1 DEF OneShown, Others
    <2>3. Others(at["recv"])' /\ proc'[p].endFlag # 0 /\ l = "stop"
      BY <1>1, <1>6, <2>1, <2>2 DEF Others
    <2>4. Ready(q)'
      BY <1>3, <1>7, <2>1, <2>2, <2>3 DEF Ready
    <2> QED BY <1>2, <1>7, <1>8, <2>4, Together DEF Stage
  <1>10. ASSUME Waiting(p), IF p = "enter" THEN LoginTold ELSE LoggedIn PROVE IInv'
    <2>1. /\ pc["main"] = "notify" /\ Others(p) /\ NoneShown /\ proc[p].oper # NoOper
          /\ proc[p].endFlag # 0 => NoFlight
          /\ Await(proc[p].oper) \/ NoFlight
          /\ Is(msg, proc[p].oper) /\ (msg.more => msg.ok /\ msg.kind \in Paged)
          /\ IF proc[p].endFlag # 0 THEN to["recv"] = p /\ proc[p].endFlag = -1
             ELSE to["recv"] = "none"
      BY <1>0, <1>1, <1>2, <1>10 DEF Waiting
    <2>2. p # "enter" /\ LoggedIn
      BY <1>1, <1>2, <1>10 DEF LoginTold
    <2>3. (Await(proc[p].oper) \/ NoFlight)'
      <3>1. PICK o : o = proc[p].oper
        OBVIOUS
      <3>2. Await(o)' \/ NoFlight'
        BY <1>7, <2>1, <3>1
      <3> QED BY <1>1, <3>1, <3>2 DEF Await, Asked1, Answered1, Is
    <2>4. NoneShown' /\ Others(p)' /\ Is(msg, proc[p].oper)'
      BY <1>1, <2>1 DEF NoneShown, Others, Is
    <2>5. at'["recv"] = p /\ to' = to /\ proc' = proc /\ msg' = msg
      BY <1>0, <1>1
    <2>6. CASE proc[p].endFlag = 0
      <3>1. l = "switch"
        BY <1>6, <2>6
      <3>2. to'["recv"] = "none" /\ proc'[p].endFlag = 0
        BY <2>1, <2>5, <2>6
      <3>3. Waiting(p)'
        BY <1>3, <1>7, <2>1, <2>3, <2>4, <2>5, <3>1, <3>2 DEF Waiting
      <3> QED BY <1>2, <1>7, <1>8, <2>2, <3>3, Together DEF Stage
    <2>7. CASE proc[p].endFlag # 0
      <3>1. l = "stop"
        BY <1>6, <2>7
      <3>2. to'["recv"] = p /\ proc'[p].endFlag = -1 /\ NoFlight'
        BY <1>7, <2>1, <2>5, <2>7
      <3>3. Waiting(p)'
        BY <1>3, <1>7, <2>1, <2>3, <2>4, <2>5, <3>1, <3>2 DEF Waiting
      <3> QED BY <1>2, <1>7, <1>8, <2>2, <3>3, Together DEF Stage
    <2> QED BY <2>6, <2>7
  <1>11. ~Again(p)
    BY <1>1 DEF Again
  <1>12. ASSUME NEW m \in Screens, Overlap(m, p) PROVE IInv'
    <2>1. (m # p => proc[p].endFlag # 0) /\ NoFlight /\ Login(m)
      BY <1>1, <1>12 DEF Overlap
    <2>2. l = "stop" \/ (l = "switch" /\ m = p)
      BY <1>6, <2>1
    <2>3. NoneShown' = NoneShown
      BY <1>1 DEF NoneShown
    <2>4. Overlap(m, p)'
      BY <1>1, <1>7, <1>12, <2>1, <2>2, <2>3 DEF Overlap
    <2> QED BY <1>2, <1>7, <1>8, <2>4, Together DEF Stage
  <1> QED BY <1>0, <1>1, <1>9, <1>10, <1>11, <1>12, AtScreenStage

LEMMA RecvStopGood ==
    ASSUME IInv, EndRecvStop("recv")
    PROVE  IInv'
  <1>0. PICK p \in Screens : p = at["recv"]
    BY DEF IInv, Typed, Threads
  <1>1. /\ pc["recv"] = "stop" /\ pc' = [pc EXCEPT !["recv"] = "forget"] /\ at' = at /\ to' = to
        /\ proc' = [proc EXCEPT ![p].errors = 0, ![p].running = FALSE, ![p].choice = "none"]
        /\ rights' = rights /\ pos' = pos /\ msg' = msg /\ network' = network
        /\ "stop" \in AtScreen /\ "forget" \in AtScreen
    BY <1>0 DEF EndRecvStop, Stopped, Goto, network, AtScreen
  <1>2. /\ proc' \in [Screens -> Proc] /\ Others2(p)
        /\ proc'[p] = [proc[p] EXCEPT !.errors = 0, !.running = FALSE, !.choice = "none"] /\ proc[p] \in Proc
    <2>1. proc \in [Screens -> Proc] /\ proc[p] \in Proc
      BY DEF IInv, Typed
    <2>2. proc'[p] = [proc[p] EXCEPT !.errors = 0, !.running = FALSE, !.choice = "none"] /\ DOMAIN proc' = Screens
      BY <1>1, <2>1
    <2>3. \A x \in Screens : x # p => proc'[x] = proc[x]
      BY <1>1, <2>1
    <2>4. [proc[p] EXCEPT !.errors = 0, !.running = FALSE, !.choice = "none"] \in Proc
      BY <2>1, FlagsAre DEF Proc
    <2>5. \A x \in Screens : proc'[x] \in Proc
      BY <2>1, <2>2, <2>3, <2>4
    <2>6. proc' = [x \in Screens |-> proc'[x]]
      BY <1>1, <2>1
    <2>7. proc' \in [Screens -> Proc]
      BY <2>5, <2>6
    <2> QED BY <2>1, <2>2, <2>3, <2>7 DEF Others2
  <1>3. /\ proc'[p].show = proc[p].show /\ proc'[p].oper = proc[p].oper
        /\ proc'[p].errors = 0 /\ proc'[p].endFlag = proc[p].endFlag /\ ~proc'[p].running
    BY <1>2 DEF Proc
  <1>4. /\ Typed' /\ Handling /\ Handling' /\ pc'["recv"] = "forget" /\ pc'["main"] = pc["main"]
        /\ pc["main"] # "exited" /\ NoFlight' = NoFlight /\ granted' = granted
        /\ LoggedIn' = LoggedIn /\ \A x : Login(x)' = Login(x) /\ Await(x)' = Await(x)
    <2>1. "forget" \in {"check", "stop", "forget", "switch"}
      OBVIOUS
    <2> QED BY <1>1, <1>2, <2>1, RecvQuiet
  <1>5. Fits' /\ Rightful'
    <2>1. proc'[p].oper = proc[p].oper
      BY <1>3
    <2> QED BY <1>2, <1>4, <2>1, OpersForgotten
  <1>6. /\ NoneShown' = NoneShown /\ \A q \in Screens : OneShown(q)' = OneShown(q)
        /\ (Others(p) => Others(p)') /\ at'["recv"] = p /\ (Others(p) => Others(at["recv"])')
    <2>1. \A q \in Screens : proc'[q].show = proc[q].show
      BY <1>2, <1>3 DEF Others2
    <2>2. Others(p) => Others(p)'
      BY <1>2 DEF Others, Others2
    <2> QED BY <1>0, <1>1, <2>1, <2>2 DEF NoneShown, OneShown, Others
  <1>7. ASSUME NEW q \in Screens, Ready(q) PROVE IInv'
    <2>1. Ready(q)'
      BY <1>0, <1>1, <1>3, <1>4, <1>6, <1>7 DEF Ready
    <2> QED BY <1>4, <1>5, <2>1, Together DEF Stage
  <1>8. ASSUME Waiting(p), IF p = "enter" THEN LoginTold ELSE LoggedIn PROVE IInv'
    <2>1. /\ pc["main"] = "notify" /\ Others(p) /\ NoneShown /\ p \notin Menus /\ proc[p].oper # NoOper
          /\ proc[p].endFlag # 0 => NoFlight
          /\ Is(msg, proc[p].oper) /\ (msg.more => msg.ok /\ msg.kind \in Paged)
          /\ to["recv"] = p /\ proc[p].endFlag = -1
      BY <1>0, <1>1, <1>4, <1>8 DEF Waiting
    <2>2. p # "enter" /\ LoggedIn
      BY <1>1, <1>4, <1>8 DEF LoginTold
    <2>3. NoFlight'
      BY <1>4, <2>1, FlagsAre
    <2>4. /\ Is(msg, proc[p].oper)' /\ to'["recv"] = p /\ proc'[p].endFlag = -1
          /\ proc'[p].oper # NoOper /\ msg' = msg
      BY <1>1, <1>3, <2>1 DEF Is
    <2>5. Waiting(p)'
      BY <1>3, <1>4, <1>6, <2>1, <2>3, <2>4 DEF Waiting
    <2> QED BY <1>4, <1>5, <2>2, <2>5, Together DEF Stage
  <1>9. ~Again(p)
    BY <1>1 DEF Again
  <1>10. ASSUME NEW m \in Screens, Overlap(m, p) PROVE IInv'
    <2>1. /\ NoneShown /\ NoFlight /\ Login(m) /\ proc'[m].endFlag = proc[m].endFlag
          /\ m # p => proc'[m] = proc[m]
      BY <1>1, <1>2, <1>3, <1>10 DEF Overlap, Others2
    <2>2. \A q \in Screens \ {m, p} : ~proc'[q].running /\ proc'[q].oper = NoOper
      BY <1>2, <1>10 DEF Overlap, Others2
    <2>3. Overlap(m, p)'
      BY <1>1, <1>3, <1>4, <1>6, <1>10, <2>1, <2>2 DEF Overlap
    <2> QED BY <1>4, <1>5, <2>3, Together DEF Stage
  <1> QED BY <1>0, <1>1, <1>7, <1>8, <1>9, <1>10, AtScreenStage

LEMMA RecvForgetGood ==
    ASSUME IInv, EndRecvForget("recv")
    PROVE  IInv'
  <1>0. PICK p \in Screens : p = at["recv"]
    BY DEF IInv, Typed, Threads
  <1>1. /\ pc["recv"] = "forget" /\ pc' = [pc EXCEPT !["recv"] = "switch"] /\ at' = at /\ to' = to
        /\ proc' = [proc EXCEPT ![p].oper = NoOper]
        /\ rights' = rights /\ pos' = pos /\ msg' = msg /\ network' = network
        /\ "forget" \in AtScreen /\ "switch" \in AtScreen
    BY <1>0 DEF EndRecvForget, Goto, network, AtScreen
  <1>2. /\ proc' \in [Screens -> Proc] /\ Others2(p)
        /\ proc'[p] = [proc[p] EXCEPT !.oper = NoOper] /\ proc[p] \in Proc
    <2>1. proc \in [Screens -> Proc] /\ proc[p] \in Proc
      BY DEF IInv, Typed
    <2>2. proc'[p] = [proc[p] EXCEPT !.oper = NoOper] /\ DOMAIN proc' = Screens
      BY <1>1, <2>1
    <2>3. \A x \in Screens : x # p => proc'[x] = proc[x]
      BY <1>1, <2>1
    <2>4. [proc[p] EXCEPT !.oper = NoOper] \in Proc
      BY <2>1, FlagsAre DEF Proc
    <2>5. \A x \in Screens : proc'[x] \in Proc
      BY <2>1, <2>2, <2>3, <2>4
    <2>6. proc' = [x \in Screens |-> proc'[x]]
      BY <1>1, <2>1
    <2>7. proc' \in [Screens -> Proc]
      BY <2>5, <2>6
    <2> QED BY <2>1, <2>2, <2>3, <2>7 DEF Others2
  <1>3. /\ proc'[p].show = proc[p].show /\ proc'[p].oper = NoOper
        /\ proc'[p].errors = proc[p].errors /\ proc'[p].endFlag = proc[p].endFlag
        /\ proc'[p].running = proc[p].running
    BY <1>2 DEF Proc
  <1>4. /\ Typed' /\ Handling /\ Handling' /\ pc'["recv"] = "switch" /\ pc'["main"] = pc["main"]
        /\ pc["main"] # "exited" /\ NoFlight' = NoFlight /\ granted' = granted
        /\ LoggedIn' = LoggedIn /\ \A x : Login(x)' = Login(x) /\ Await(x)' = Await(x)
    <2>1. "switch" \in {"check", "stop", "forget", "switch"}
      OBVIOUS
    <2> QED BY <1>1, <1>2, <2>1, RecvQuiet
  <1>5. Fits' /\ Rightful'
    BY <1>2, <1>3, <1>4, OpersForgotten
  <1>6. /\ NoneShown' = NoneShown /\ \A q \in Screens : OneShown(q)' = OneShown(q)
        /\ (Others(p) => Others(p)') /\ at'["recv"] = p /\ (Others(p) => Others(at["recv"])')
    <2>1. \A q \in Screens : proc'[q].show = proc[q].show
      BY <1>2, <1>3 DEF Others2
    <2>2. Others(p) => Others(p)'
      BY <1>2 DEF Others, Others2
    <2> QED BY <1>0, <1>1, <2>1, <2>2 DEF NoneShown, OneShown, Others
  <1>7. ASSUME NEW q \in Screens, Ready(q) PROVE IInv'
    <2>1. Ready(q)'
      BY <1>0, <1>1, <1>3, <1>4, <1>6, <1>7 DEF Ready
    <2> QED BY <1>4, <1>5, <2>1, Together DEF Stage
  <1>8. ASSUME Waiting(p), IF p = "enter" THEN LoginTold ELSE LoggedIn PROVE IInv'
    <2>1. /\ pc["main"] = "notify" /\ Others(p) /\ NoneShown /\ p \notin Menus
          /\ proc[p].endFlag # 0 => NoFlight
          /\ to["recv"] = p /\ proc[p].endFlag = -1 /\ ~proc[p].running
      BY <1>0, <1>1, <1>4, <1>8 DEF Waiting
    <2>2. p # "enter" /\ LoggedIn
      BY <1>1, <1>4, <1>8 DEF LoginTold
    <2>3. NoFlight'
      BY <1>4, <2>1, FlagsAre
    <2>4. to'["recv"] = p /\ proc'[p].endFlag = -1 /\ ~proc'[p].running
      BY <1>1, <1>3, <2>1
    <2>5. Again(p)'
      BY <1>3, <1>4, <1>6, <2>1, <2>2, <2>3, <2>4 DEF Again
    <2> QED BY <1>4, <1>5, <2>5, Together DEF Stage
  <1>9. ~Again(p)
    BY <1>1 DEF Again
  <1>10. ASSUME NEW m \in Screens, Overlap(m, p) PROVE IInv'
    <2>1. /\ NoneShown /\ NoFlight /\ Login(m) /\ proc'[m].endFlag = proc[m].endFlag
          /\ m # p => proc'[m] = proc[m]
      BY <1>1, <1>2, <1>3, <1>10 DEF Overlap, Others2
    <2>2. \A q \in Screens \ {m, p} : ~proc'[q].running /\ proc'[q].oper = NoOper
      BY <1>2, <1>10 DEF Overlap, Others2
    <2>3. Overlap(m, p)'
      BY <1>1, <1>3, <1>4, <1>6, <1>10, <2>1, <2>2 DEF Overlap
    <2> QED BY <1>4, <1>5, <2>3, Together DEF Stage
  <1> QED BY <1>0, <1>1, <1>7, <1>8, <1>9, <1>10, AtScreenStage

\* The screen that gave up is shown again, or the message goes to the next one.
LEMMA RecvSwitchGood ==
    ASSUME IInv, Switch("recv")
    PROVE  IInv'
  <1>0. PICK p \in Screens : p = at["recv"]
    BY DEF IInv, Typed, Threads
  <1>1. /\ pc["recv"] = "switch" /\ "switch" \in AtScreen /\ network' = network
        /\ UNCHANGED <<rights, at, msg>> /\ to' = [to EXCEPT !["recv"] = "none"]
    BY DEF Switch, AtScreen, network
  <1>2. /\ Typed /\ Handling /\ pc["main"] # "exited"
    BY <1>1, AtScreenStage
  <1>3. to'["recv"] = "none" /\ to' \in [Threads -> Screens \cup {"none"}]
    BY <1>1, <1>2 DEF Typed, Threads
  <1>4. CASE /\ to["recv"] \in Screens /\ proc' = Shown(to["recv"])
             /\ pc' = [pc EXCEPT !["recv"] = "act"] /\ pos' = pos
    <2>1. to["recv"] # "none"
      BY <1>4, ScreensAre
    <2>2. Again(p)
      <3>1. ASSUME NEW q \in Screens PROVE ~Ready(q)
        BY <1>1, <1>2, <2>1 DEF Ready
      <3>2. ~Waiting(p)
        BY <1>1, <1>2, <2>1 DEF Waiting
      <3>3. \A m \in Screens : ~Overlap(m, p)
        BY <2>1 DEF Overlap
      <3> QED BY <1>0, <1>1, <3>1, <3>2, <3>3, AtScreenStage
    <2>3. /\ pc["main"] = "notify" /\ NoneShown /\ NoFlight /\ to["recv"] = p /\ Others(p)
          /\ proc[p].endFlag = -1 /\ p \notin Menus /\ p # "enter" /\ LoggedIn
      BY <2>2 DEF Again
    <2>4. proc' = Shown(p)
      BY <1>4, <2>3
    <2>5. /\ proc' \in [Screens -> Proc] /\ proc'[p].endFlag = -1 /\ Others(p)' /\ OneShown(p)'
      BY <1>2, <2>3, <2>4, ShowOf
    <2>6. /\ Typed' /\ Handling' /\ pc'["recv"] = "act" /\ pc'["main"] = "notify"
          /\ NoFlight' /\ granted' = granted /\ LoggedIn'
      <3>1. "act" \in AtScreen
        BY DEF AtScreen
      <3>2. \E q \in Screens \cup {"none"} : to' = [to EXCEPT !["recv"] = q]
        BY <1>1
      <3> QED BY <1>1, <1>3, <1>4, <2>3, <2>5, <3>1, <3>2, RecvQuiet
    <2>7. Fits' /\ Rightful'
      BY <2>4, <2>6, ShowKeeps
    <2>8. Ready(p)'
      <3>1. Others(at["recv"])' /\ at'["recv"] = p
        BY <1>0, <1>1, <2>5 DEF Others
      <3>2. Login(p)'
        BY <2>3, <2>6 DEF Login
      <3> QED BY <1>3, <2>3, <2>5, <2>6, <3>1, <3>2 DEF Ready
    <2> QED BY <2>6, <2>7, <2>8, Together DEF Stage
  <1>5. CASE /\ to["recv"] = "none" /\ pos' = pos + 1 /\ proc' = proc
             /\ pc' = [pc EXCEPT !["recv"] = "scan"]
    <2>1. /\ pc'["recv"] = "scan" /\ pc'["main"] = pc["main"]
          /\ pc' \in [Threads -> MainPlaces \cup AtScreen \cup {"recv", "scan"}]
      BY <1>2, <1>5 DEF Typed, Threads
    <2>2. pos \in 1..14 /\ p = Order[pos] /\ pos' \in 1..Len(Order) + 1 /\ msg \in Acks
          /\ msg.kind # "exit"
      <3>1. pos \in 1..Len(Order) /\ p = Order[pos] /\ msg \in Acks /\ msg.kind # "exit"
        BY <1>0, <1>1, <1>2 DEF Typed, AtScreen
      <3> QED BY <1>5, <3>1, OrderLen
    <2>3. /\ NetTyped' /\ sent' \in 0..MaxSent /\ session' = session /\ granted' = granted
          /\ NoFlight' = NoFlight /\ ExitSent' = ExitSent /\ LoggedIn' = LoggedIn
          /\ \A x : Login(x)' = Login(x)
      BY <1>1, <1>2, SameNet, SameLogin
    <2>4. Typed'
      BY <1>1, <1>2, <1>3, <1>5, <2>1, <2>2, <2>3 DEF Typed, NetTyped, AtScreen
    <2>5. Handling'
      BY <1>1, <1>2, <2>1, <2>2 DEF Handling
    <2>6. Fits' /\ Rightful'
      BY <1>5, <2>3 DEF IInv, Fits, Rightful
    <2>7. NoneShown' = NoneShown /\ (\A q \in Screens : OneShown(q)' = OneShown(q))
          /\ Others(p)' = Others(p) /\ (Others(p) => Others(at["recv"])') /\ at'["recv"] = p
      BY <1>0, <1>1, <1>5 DEF NoneShown, OneShown, Others
    <2>11. \A i \in pos'..Len(Order) : Order[i] # p
      <3>1. \A i \in pos'..14 : i \in 1..14 /\ i # pos
        BY <1>5, <2>2
      <3>2. \A i \in pos'..14 : Order[i] # Order[pos]
        BY <2>2, <3>1, ScreensAre
      <3> QED BY <2>2, <3>2, OrderLen
    <2>8. ASSUME NEW q \in Screens, Ready(q) PROVE IInv'
      <3>1. Ready(q)'
        BY <1>0, <1>1, <1>2, <1>3, <1>5, <2>1, <2>3, <2>5, <2>7, <2>8, <2>11 DEF Ready
      <3> QED BY <1>2, <2>1, <2>4, <2>6, <3>1, Together DEF Stage
    <2>9. ASSUME Waiting(p), IF p = "enter" THEN LoginTold ELSE LoggedIn PROVE IInv'
      <3>1. /\ pc["main"] = "notify" /\ Others(p) /\ NoneShown /\ p \notin Menus
            /\ proc[p].oper # NoOper /\ proc[p].endFlag = 0
            /\ Await(proc[p].oper) \/ NoFlight
            /\ Is(msg, proc[p].oper) /\ (msg.more => msg.ok /\ msg.kind \in Paged)
        BY <1>1, <1>2, <2>9 DEF Waiting
      <3>2. p # "enter" /\ LoggedIn
        BY <1>1, <1>2, <2>9 DEF LoginTold
      <3>3. (Await(proc[p].oper) \/ NoFlight)' /\ Is(msg, proc[p].oper)'
        BY <1>1, <1>5, <3>1 DEF network, Await, Asked1, Answered1, Is, NoFlight, Exits
      <3>5. /\ msg' = msg /\ proc'[p].endFlag = 0 /\ proc'[p].oper # NoOper
            /\ pc'["recv"] \notin AtScreen
        BY <1>1, <1>5, <2>1, <3>1 DEF AtScreen
      <3>6. Waiting(p)'
        BY <1>3, <2>1, <2>5, <2>7, <2>11, <3>1, <3>3, <3>5 DEF Waiting
      <3> QED BY <1>2, <2>1, <2>3, <2>4, <2>6, <3>2, <3>6, Together DEF Stage
    <2>10. ~Again(p)
      BY <1>5, ScreensAre DEF Again
    <2>12. ASSUME NEW m \in Screens, Overlap(m, p) PROVE IInv'
      <3>1. NoFlight' /\ Login(m)' /\ NoneShown'
        BY <2>3, <2>7, <2>12 DEF Overlap
      <3>2. m = p => \A i \in pos'..Len(Order) : Order[i] # m
        BY <2>11
      <3>3. Overlap(m, p)'
        BY <1>1, <1>3, <1>5, <2>1, <2>5, <2>7, <2>12, <3>1, <3>2 DEF Overlap
      <3> QED BY <1>2, <2>1, <2>4, <2>6, <3>3, Together DEF Stage
    <2> QED BY <1>0, <1>1, <2>8, <2>9, <2>10, <2>12, AtScreenStage
  <1> QED BY <1>4, <1>5 DEF Switch, Goto, Return

------------------------------------------------------------------------------
(* RecvThread between the screens *)

\* A step that changes no screen and sends nothing.
LEMMA ScanFrame ==
    ASSUME IInv, pc["recv"] = "scan", proc' = proc, rights' = rights, to' = to, network' = network
    PROVE  /\ Typed /\ Fits' /\ Rightful' /\ NetTyped' /\ sent' \in 0..MaxSent
           /\ session' = session /\ granted' = granted /\ to["recv"] = "none"
           /\ NoFlight' = NoFlight /\ ExitSent' = ExitSent
           /\ LoggedIn' = LoggedIn /\ LoggedOut' = LoggedOut /\ \A x : Login(x)' = Login(x)
           /\ NoneShown' = NoneShown
           /\ \A q \in Screens : OneShown(q)' = OneShown(q) /\ Others(q)' = Others(q)
           /\ \A o : Await(o)' = Await(o)
           /\ \A q \in Screens : (Await(proc[q].oper) \/ NoFlight)' = (Await(proc[q].oper) \/ NoFlight)
  <1>1. Typed
    BY DEF IInv
  <1>2. /\ NetTyped' /\ sent' \in 0..MaxSent /\ session' = session /\ granted' = granted
        /\ NoFlight' = NoFlight /\ ExitSent' = ExitSent
    BY <1>1, SameNet
  <1>3. LoggedIn' = LoggedIn /\ LoggedOut' = LoggedOut /\ \A x : Login(x)' = Login(x)
    BY <1>2, SameLogin
  <1>4. Fits' /\ Rightful'
    BY <1>2 DEF IInv, Fits, Rightful
  <1>5. NoneShown' = NoneShown
        /\ \A q \in Screens : OneShown(q)' = OneShown(q) /\ Others(q)' = Others(q)
    BY DEF NoneShown, OneShown, Others
  <1>6. \A o : Await(o)' = Await(o)
    BY DEF network, Await, Asked1, Answered1, Exits, Is
  <1>7. \A q \in Screens : (Await(proc[q].oper) \/ NoFlight)' = (Await(proc[q].oper) \/ NoFlight)
    BY DEF network, Await, Asked1, Answered1, Exits, Is, NoFlight
  <1>8. to["recv"] = "none"
    BY <1>1 DEF Typed
  <1> QED BY <1>1, <1>2, <1>3, <1>4, <1>5, <1>6, <1>7, <1>8

\* The message has been given to every screen.
LEMMA ScanEndGood ==
    ASSUME IInv, pc["recv"] = "scan", pos > Len(Order), msg' = NoMessage, pos' = 1,
           at' = [at EXCEPT !["recv"] = "enter"], pc' = [pc EXCEPT !["recv"] = "recv"],
           proc' = proc, rights' = rights, to' = to, network' = network
    PROVE  IInv'
  <1>1. /\ Typed /\ Fits' /\ Rightful' /\ NetTyped' /\ sent' \in 0..MaxSent
        /\ session' = session /\ granted' = granted /\ to["recv"] = "none"
        /\ NoFlight' = NoFlight /\ LoggedIn' = LoggedIn /\ LoggedOut' = LoggedOut
        /\ \A x : Login(x)' = Login(x)
        /\ NoneShown' = NoneShown
        /\ \A q \in Screens : OneShown(q)' = OneShown(q) /\ Others(q)' = Others(q)
        /\ \A q \in Screens : (Await(proc[q].oper) \/ NoFlight)' = (Await(proc[q].oper) \/ NoFlight)
    BY ScanFrame
  <1>2. /\ pc'["recv"] = "recv" /\ pc'["main"] = pc["main"] /\ pc["main"] # "exited"
        /\ pc' \in [Threads -> MainPlaces \cup AtScreen \cup {"recv", "scan"}]
        /\ at' \in [Threads -> Screens] /\ at'["main"] = at["main"] /\ ~Handling'
    BY <1>1, ScreensAre DEF Typed, Threads, Handling
  <1>3. Typed'
    <2>1. pos' \in 1..Len(Order) + 1
      BY OrderLen
    <2> QED BY <1>1, <1>2, <2>1 DEF Typed, NetTyped, AtScreen
  <1>4. CASE MainTurn
    <2>1. PICK m \in Screens, t \in Screens \cup {"none"} : m = at["main"] /\ t = to["main"]
      BY <1>1 DEF Typed, Threads
    <2>2. /\ Others(at["main"])' = Others(m) /\ Login(at["main"])' = Login(m)
          /\ Login(to["main"])' = Login(t)
      <3>1. Others(m)' = Others(m) /\ Login(m)' = Login(m) /\ Login(t)' = Login(t)
        BY <1>1
      <3> QED BY <1>2, <2>1, <3>1 DEF Others, Login
    <2>3. MainTurn'
      BY <1>1, <1>2, <1>4, <2>1, <2>2 DEF MainTurn
    <2> QED BY <1>1, <1>2, <1>3, <2>3, Together DEF Stage
  <1>5. ASSUME NEW q \in Screens, Ready(q) PROVE IInv'
    <2>1. Others(q)
      <3>1. CASE Handling
        BY <1>5, <3>1 DEF Ready, Others
      <3>2. CASE ~Handling
        BY <1>5, <3>2 DEF Ready
      <3> QED BY <3>1, <3>2
    <2>2. Ready(q)'
      BY <1>1, <1>2, <1>5, <2>1 DEF Ready
    <2> QED BY <1>1, <1>2, <1>3, <2>2, Together DEF Stage
  <1>6. ASSUME NEW p \in Screens, Waiting(p), IF p = "enter" THEN LoginTold ELSE LoggedIn
        PROVE  IInv'
    <2>1. proc[p].endFlag = 0
      BY <1>6 DEF Waiting
    <2>2. Waiting(p)'
      BY <1>1, <1>2, <1>6, <2>1 DEF Waiting
    <2>3. LoginTold => LoginTold'
      <3>1. \A x : Told(x)' = Told(x)
        BY <1>1 DEF Told
      <3>2. requests' = requests /\ inbox' = inbox
        BY DEF network
      <3>3. \A i \in 1..Len(inbox) : Told(inbox[i])' = Told(inbox[i])
        <4> TAKE i \in 1..Len(inbox)
        <4>1. PICK x : x = inbox[i]
          OBVIOUS
        <4> QED BY <3>1, <3>2, <4>1 DEF Told
      <3> QED BY <1>1, <1>2, <3>2, <3>3 DEF LoginTold
    <2>4. IF p = "enter" THEN LoginTold' ELSE LoggedIn'
      BY <1>1, <1>6, <2>3
    <2> QED BY <1>1, <1>2, <1>3, <2>2, <2>4, Together DEF Stage
  <1>7. \A p \in Screens : ~Again(p)
    BY DEF Again
  <1>8. ASSUME NEW m \in Screens, NEW p \in Screens, Overlap(m, p) PROVE IInv'
    <2>1. Others(m) /\ m = at["main"] /\ Login(m)
      BY <1>8 DEF Overlap, Others
    <2>2. Others(m)' /\ Login(m)'
      BY <1>1, <2>1
    <2>3. Others(at["main"])' /\ Login(at["main"])'
      BY <1>2, <2>1, <2>2 DEF Others, Login
    <2>4. MainTurn'
      BY <1>1, <1>2, <1>8, <2>1, <2>3 DEF MainTurn, Overlap
    <2> QED BY <1>1, <1>2, <1>3, <2>4, Together DEF Stage
  <1> QED BY <1>2, <1>4, <1>5, <1>6, <1>7, <1>8 DEF IInv, Stage

\* The server's notification ends the program.
LEMMA ScanExitGood ==
    ASSUME IInv, pc["recv"] = "scan", pc' = [t \in Threads |-> "exited"],
           UNCHANGED <<rights, at, to, pos, msg>>, proc' = proc, network' = network
    PROVE  IInv'
  <1>1. pc'["main"] = "exited" /\ pc'["recv"] = "exited"
    BY DEF Threads
  <1>2. /\ Typed /\ Fits' /\ Rightful' /\ NetTyped' /\ sent' \in 0..MaxSent
        /\ session' = session /\ granted' = granted /\ to["recv"] = "none"
    BY ScanFrame
  <1>3. Typed'
    BY <1>1, <1>2 DEF Typed, NetTyped, MainPlaces, AtScreen, Threads
  <1>4. OneFlight'
    BY DEF IInv, OneFlight, network, NoFlight, Exits, Await, Asked1, Answered1
  <1> QED BY <1>1, <1>2, <1>3, <1>4 DEF IInv, Stage

\* The screen at pos does not run, or is a menu: the next one.
LEMMA ScanSkipGood ==
    ASSUME IInv, pc["recv"] = "scan", pos <= Len(Order), pos' = pos + 1,
           UNCHANGED <<rights, at, pc, msg, to>>, proc' = proc, network' = network
    PROVE  IInv'
  <1>1. /\ Typed /\ Fits' /\ Rightful' /\ NetTyped' /\ sent' \in 0..MaxSent
        /\ session' = session /\ granted' = granted
        /\ NoFlight' = NoFlight /\ LoggedIn' = LoggedIn /\ LoggedOut' = LoggedOut
        /\ \A x : Login(x)' = Login(x)
        /\ NoneShown' = NoneShown
        /\ \A q \in Screens : OneShown(q)' = OneShown(q) /\ Others(q)' = Others(q)
        /\ \A q \in Screens : (Await(proc[q].oper) \/ NoFlight)' = (Await(proc[q].oper) \/ NoFlight)
    BY ScanFrame
  <1>2. Handling' = Handling /\ pc["main"] # "exited" /\ pc' = pc
    BY <1>1 DEF Handling, Typed
  <1>3. pos \in 1..14 /\ pos' \in 1..Len(Order) + 1
    BY <1>1, OrderLen DEF Typed
  <1>4. Typed'
    BY <1>1, <1>3 DEF Typed, NetTyped, AtScreen
  <1>5. CASE MainTurn
    <2>1. PICK m \in Screens, t \in Screens \cup {"none"} : m = at["main"] /\ t = to["main"]
      BY <1>1 DEF Typed, Threads
    <2>2. /\ Others(at["main"])' = Others(m) /\ Login(at["main"])' = Login(m)
          /\ Login(to["main"])' = Login(t)
      <3>1. Others(m)' = Others(m) /\ Login(m)' = Login(m) /\ Login(t)' = Login(t)
        BY <1>1
      <3> QED BY <2>1, <3>1 DEF Others, Login
    <2>3. MainTurn'
      BY <1>1, <1>2, <1>5, <2>1, <2>2 DEF MainTurn
    <2> QED BY <1>1, <1>2, <1>4, <2>3, Together DEF Stage
  <1>6. ASSUME NEW q \in Screens, Ready(q) PROVE IInv'
    <2>1. PICK p \in Screens : p = at["recv"]
      BY <1>1 DEF Typed, Threads
    <2>2. Others(at["recv"])' = Others(p)
      BY <1>1, <2>1 DEF Others
    <2>4. (\A i \in pos..Len(Order) : Order[i] # q) => \A i \in pos'..Len(Order) : Order[i] # q
      BY <1>3, OrderLen
    <2>3. Ready(q)'
      BY <1>1, <1>2, <1>6, <2>1, <2>2, <2>4 DEF Ready
    <2> QED BY <1>1, <1>2, <1>4, <2>3, Together DEF Stage
  <1>7. ASSUME NEW p \in Screens, Waiting(p), IF p = "enter" THEN LoginTold ELSE LoggedIn
        PROVE  IInv'
    <2>1. (Await(proc[p].oper) \/ NoFlight)'
      BY <1>1, <1>7 DEF Waiting
    <2>2. (\A i \in pos..Len(Order) : Order[i] # p) => \A i \in pos'..Len(Order) : Order[i] # p
      BY <1>3, OrderLen
    <2>3. /\ proc[p].endFlag = 0 /\ to["recv"] = "none"
          /\ pc["main"] = "notify" /\ NoneShown /\ Others(p) /\ p \notin Menus /\ proc[p].oper # NoOper
      BY <1>1, <1>7 DEF Waiting, Typed
    <2>4. Waiting(p)'
      <3>1. CASE ~Handling
        BY <1>1, <1>2, <2>1, <2>3, <3>1 DEF Waiting
      <3>2. CASE Handling
        <4>1. /\ Is(msg, proc[p].oper) /\ (msg.more => msg.ok /\ msg.kind \in Paged)
              /\ msg.more \/ NoFlight \/ \A i \in pos..Len(Order) : Order[i] # p
          BY <1>7, <3>2 DEF Waiting
        <4>2. Is(msg, proc[p].oper)'
          BY <4>1 DEF Is
        <4>3. pc["recv"] \notin AtScreen
          BY DEF AtScreen
        <4> QED BY <1>1, <1>2, <2>1, <2>2, <2>3, <3>2, <4>1, <4>2, <4>3 DEF Waiting
      <3> QED BY <3>1, <3>2
    <2>5. LoginTold => LoginTold'
      <3>1. \A x : Told(x)' = Told(x)
        BY <1>1 DEF Told
      <3>2. requests' = requests /\ inbox' = inbox
        BY DEF network
      <3>3. \A i \in 1..Len(inbox) : Told(inbox[i])' = Told(inbox[i])
        <4> TAKE i \in 1..Len(inbox)
        <4>1. PICK x : x = inbox[i]
          OBVIOUS
        <4> QED BY <3>1, <3>2, <4>1 DEF Told
      <3>4. Told(msg)' = Told(msg)
        <4>1. PICK x : x = msg
          OBVIOUS
        <4> QED BY <3>1, <4>1 DEF Told
      <3>5. pc["recv"] # "act"
        OBVIOUS
      <3> QED BY <1>1, <1>2, <3>2, <3>3, <3>4, <3>5 DEF LoginTold
    <2>6. IF p = "enter" THEN LoginTold' ELSE LoggedIn'
      BY <1>1, <1>7, <2>5
    <2> QED BY <1>1, <1>2, <1>4, <2>4, <2>6, Together DEF Stage
  <1>8. \A p \in Screens : ~Again(p)
    BY DEF Again
  <1>9. ASSUME NEW m \in Screens, NEW p \in Screens, Overlap(m, p) PROVE IInv'
    <2>1. (\A i \in pos..Len(Order) : Order[i] # m) => \A i \in pos'..Len(Order) : Order[i] # m
      BY <1>3, OrderLen
    <2>2. NoFlight' /\ Login(m)' /\ NoneShown'
      BY <1>1, <1>9 DEF Overlap
    <2>3. Overlap(m, p)'
      BY <1>2, <1>9, <2>1, <2>2 DEF Overlap
    <2> QED BY <1>1, <1>2, <1>4, <2>3, Together DEF Stage
  <1> QED BY <1>2, <1>5, <1>6, <1>7, <1>8, <1>9 DEF IInv, Stage

\* A message reaches a screen that runs and is not a menu: the one that waits for it.
LEMMA ScanFinds ==
    ASSUME IInv, pc["recv"] = "scan", pos <= Len(Order), NEW p \in Screens, p = Order[pos],
           proc[p].running, p \notin Menus, msg.kind # "exit"
    PROVE  /\ Typed /\ Handling /\ pc["main"] = "notify" /\ pos \in 1..14
           /\ Waiting(p) /\ (IF p = "enter" THEN LoginTold ELSE LoggedIn)
           /\ NoneShown /\ Others(p) /\ p \notin Menus /\ proc[p].endFlag = 0
           /\ Is(msg, proc[p].oper) /\ (msg.more => msg.ok /\ msg.kind \in Paged)
           /\ msg.more \/ NoFlight
           /\ Await(proc[p].oper) \/ NoFlight
           /\ proc[p].oper \in Operations /\ (p = "enter" <=> proc[p].oper \in LoginOpers)
           /\ proc[p] \in Proc /\ to["recv"] = "none" /\ msg \in Acks
  <1>1. /\ Typed /\ Handling /\ pc["main"] # "exited" /\ pos \in 1..14
        /\ to["recv"] = "none" /\ msg \in Acks /\ proc[p] \in Proc
    BY OrderLen DEF IInv, Typed, Handling
  <1>2. ASSUME NEW q \in Screens, Ready(q) PROVE FALSE
    <2>1. Others(at["recv"]) /\ ~proc[at["recv"]].running
      BY <1>1, <1>2 DEF Ready
    <2> QED BY <2>1 DEF Others
  <1>3. PICK x \in Screens : Waiting(x) /\ (IF x = "enter" THEN LoginTold ELSE LoggedIn)
    <2>1. ASSUME NEW m \in Screens, NEW r \in Screens, Overlap(m, r) PROVE FALSE
      <3>1. pos \in pos..Len(Order)
        BY <1>1, OrderLen
      <3>2. p # m
        BY <2>1, <3>1 DEF Overlap
      <3>3. p = r
        BY <2>1, <3>2 DEF Overlap
      <3> QED BY <2>1, <3>2, <3>3 DEF Overlap
    <2> QED BY <1>1, <1>2, <2>1 DEF IInv, Stage, MainTurn, Again
  <1>4. x = p
    BY <1>3 DEF Waiting, Others
  <1>5. /\ pc["main"] = "notify" /\ NoneShown /\ Others(p) /\ p \notin Menus
        /\ proc[p].endFlag = 0 /\ (Await(proc[p].oper) \/ NoFlight)
        /\ Is(msg, proc[p].oper) /\ (msg.more => msg.ok /\ msg.kind \in Paged)
        /\ msg.more \/ NoFlight \/ \A i \in pos..Len(Order) : Order[i] # p
    BY <1>1, <1>3, <1>4 DEF Waiting
  <1>6. msg.more \/ NoFlight
    <2>1. pos \in pos..Len(Order)
      BY <1>1, OrderLen
    <2> QED BY <1>5, <2>1
  <1>7. proc[p].oper \in Operations /\ (p = "enter" <=> proc[p].oper \in LoginOpers)
    BY <1>3, <1>4, EnterWaits
  <1> QED BY <1>1, <1>3, <1>4, <1>5, <1>6, <1>7

\* The handler of that screen asks the user, or is done with the answer.
LEMMA ScanHandles ==
    ASSUME IInv, pc["recv"] = "scan", pos <= Len(Order), NEW p \in Screens, p = Order[pos],
           proc[p].running, p \notin Menus, msg.kind # "exit",
           NEW l \in {"ask", "act"}, pc' = [pc EXCEPT !["recv"] = l],
           at' = [at EXCEPT !["recv"] = p], UNCHANGED <<pos, msg, to>>, network' = network,
           NEW f \in {-1, 0, 1}, proc' = [proc EXCEPT ![p].endFlag = f],
           rights' \subseteq Operations, f # 0 \/ l = "ask" => NoFlight, l = "ask" => f = 0,
           IF p = "enter" THEN LoginTold' ELSE LoggedIn'
    PROVE  IInv'
  <1>1. /\ Typed /\ Handling /\ pc["main"] = "notify" /\ pos \in 1..14
        /\ NoneShown /\ Others(p) /\ p \notin Menus /\ proc[p].endFlag = 0
        /\ Is(msg, proc[p].oper) /\ (msg.more => msg.ok /\ msg.kind \in Paged)
        /\ Await(proc[p].oper) \/ NoFlight
        /\ proc[p].oper \in Operations /\ proc[p] \in Proc /\ to["recv"] = "none" /\ msg \in Acks
    BY ScanFinds
  <1>2. /\ NetTyped' /\ sent' \in 0..MaxSent /\ session' = session /\ granted' = granted
        /\ NoFlight' = NoFlight
    BY <1>1, SameNet
  <1>3. /\ pc'["recv"] = l /\ pc'["main"] = pc["main"] /\ l \in AtScreen /\ at'["recv"] = p
        /\ pc' \in [Threads -> MainPlaces \cup AtScreen \cup {"recv", "scan"}]
        /\ at' \in [Threads -> Screens] /\ Handling'
    BY <1>1 DEF Typed, Threads, AtScreen, Handling
  <1>4. /\ proc' \in [Screens -> Proc] /\ Others2(p) /\ proc'[p].endFlag = f
        /\ proc'[p].show = proc[p].show /\ proc'[p].oper = proc[p].oper
        /\ proc'[p].errors = proc[p].errors
    <2>1. proc \in [Screens -> Proc] /\ f \in -1..1
      BY <1>1, FlagsAre DEF Typed
    <2>2. proc' = [x \in Screens |-> IF x = p THEN [proc[p] EXCEPT !.endFlag = f] ELSE proc[x]]
      BY <2>1
    <2>3. /\ [proc[p] EXCEPT !.endFlag = f] \in Proc
          /\ [proc[p] EXCEPT !.endFlag = f].endFlag = f
          /\ [proc[p] EXCEPT !.endFlag = f].show = proc[p].show
          /\ [proc[p] EXCEPT !.endFlag = f].oper = proc[p].oper
          /\ [proc[p] EXCEPT !.endFlag = f].errors = proc[p].errors
      BY <1>1, <2>1 DEF Proc
    <2> QED BY <2>1, <2>2, <2>3 DEF Others2
  <1>5. Typed'
    <2>1. pos' \in 1..Len(Order) /\ pos' \in 1..Len(Order) + 1 /\ at'["recv"] = Order[pos']
      BY <1>1, <1>3, OrderLen
    <2>2. l \notin {"recv", "scan", "exited", "check", "stop", "forget", "switch"}
      OBVIOUS
    <2>3. /\ at' \in [Threads -> Screens] /\ to' \in [Threads -> Screens \cup {"none"}]
          /\ pc'["main"] \in MainPlaces /\ pc'["main"] # "exited" /\ to'["recv"] = "none"
          /\ msg' \in Acks /\ msg'.kind # "exit"
      BY <1>1, <1>3 DEF Typed
    <2>4. /\ requests' \in Seq(Requests) /\ inbox' \in Seq(Acks)
          /\ session' \in {"none", "in", "kicked"} /\ granted' \subseteq Operations
      BY <1>1, <1>2 DEF NetTyped, Typed
    <2> QED BY <1>2, <1>3, <1>4, <2>1, <2>2, <2>3, <2>4 DEF Typed
  <1>6. Fits' /\ Rightful'
    BY <1>2, <1>4, OpersForgotten
  <1>7. Waiting(p)'
    <2>1. NoneShown' /\ Others(p)'
      BY <1>1, <1>4 DEF NoneShown, Others, Others2
    <2>2. (Await(proc[p].oper) \/ NoFlight)'
      BY <1>1, <1>4 DEF network, Await, Asked1, Answered1, Exits, Is, NoFlight
    <2>3. Is(msg, proc[p].oper)' /\ proc'[p].oper # NoOper
      BY <1>1, <1>4, OperationsAre DEF Is
    <2>4. (msg'.more => msg'.ok /\ msg'.kind \in Paged) /\ to'["recv"] = "none"
      BY <1>1
    <2>5. l \notin {"recv", "scan", "exited", "check", "stop", "forget", "switch", "input"}
      OBVIOUS
    <2>6. l = "ask" \/ proc'[p].endFlag # 0 => NoFlight'
      BY <1>2, <1>4
    <2>7. l = "ask" => proc'[p].endFlag = 0
      BY <1>4
    <2> QED BY <1>1, <1>3, <2>1, <2>2, <2>3, <2>4, <2>5, <2>6, <2>7 DEF Waiting
  <1> QED BY <1>3, <1>1, <1>5, <1>6, <1>7, Together DEF Stage

\* What the handler makes of the answer.
LEMMA EndFlagIs ==
    ASSUME Typed, NEW p \in Screens, proc[p].oper \in Operations, Is(msg, proc[p].oper),
           proc[p].endFlag = 0, msg.more => msg.ok /\ msg.kind \in Paged
    PROVE  /\ Expected(p)
           /\ EndFlagAfter(p) \in {-1, 0, 1} /\ (EndFlagAfter(p) = 0 => msg.more)
           /\ ~msg.ok => EndFlagAfter(p) = -1
           /\ proc[p].oper \in LoginOpers /\ msg.ok =>
                 ~msg.more /\ EndFlagAfter(p) = IF msg.rights = {} THEN -1 ELSE 1
  <1>1. Expected(p)
    BY OperationsAre DEF Expected, Is
  <1>2. CASE ~msg.ok
    <2>1. EndFlagAfter(p) = -1 /\ -1 # 0
      BY <1>2 DEF EndFlagAfter
    <2> QED BY <1>1, <1>2, <2>1
  <1>3. CASE msg.ok
    <2>1. EndFlagAfter(p) = IF msg.kind \in {"login", "register"} /\ msg.rights = {} THEN -1
                            ELSE IF msg.more THEN 0 ELSE 1
      BY <1>1, <1>3 DEF EndFlagAfter
    <2>2. ASSUME proc[p].oper \in LoginOpers
          PROVE  msg.kind \in {"login", "register"} /\ ~msg.more
      BY <2>2, LoginKinds DEF Is
    <2>3. -1 # 0 /\ 1 # 0
      OBVIOUS
    <2>4. EndFlagAfter(p) \in {-1, 0, 1} /\ (EndFlagAfter(p) = 0 => msg.more)
      BY <2>1, <2>3
    <2> QED BY <1>1, <1>3, <2>1, <2>2, <2>4
  <1> QED BY <1>2, <1>3

\* The message reaches a screen that runs and is not a menu.
LEMMA ScanScreenGood ==
    ASSUME IInv, pc["recv"] = "scan", pos <= Len(Order), NEW p \in Screens, p = Order[pos],
           proc[p].running, p \notin Menus, msg.kind # "exit",
           at' = [at EXCEPT !["recv"] = p], UNCHANGED <<pos, msg, to>>, network' = network,
           IF /\ Expected(p) /\ msg.ok
              /\ msg.kind \in Batches \/ NextKind(proc[p].oper, msg.kind) # "none"
           THEN Goto("recv", "ask") /\ UNCHANGED <<proc, rights>>
           ELSE /\ proc' = [proc EXCEPT ![p].endFlag = EndFlagAfter(p)]
                /\ rights' = IF Expected(p) /\ msg.ok /\ p = "enter"
                             THEN RightsAfterLogin ELSE rights
                /\ Goto("recv", "act")
    PROVE  IInv'
  <1>1. /\ Typed /\ Handling /\ (IF p = "enter" THEN LoginTold ELSE LoggedIn)
        /\ proc[p].endFlag = 0 /\ rights \subseteq Operations
        /\ Is(msg, proc[p].oper) /\ (msg.more => msg.ok /\ msg.kind \in Paged)
        /\ msg.more \/ NoFlight
        /\ proc[p].oper \in Operations /\ (p = "enter" <=> proc[p].oper \in LoginOpers)
        /\ msg \in Acks
    BY ScanFinds DEF Typed
  <1>2. /\ ExitSent' = ExitSent /\ granted' = granted /\ session' = session
    BY <1>1, SameNet
  <1>3. CASE /\ Expected(p) /\ msg.ok
             /\ msg.kind \in Batches \/ NextKind(proc[p].oper, msg.kind) # "none"
    <2>1. ~msg.more
      <3>1. ASSUME msg.kind \in Paged
            PROVE  msg.kind \notin Batches /\ NextKind(proc[p].oper, msg.kind) = "none"
        BY <1>1, <3>1, PagedAre DEF Is
      <3> QED BY <1>1, <1>3, <3>1
    <2>2. p # "enter"
      <3>1. ASSUME proc[p].oper \in LoginOpers
            PROVE  msg.kind \notin Batches /\ NextKind(proc[p].oper, msg.kind) = "none"
        BY <1>1, <3>1, LoginKinds, NextKindIs DEF Is
      <3> QED BY <1>1, <1>3, <3>1
    <2>3. LoggedIn'
      BY <1>1, <1>2, <1>3, <2>2 DEF LoggedIn
    <2>4. proc' = [proc EXCEPT ![p].endFlag = 0]
      <3>1. proc \in [Screens -> Proc]
        BY <1>1 DEF Typed
      <3>2. [proc[p] EXCEPT !.endFlag = 0] = proc[p]
        BY <1>1, <3>1 DEF Proc
      <3>3. proc' = proc
        BY <1>3
      <3> QED BY <3>1, <3>2, <3>3
    <2>5. /\ pc' = [pc EXCEPT !["recv"] = "ask"] /\ rights' \subseteq Operations
          /\ "ask" \in {"ask", "act"} /\ 0 \in {-1, 0, 1}
      BY <1>1, <1>3 DEF Goto
    <2>6. NoFlight
      BY <1>1, <2>1
    <2> QED BY <2>2, <2>3, <2>4, <2>5, <2>6, ScanHandles
  <1>4. CASE ~(/\ Expected(p) /\ msg.ok
               /\ msg.kind \in Batches \/ NextKind(proc[p].oper, msg.kind) # "none")
    <2>1. /\ Expected(p)
          /\ EndFlagAfter(p) \in {-1, 0, 1} /\ (EndFlagAfter(p) = 0 => msg.more)
          /\ ~msg.ok => EndFlagAfter(p) = -1
          /\ proc[p].oper \in LoginOpers /\ msg.ok =>
                ~msg.more /\ EndFlagAfter(p) = IF msg.rights = {} THEN -1 ELSE 1
      BY <1>1, EndFlagIs
    <2>2. PICK f \in {-1, 0, 1} : f = EndFlagAfter(p)
      BY <2>1
    <2>3. /\ proc' = [proc EXCEPT ![p].endFlag = f] /\ pc' = [pc EXCEPT !["recv"] = "act"]
          /\ rights' = IF msg.ok /\ p = "enter" THEN LoginOpers \cup msg.rights ELSE rights
      BY <1>4, <2>1, <2>2 DEF Goto, RightsAfterLogin
    <2>4. rights' \subseteq Operations
      <3>1. LoginOpers \subseteq Operations
        <4>1. "enter" \in Screens
          BY ScreensAre
        <4> QED BY <4>1 DEF Operations, Offers, LoginOpers
      <3> QED BY <1>1, <2>3, <3>1 DEF Acks
    <2>5. f # 0 => NoFlight
      <3>1. ASSUME msg.more, f # 0 PROVE FALSE
        <4>1. msg.ok /\ msg.kind \in Paged /\ proc[p].oper \notin LoginOpers
          BY <1>1, <3>1, PagedAre DEF Is
        <4>2. msg.kind \notin {"login", "register"}
          BY <4>1 DEF Paged
        <4>3. EndFlagAfter(p) = 0
          BY <1>1, <2>1, <3>1, <4>1, <4>2 DEF EndFlagAfter
        <4> QED BY <2>2, <3>1, <4>3
      <3> QED BY <1>1, <3>1
    <2>6. IF p = "enter" THEN LoginTold' ELSE LoggedIn'
      <3>1. CASE p # "enter"
        BY <1>1, <1>2, <2>3, <3>1 DEF LoggedIn
      <3>2. CASE p = "enter"
        <4>1. /\ requests = <<>> /\ Told(msg) /\ ~ExitSent
              /\ \A i \in 1..Len(inbox) : inbox[i].kind # "exit" => Told(inbox[i])
          <5>1. requests = <<>> => ~ExitSent
            <6>1. Len(<<>>) = 0 /\ 1..0 = {}
              OBVIOUS
            <6> QED BY <6>1 DEF ExitSent
          <5> QED BY <1>1, <3>2, <5>1 DEF LoginTold
        <4>2. LoggedOut' = LoggedOut
          BY <1>2 DEF LoggedOut
        <4>3. requests' = requests /\ inbox' = inbox
          BY DEF network
        <4>4. \A i \in 1..Len(inbox) : Told(inbox[i])' = Told(inbox[i])
          <5> TAKE i \in 1..Len(inbox)
          <5>1. PICK x : x = inbox[i]
            OBVIOUS
          <5>2. Told(x)' = Told(x)
            BY <1>2, <4>2 DEF Told
          <5> QED BY <4>3, <5>1, <5>2 DEF Told
        <4>5. pc'["recv"] = "act"
          BY <1>1, <2>3 DEF Typed, Threads
        <4>6. proc'["enter"].endFlag = f
          <5>1. proc \in [Screens -> Proc] /\ proc[p] \in Proc
            BY <1>1 DEF Typed
          <5>2. proc'[p] = [proc[p] EXCEPT !.endFlag = f]
            BY <2>3, <5>1
          <5>3. [proc[p] EXCEPT !.endFlag = f].endFlag = f
            BY <5>1 DEF Proc
          <5> QED BY <3>2, <5>2, <5>3
        <4>7. IF f = 1 THEN LoggedIn' ELSE f = -1 /\ LoggedOut'
          <5>1. CASE ~msg.ok
            BY <2>1, <2>2, <4>1, <4>2, <5>1, FlagsAre DEF Told
          <5>2. CASE msg.ok /\ msg.rights = {}
            <6>1. f = -1 /\ LoggedOut
              BY <1>1, <2>1, <2>2, <3>2, <4>1, <5>2 DEF Told, LoggedOut
            <6> QED BY <4>2, <6>1, FlagsAre
          <5>3. CASE msg.ok /\ msg.rights # {}
            <6>1. f = 1
              BY <1>1, <2>1, <2>2, <3>2, <5>3
            <6>2. LoggedIn'
              BY <1>2, <2>3, <3>2, <4>1, <5>3 DEF Told, LoggedIn
            <6> QED BY <6>1, <6>2
          <5> QED BY <5>1, <5>2, <5>3
        <4>8. requests' = <<>>
          BY <4>1, <4>3
        <4>9. LoginTold'
          BY <4>1, <4>3, <4>4, <4>5, <4>6, <4>7, <4>8 DEF LoginTold
        <4> QED BY <3>2, <4>9
      <3> QED BY <3>1, <3>2
    <2>7. "act" \in {"ask", "act"} /\ "act" # "ask"
      OBVIOUS
    <2>8. f # 0 \/ "act" = "ask" => NoFlight
      BY <2>5
    <2> QED BY <2>3, <2>4, <2>6, <2>7, <2>8, ScanHandles
  <1> QED BY <1>3, <1>4

LEMMA ScanGood ==
    ASSUME IInv, Scan
    PROVE  IInv'
  <1>1. pc["recv"] = "scan" /\ to' = to /\ network' = network
    BY DEF Scan
  <1>2. pos \in 1..14 \/ pos > Len(Order)
    BY OrderLen DEF IInv, Typed
  <1>3. CASE pos > Len(Order)
    <2>1. /\ msg' = NoMessage /\ pos' = 1 /\ at' = [at EXCEPT !["recv"] = "enter"]
          /\ pc' = [pc EXCEPT !["recv"] = "recv"] /\ UNCHANGED <<proc, rights>>
      BY <1>3 DEF Scan, Goto
    <2> QED BY <1>1, <1>3, <2>1, ScanEndGood
  <1>4. CASE ~(pos > Len(Order))
    <2>0. PICK p \in Screens : p = Order[pos]
      BY <1>2, <1>4, ScreensAre
    <2>1. pos <= Len(Order)
      BY <1>2, <1>4, OrderLen
    <2>2. \/ /\ proc[p].running /\ msg.kind = "exit"
             /\ ExitProgram
             /\ UNCHANGED <<proc, rights, at, pos, msg>>
          \/ /\ ~proc[p].running \/ (p \in Menus /\ msg.kind # "exit")
             /\ pos' = pos + 1
             /\ UNCHANGED <<proc, rights, at, pc, msg>>
          \/ /\ proc[p].running /\ p \notin Menus /\ msg.kind # "exit"
             /\ at' = [at EXCEPT !["recv"] = p]
             /\ IF /\ Expected(p) /\ msg.ok
                   /\ msg.kind \in Batches \/ NextKind(proc[p].oper, msg.kind) # "none"
                THEN Goto("recv", "ask") /\ UNCHANGED <<proc, rights>>
                ELSE /\ proc' = [proc EXCEPT ![p].endFlag = EndFlagAfter(p)]
                     /\ rights' = IF Expected(p) /\ msg.ok /\ p = "enter"
                                  THEN RightsAfterLogin ELSE rights
                     /\ Goto("recv", "act")
             /\ UNCHANGED <<pos, msg>>
      BY <1>4, <2>0 DEF Scan
    <2>3. CASE ExitProgram /\ UNCHANGED <<proc, rights, at, pos, msg>>
      BY <1>1, <2>3, ScanExitGood DEF ExitProgram
    <2>4. CASE pos' = pos + 1 /\ UNCHANGED <<proc, rights, at, pc, msg>>
      BY <1>1, <2>1, <2>4, ScanSkipGood
    <2>5. CASE /\ proc[p].running /\ p \notin Menus /\ msg.kind # "exit"
               /\ at' = [at EXCEPT !["recv"] = p]
               /\ IF /\ Expected(p) /\ msg.ok
                     /\ msg.kind \in Batches \/ NextKind(proc[p].oper, msg.kind) # "none"
                  THEN Goto("recv", "ask") /\ UNCHANGED <<proc, rights>>
                  ELSE /\ proc' = [proc EXCEPT ![p].endFlag = EndFlagAfter(p)]
                       /\ rights' = IF Expected(p) /\ msg.ok /\ p = "enter"
                                    THEN RightsAfterLogin ELSE rights
                       /\ Goto("recv", "act")
               /\ UNCHANGED <<pos, msg>>
      BY <1>1, <2>0, <2>1, <2>5, ScanScreenGood
    <2> QED BY <2>2, <2>3, <2>4, <2>5
  <1> QED BY <1>3, <1>4

LEMMA RecvGood ==
    ASSUME IInv, RecvSteps
    PROVE  IInv'
  BY TakeMessageGood, ScanGood, AskNothingGood, NextPartGood, NoPartGood, RecvSendUnaskedGood,
     ActGood, RecvCheckGood, RecvStopGood, RecvForgetGood, RecvSwitchGood
     DEF RecvSteps, EndRecv

LEMMA UserGood ==
    ASSUME IInv, UserSteps
    PROVE  IInv'
  <1>1. CASE Choose
    BY <1>1, ChooseGood
  <1>2. ASSUME NEW t \in Threads, InputGood(t) \/ InputBad(t)
        PROVE  IInv'
    <2>1. t = "main" \/ t = "recv"
      BY DEF Threads
    <2> QED BY <1>2, <2>1, MainInputGoodGood, MainInputBadGood, RecvInputGoodGood,
               RecvInputBadGood
  <1> QED BY <1>1, <1>2, AskGoodGood, AskBadGood DEF UserSteps

------------------------------------------------------------------------------
(* The invariant *)

\* The first screen is to be shown, and there is no session.
LEMMA InitGood == Init => IInv
  <1> SUFFICES ASSUME Init PROVE IInv
    OBVIOUS
  <1>1. /\ proc = [p \in Screens |-> [NewProc EXCEPT !.show = (p = "enter")]]
        /\ "enter" \in Screens /\ DOMAIN proc = Screens
    BY ScreensAre DEF Init
  <1>2. ASSUME NEW p \in Screens
        PROVE  /\ proc[p] \in Proc /\ ~proc[p].running /\ proc[p].oper = NoOper
               /\ proc[p].errors = 0 /\ proc[p].endFlag = 0 /\ (proc[p].show <=> p = "enter")
    BY <1>1, FlagsAre DEF NewProc, Proc
  <1>3. /\ pc["main"] = "notify" /\ pc["recv"] = "recv" /\ at["main"] = "enter"
        /\ at["recv"] = "enter" /\ to["main"] = "none" /\ to["recv"] = "none"
        /\ pc \in [Threads -> MainPlaces \cup AtScreen \cup {"recv", "scan"}]
        /\ at \in [Threads -> Screens] /\ to \in [Threads -> Screens \cup {"none"}]
    <2>1. pc = [t \in Threads |-> IF t = "main" THEN "notify" ELSE "recv"]
      BY DEF Init, Threads
    <2> QED BY <1>1, <2>1 DEF Init, Threads, MainPlaces
  <1>4. requests = <<>> /\ inbox = <<>> /\ session = "none" /\ granted = {} /\ sent = 0
        /\ pos = 1 /\ msg = NoMessage /\ rights = LoginOpers
    BY DEF Init
  <1>5. NoFlight
    <2>1. Len(<<>>) = 0 /\ 1..0 = {}
      OBVIOUS
    <2> QED BY <1>4, <2>1 DEF NoFlight, Exits
  <1>6. Typed
    <2>1. proc \in [Screens -> Proc]
      BY <1>1, <1>2
    <2>2. rights \subseteq Operations
      BY <1>1, <1>4 DEF Operations, Offers, LoginOpers
    <2>3. pos \in 1..Len(Order) + 1 /\ sent \in 0..MaxSent
      BY <1>4, OrderLen, ScreensAssumption
    <2>4. requests \in Seq(Requests) /\ inbox \in Seq(Acks)
      BY <1>4
    <2> QED BY <1>3, <1>4, <2>1, <2>2, <2>3, <2>4 DEF Typed, MainPlaces, AtScreen
  <1>7. Fits /\ Rightful
    BY <1>2 DEF Fits, Rightful
  <1>8. Ready("enter")
    <2>1. OneShown("enter") /\ Others("enter")
      BY <1>1, <1>2 DEF OneShown, Others
    <2>2. Login("enter") /\ ~Handling
      BY <1>3, <1>4 DEF Login, LoggedOut, Handling
    <2> QED BY <1>1, <1>2, <1>3, <1>5, <2>1, <2>2 DEF Ready
  <1> QED BY <1>1, <1>5, <1>6, <1>7, <1>8 DEF IInv, OneFlight, Stage

LEMMA StutterGood ==
    ASSUME IInv, UNCHANGED vars
    PROVE  IInv'
  <1>1. /\ proc' = proc /\ rights' = rights /\ pc' = pc /\ at' = at /\ to' = to /\ pos' = pos
        /\ msg' = msg /\ requests' = requests /\ inbox' = inbox /\ sent' = sent
        /\ session' = session /\ granted' = granted
    BY DEF vars, threadVars, network
  <1>2. Typed'
    BY <1>1 DEF IInv, Typed
  <1>3. Fits' /\ Rightful'
    BY <1>1 DEF IInv, Fits, Rightful
  <1>4. OneFlight'
    BY <1>1 DEF IInv, OneFlight, NoFlight, Exits, Await, Asked1, Answered1, Is
  <1>5. Stage'
    <2>1. CASE pc["main"] = "exited"
      BY <1>1, <2>1 DEF Stage
    <2>2. CASE pc["main"] # "exited"
      <3>1. /\ NoFlight => NoFlight'
            /\ \A o \in Operations : Await(o) => Await(o)'
        BY <1>1 DEF Await, Asked1, Answered1, Is, NoFlight, Exits
      <3>2. network' = network /\ Typed /\ Stage
        BY <1>1 DEF IInv, network
      <3>3. /\ LoggedIn' = LoggedIn /\ LoggedOut' = LoggedOut
            /\ \A x : Login(x)' = Login(x)
        BY <1>1, <3>2, SameNet, SameLogin
      <3>4. \A x : Told(x)' = Told(x)
        BY <1>1, <3>3 DEF Told
      <3>5. LoginTold => LoginTold'
        <4>1. \A i \in 1..Len(inbox) : Told(inbox[i])' = Told(inbox[i])
          <5> TAKE i \in 1..Len(inbox)
          <5>1. PICK x : x = inbox[i]
            OBVIOUS
          <5> QED BY <1>1, <3>4, <5>1 DEF Told
        <4>2. Told(msg)' = Told(msg)
          <5>1. PICK x : x = msg
            OBVIOUS
          <5> QED BY <1>1, <3>4, <5>1 DEF Told
        <4>3. Handling' = Handling
          BY <1>1 DEF Handling
        <4> QED BY <1>1, <3>3, <4>1, <4>2, <4>3 DEF LoginTold
      <3> QED BY <1>1, <2>2, <3>1, <3>2, <3>3, <3>5, StageKept
    <2> QED BY <2>1, <2>2
  <1> QED BY <1>2, <1>3, <1>4, <1>5 DEF IInv

------------------------------------------------------------------------------
(* The types, also after a screen has been started early *)

LEMMA MembersTyped ==
    ASSUME Typed, NEW p \in Screens
    PROVE  LET T == [Screens -> Proc]
           IN /\ \A b \in BOOLEAN : [proc EXCEPT ![p].show = b] \in T
              /\ \A b \in BOOLEAN : [proc EXCEPT ![p].running = b] \in T
              /\ \A f \in -1..1 : [proc EXCEPT ![p].endFlag = f] \in T
              /\ \A e \in Nat : [proc EXCEPT ![p].errors = e] \in T
              /\ \A o \in Operations \cup {NoOper} : [proc EXCEPT ![p].oper = o] \in T
              /\ \A e \in Nat, f \in -1..1 :
                    /\ [proc EXCEPT ![p].errors = e, ![p].endFlag = f] \in T
                    /\ [proc EXCEPT ![p].endFlag = f, ![p].errors = e] \in T
              /\ \A c \in Screens \cup {"none", "exit"} :
                    /\ \A o \in Operations : [proc EXCEPT ![p].choice = c, ![p].oper = o] \in T
                    /\ \A f \in -1..1 : [proc EXCEPT ![p].choice = c, ![p].endFlag = f] \in T
                    /\ [[proc EXCEPT ![p].show = TRUE] EXCEPT ![p].choice = c] \in T
                    /\ [proc EXCEPT ![p].errors = 0, ![p].running = FALSE, ![p].choice = c] \in T
              /\ [proc EXCEPT ![p].errors = 0] \in T /\ [proc EXCEPT ![p].errors = 1] \in T
              /\ [[proc EXCEPT ![p].show = TRUE] EXCEPT ![p].errors = 1] \in T
              /\ [proc EXCEPT ![p].errors = proc[p].errors + 1, ![p].endFlag = -1] \in T
  <1>1. proc \in [Screens -> Proc] /\ proc[p] \in Proc
    BY DEF Typed
  <1> DEFINE With(r) == [x \in Screens |-> IF x = p THEN r ELSE proc[x]]
  <1>2. \A r \in Proc : With(r) \in [Screens -> Proc]
    BY <1>1
  <1> HIDE DEF With
  <1>3. ASSUME NEW b \in BOOLEAN
        PROVE  /\ [proc EXCEPT ![p].show = b] \in [Screens -> Proc]
               /\ [proc EXCEPT ![p].running = b] \in [Screens -> Proc]
    <2>1. /\ [proc EXCEPT ![p].show = b]
                  = With([proc[p] EXCEPT !.show = b])
          /\ [proc[p] EXCEPT !.show = b] \in Proc
      BY <1>1, FlagsAre DEF Proc, With
    <2>2. /\ [proc EXCEPT ![p].running = b]
                  = With([proc[p] EXCEPT !.running = b])
          /\ [proc[p] EXCEPT !.running = b] \in Proc
      BY <1>1, FlagsAre DEF Proc, With
    <2>3. [proc EXCEPT ![p].show = b] \in [Screens -> Proc]
      BY <1>2, <2>1, Zenon
    <2>4. [proc EXCEPT ![p].running = b] \in [Screens -> Proc]
      BY <1>2, <2>2, Zenon
    <2> QED BY <2>3, <2>4
  <1>4. ASSUME NEW f \in -1..1
        PROVE  /\ [proc EXCEPT ![p].endFlag = f] \in [Screens -> Proc]
    <2>1. /\ [proc EXCEPT ![p].endFlag = f]
                  = With([proc[p] EXCEPT !.endFlag = f])
          /\ [proc[p] EXCEPT !.endFlag = f] \in Proc
      BY <1>1, FlagsAre DEF Proc, With
    <2>2. [proc EXCEPT ![p].endFlag = f] \in [Screens -> Proc]
      BY <1>2, <2>1, Zenon
    <2> QED BY <2>2
  <1>5. ASSUME NEW e \in Nat
        PROVE  /\ [proc EXCEPT ![p].errors = e] \in [Screens -> Proc]
               /\ [[proc EXCEPT ![p].show = TRUE] EXCEPT ![p].errors = e] \in [Screens -> Proc]
    <2>1. /\ [proc EXCEPT ![p].errors = e]
                  = With([proc[p] EXCEPT !.errors = e])
          /\ [proc[p] EXCEPT !.errors = e] \in Proc
      BY <1>1, FlagsAre DEF Proc, With
    <2>2. /\ [[proc EXCEPT ![p].show = TRUE] EXCEPT ![p].errors = e]
                  = With([proc[p] EXCEPT !.show = TRUE, !.errors = e])
          /\ [proc[p] EXCEPT !.show = TRUE, !.errors = e] \in Proc
      BY <1>1, FlagsAre DEF Proc, With
    <2>3. [proc EXCEPT ![p].errors = e] \in [Screens -> Proc]
      BY <1>2, <2>1, Zenon
    <2>4. [[proc EXCEPT ![p].show = TRUE] EXCEPT ![p].errors = e] \in [Screens -> Proc]
      BY <1>2, <2>2, Zenon
    <2> QED BY <2>3, <2>4
  <1>6. ASSUME NEW o \in Operations \cup {NoOper}
        PROVE  /\ [proc EXCEPT ![p].oper = o] \in [Screens -> Proc]
    <2>1. /\ [proc EXCEPT ![p].oper = o]
                  = With([proc[p] EXCEPT !.oper = o])
          /\ [proc[p] EXCEPT !.oper = o] \in Proc
      BY <1>1, FlagsAre DEF Proc, With
    <2>2. [proc EXCEPT ![p].oper = o] \in [Screens -> Proc]
      BY <1>2, <2>1, Zenon
    <2> QED BY <2>2
  <1>7. ASSUME NEW e \in Nat, NEW f \in -1..1
        PROVE  /\ [proc EXCEPT ![p].errors = e, ![p].endFlag = f] \in [Screens -> Proc]
               /\ [proc EXCEPT ![p].endFlag = f, ![p].errors = e] \in [Screens -> Proc]
    <2>1. /\ [proc EXCEPT ![p].errors = e, ![p].endFlag = f]
                  = With([proc[p] EXCEPT !.errors = e, !.endFlag = f])
          /\ [proc[p] EXCEPT !.errors = e, !.endFlag = f] \in Proc
      BY <1>1, FlagsAre DEF Proc, With
    <2>2. /\ [proc EXCEPT ![p].endFlag = f, ![p].errors = e]
                  = With([proc[p] EXCEPT !.endFlag = f, !.errors = e])
          /\ [proc[p] EXCEPT !.endFlag = f, !.errors = e] \in Proc
      BY <1>1, FlagsAre DEF Proc, With
    <2>3. [proc EXCEPT ![p].errors = e, ![p].endFlag = f] \in [Screens -> Proc]
      BY <1>2, <2>1, Zenon
    <2>4. [proc EXCEPT ![p].endFlag = f, ![p].errors = e] \in [Screens -> Proc]
      BY <1>2, <2>2, Zenon
    <2> QED BY <2>3, <2>4
  <1>8. ASSUME NEW c \in Screens \cup {"none", "exit"}
        PROVE  /\ [[proc EXCEPT ![p].show = TRUE] EXCEPT ![p].choice = c] \in [Screens -> Proc]
               /\ [proc EXCEPT ![p].errors = 0, ![p].running = FALSE, ![p].choice = c] \in [Screens -> Proc]
    <2>1. /\ [[proc EXCEPT ![p].show = TRUE] EXCEPT ![p].choice = c]
                  = With([proc[p] EXCEPT !.show = TRUE, !.choice = c])
          /\ [proc[p] EXCEPT !.show = TRUE, !.choice = c] \in Proc
      BY <1>1, FlagsAre DEF Proc, With
    <2>2. /\ [proc EXCEPT ![p].errors = 0, ![p].running = FALSE, ![p].choice = c]
                  = With([proc[p] EXCEPT !.errors = 0, !.running = FALSE, !.choice = c])
          /\ [proc[p] EXCEPT !.errors = 0, !.running = FALSE, !.choice = c] \in Proc
      BY <1>1, FlagsAre DEF Proc, With
    <2>3. [[proc EXCEPT ![p].show = TRUE] EXCEPT ![p].choice = c] \in [Screens -> Proc]
      BY <1>2, <2>1, Zenon
    <2>4. [proc EXCEPT ![p].errors = 0, ![p].running = FALSE, ![p].choice = c] \in [Screens -> Proc]
      BY <1>2, <2>2, Zenon
    <2> QED BY <2>3, <2>4
  <1>9. ASSUME NEW c \in Screens \cup {"none", "exit"}, NEW o \in Operations
        PROVE  /\ [proc EXCEPT ![p].choice = c, ![p].oper = o] \in [Screens -> Proc]
    <2>1. /\ [proc EXCEPT ![p].choice = c, ![p].oper = o]
                  = With([proc[p] EXCEPT !.choice = c, !.oper = o])
          /\ [proc[p] EXCEPT !.choice = c, !.oper = o] \in Proc
      BY <1>1, FlagsAre DEF Proc, With
    <2>2. [proc EXCEPT ![p].choice = c, ![p].oper = o] \in [Screens -> Proc]
      BY <1>2, <2>1, Zenon
    <2> QED BY <2>2
  <1>10. ASSUME NEW c \in Screens \cup {"none", "exit"}, NEW f \in -1..1
        PROVE  /\ [proc EXCEPT ![p].choice = c, ![p].endFlag = f] \in [Screens -> Proc]
    <2>1. /\ [proc EXCEPT ![p].choice = c, ![p].endFlag = f]
                  = With([proc[p] EXCEPT !.choice = c, !.endFlag = f])
          /\ [proc[p] EXCEPT !.choice = c, !.endFlag = f] \in Proc
      BY <1>1, FlagsAre DEF Proc, With
    <2>2. [proc EXCEPT ![p].choice = c, ![p].endFlag = f] \in [Screens -> Proc]
      BY <1>2, <2>1, Zenon
    <2> QED BY <2>2
  <1>11. /\ [proc EXCEPT ![p].errors = 0] \in [Screens -> Proc]
         /\ [proc EXCEPT ![p].errors = 1] \in [Screens -> Proc]
         /\ [[proc EXCEPT ![p].show = TRUE] EXCEPT ![p].errors = 1] \in [Screens -> Proc]
    BY <1>5, FlagsAre
  <1>12. [proc EXCEPT ![p].errors = proc[p].errors + 1, ![p].endFlag = -1] \in [Screens -> Proc]
    <2>1. PICK e \in Nat : e = proc[p].errors + 1
      BY <1>1 DEF Proc
    <2> QED BY <1>7, <2>1, FlagsAre
  <1> QED BY <1>3, <1>4, <1>5, <1>6, <1>7, <1>8, <1>9, <1>10, <1>11, <1>12, Zenon

LEMMA SendTyped ==
    ASSUME Typed, NEW k \in Kinds \cup {"exit"}, NEW o \in Operations \cup {NoOper},
           SendRequest(k, o)
    PROVE  /\ NetTyped' /\ sent' \in 0..MaxSent /\ session' = session /\ granted' = granted
  <1>1. [kind |-> k, oper |-> o] \in Requests
    BY DEF Requests
  <1>2. /\ requests' = Append(requests, [kind |-> k, oper |-> o]) /\ inbox' = inbox
        /\ sent' = sent + 1 /\ sent < MaxSent /\ session' = session /\ granted' = granted
    BY DEF SendRequest, CanSend
  <1>3. requests' \in Seq(Requests)
    BY <1>1, <1>2 DEF Typed
  <1>4. sent' \in 0..MaxSent
    BY <1>2, ScreensAssumption DEF Typed
  <1> QED BY <1>2, <1>3, <1>4 DEF Typed, NetTyped

LEMMA FirstKindTyped ==
    ASSUME Typed, NEW p \in Screens, FirstKind(p) # "none"
    PROVE  FirstKind(p) \in Kinds
  <1>1. proc[p].oper \in Operations
    BY DEF FirstKind, Typed, Proc
  <1>2. FirstKind(p) = Head(Steps[proc[p].oper])
    BY DEF FirstKind
  <1> QED BY <1>1, <1>2, KindsAre

LEMMA UnaskedAre == "none" \notin Unasked
  BY DEF Unasked, Batches

\* A step of the main thread.
LEMMA MainKeepsTypes ==
    ASSUME Typed, pc["main"] # "exited", NEW l \in MainPlaces \ {"exited"},
           pc' = [pc EXCEPT !["main"] = l],
           at' = at \/ \E p \in Screens : at' = [at EXCEPT !["main"] = p],
           to' = to \/ \E q \in Screens \cup {"none"} : to' = [to EXCEPT !["main"] = q],
           proc' \in [Screens -> Proc], rights' = rights, pos' = pos, msg' = msg,
           NetTyped', sent' \in 0..MaxSent, session' = session, granted' = granted,
           l \in {"check", "stop", "forget", "switch"} => to'["main"] \in Screens
    PROVE  Typed' /\ Directed'
  <1>1. Typed' /\ pc'["main"] = l
    BY MainTyped
  <1> QED BY <1>1 DEF Directed

\* A step of RecvThread at a screen.
LEMMA RecvKeepsTypes ==
    ASSUME Typed, Directed, pc["recv"] \in AtScreen, NEW l \in AtScreen,
           pc' = [pc EXCEPT !["recv"] = l], at' = at, pos' = pos, msg' = msg,
           \/ to' = to
           \/ \E q \in Screens \cup {"none"} : to' = [to EXCEPT !["recv"] = q],
           l \notin {"check", "stop", "forget", "switch"} => to'["recv"] = "none",
           proc' \in [Screens -> Proc], rights' = rights, NetTyped', sent' \in 0..MaxSent,
           session' = session, granted' = granted
    PROVE  Typed' /\ Directed'
  <1>1. Typed' /\ pc'["main"] = pc["main"]
    BY RecvTyped
  <1>2. to'["main"] = to["main"]
    BY DEF Typed, Threads
  <1> QED BY <1>1, <1>2 DEF Directed

LEMMA ExitKeepsTypes ==
    ASSUME Typed, ExitProgram, UNCHANGED <<proc, rights, at, pos, msg, network>>, to' = to,
           to["recv"] = "none"
    PROVE  Typed' /\ Directed'
  <1>1. pc' = [t \in Threads |-> "exited"]
    BY DEF ExitProgram
  <1>2. /\ pc' \in [Threads -> MainPlaces \cup AtScreen \cup {"recv", "scan"}]
        /\ pc'["main"] = "exited" /\ pc'["recv"] = "exited"
        /\ pc'["main"] \in MainPlaces /\ "exited" \notin AtScreen
    BY <1>1 DEF Threads, MainPlaces, AtScreen
  <1>3. Typed'
    <2>1. /\ proc' = proc /\ rights' = rights /\ at' = at /\ to' = to /\ pos' = pos
          /\ sent' = sent /\ session' = session
          /\ granted' = granted /\ requests' = requests /\ inbox' = inbox
      BY DEF network
    <2> QED BY <1>2, <2>1 DEF Typed
  <1> QED BY <1>2, <1>3 DEF Directed

\* Bad input, and a screen's end, in either thread.
LEMMA GiveUpTyped ==
    ASSUME Typed, Directed, NEW t \in Threads, pc[t] = "input", GiveUp(t),
           UNCHANGED <<rights, at, pos, msg, network>>
    PROVE  Typed' /\ Directed'
  <1>0. PICK p \in Screens : p = at[t]
    BY DEF Typed
  <1>1. /\ pc' = [pc EXCEPT ![t] = "check"] /\ to' = [to EXCEPT ![t] = p]
        /\ proc' = [proc EXCEPT ![p].errors = proc[p].errors + 1, ![p].endFlag = -1]
        /\ at' = at /\ rights' = rights /\ pos' = pos /\ msg' = msg /\ network' = network
    BY <1>0 DEF GiveUp, Goto, network
  <1>2. to'[t] = p
    BY <1>1 DEF Typed
  <1>3. proc' \in [Screens -> Proc]
    BY <1>1, MembersTyped
  <1>4. NetTyped' /\ sent' \in 0..MaxSent /\ session' = session /\ granted' = granted
    BY <1>1, SameNet
  <1>5. CASE t = "main"
    <2>1. "check" \in MainPlaces \ {"exited"}
      BY DEF MainPlaces
    <2> QED BY <1>1, <1>2, <1>3, <1>4, <1>5, <2>1, MainKeepsTypes
  <1>6. CASE t = "recv"
    <2>1. "check" \in AtScreen /\ pc["recv"] \in AtScreen
      BY <1>6 DEF AtScreen
    <2> QED BY <1>1, <1>3, <1>4, <1>6, <2>1, RecvKeepsTypes
  <1> QED BY <1>5, <1>6 DEF Threads

LEMMA CheckTyped ==
    ASSUME Typed, NEW t \in Threads, EndRecvCheck(t)
    PROVE  NetTyped' /\ sent' \in 0..MaxSent /\ session' = session /\ granted' = granted
  <1>1. CASE Leaves(at[t])
    <2>1. SendRequest("exit", NoOper)
      BY <1>1 DEF EndRecvCheck
    <2> QED BY <2>1, SendTyped
  <1>2. CASE ~Leaves(at[t])
    <2>1. network' = network
      BY <1>2 DEF EndRecvCheck, network
    <2> QED BY <2>1, SameNet
  <1> QED BY <1>1, <1>2

\* A thread that asks the user, or starts the operation again, or ends the screen.
LEMMA InputTyped ==
    ASSUME Typed, Directed, NEW t \in Threads, InputGood(t) \/ InputBad(t) \/ SendUnasked(t)
    PROVE  Typed' /\ Directed'
  <1>0. PICK p \in Screens : p = at[t]
    BY DEF Typed
  <1>1. pc[t] = "input" /\ (t = "main" \/ t = "recv")
    BY DEF InputGood, InputBad, SendUnasked, Threads
  <1>2. ASSUME NEW l \in {"input", "notify", "act"}, pc' = [pc EXCEPT ![t] = l],
               l = "notify" => t = "main", l = "act" => t = "recv",
               UNCHANGED <<rights, at, to, pos, msg>>, proc' \in [Screens -> Proc],
               NetTyped', sent' \in 0..MaxSent, session' = session, granted' = granted
        PROVE  Typed' /\ Directed'
    <2>1. CASE t = "main"
      <3>1. l \in MainPlaces \ {"exited"} /\ l \notin {"check", "stop", "forget", "switch"}
        BY <1>2, <2>1 DEF MainPlaces
      <3> QED BY <1>1, <1>2, <2>1, <3>1, MainKeepsTypes
    <2>2. CASE t = "recv"
      <3>1. l \in AtScreen /\ pc["recv"] \in AtScreen /\ to["recv"] = "none"
        BY <1>1, <1>2, <2>2 DEF AtScreen, Typed
      <3> QED BY <1>2, <2>2, <3>1, RecvKeepsTypes
    <2> QED BY <1>1, <2>1, <2>2
  <1>3. Return(t) \in {"notify", "act"} /\ (Return(t) = "notify" <=> t = "main")
    BY DEF Return
  <1>4. ASSUME NEW k, SendRequest(k, proc[p].oper), k = FirstKind(p), k # "none",
               Goto(t, Return(t)), UNCHANGED <<rights, at, to, pos, msg>>,
               proc' = proc \/ proc' = [proc EXCEPT ![p].errors = 0]
        PROVE  Typed' /\ Directed'
    <2>1. k \in Kinds /\ proc[p].oper \in Operations \cup {NoOper}
      BY <1>4, FirstKindTyped DEF Typed, Proc
    <2>2. NetTyped' /\ sent' \in 0..MaxSent /\ session' = session /\ granted' = granted
      BY <1>4, <2>1, SendTyped
    <2>3. proc' \in [Screens -> Proc]
      <3>1. proc \in [Screens -> Proc]
        BY DEF Typed
      <3>2. [proc EXCEPT ![p].errors = 0] \in [Screens -> Proc]
        BY MembersTyped
      <3> QED BY <1>4, <3>1, <3>2
    <2>4. pc' = [pc EXCEPT ![t] = Return(t)]
      BY <1>4 DEF Goto
    <2> QED BY <1>1, <1>2, <1>3, <1>4, <2>2, <2>3, <2>4
  <1>5. CASE InputGood(t)
    <2>1. PICK k : k = FirstKind(p)
      OBVIOUS
    <2>2. /\ k # "none" /\ SendRequest(k, proc[p].oper) /\ Goto(t, Return(t))
          /\ UNCHANGED <<rights, at, to, pos, msg>>
          /\ proc' = proc \/ proc' = [proc EXCEPT ![p].errors = 0]
      BY <1>0, <1>5, <2>1 DEF InputGood
    <2> QED BY <1>4, <2>1, <2>2
  <1>6. CASE SendUnasked(t)
    <2>1. PICK k : k = FirstKind(p)
      OBVIOUS
    <2>2. /\ k # "none" /\ SendRequest(k, proc[p].oper) /\ Goto(t, Return(t))
          /\ UNCHANGED <<rights, at, to, pos, msg>> /\ proc' = proc
      BY <1>0, <1>6, <2>1, UnaskedAre DEF SendUnasked
    <2> QED BY <1>4, <2>1, <2>2
  <1>7. CASE InputBad(t)
    <2>0. /\ UNCHANGED <<rights, at, pos, msg>> /\ network' = network
          /\ NetTyped' /\ sent' \in 0..MaxSent /\ session' = session /\ granted' = granted
      <3>1. UNCHANGED <<rights, at, pos, msg>> /\ network' = network
        BY <1>7 DEF InputBad, network
      <3> QED BY <3>1, SameNet
    <2>1. CASE GiveUp(t)
      BY <1>1, <2>0, <2>1, GiveUpTyped
    <2>2. CASE proc' = [proc EXCEPT ![p].errors = 1] /\ UNCHANGED <<to, pc>>
      <3>1. proc' \in [Screens -> Proc]
        BY <2>2, MembersTyped, FlagsAre
      <3>2. pc' = [pc EXCEPT ![t] = "input"]
        BY <1>1, <2>2 DEF Typed
      <3> QED BY <1>1, <1>2, <2>0, <2>2, <3>1, <3>2
    <2>3. CASE /\ proc' = [Shown(p) EXCEPT ![p].errors = 1]
               /\ Goto(t, Return(t)) /\ to' = to
      <3>1. proc' \in [Screens -> Proc]
        BY <2>3, MembersTyped, FlagsAre DEF Shown
      <3>2. pc' = [pc EXCEPT ![t] = Return(t)]
        BY <2>3 DEF Goto
      <3> QED BY <1>1, <1>2, <1>3, <2>0, <2>3, <3>1, <3>2
    <2> QED BY <1>0, <1>7, <2>1, <2>2, <2>3 DEF InputBad
  <1> QED BY <1>5, <1>6, <1>7

LEMMA MainStepsTyped ==
    ASSUME Typed, Directed, MainSteps
    PROVE  Typed' /\ Directed'
  <1>0. PICK m \in Screens : m = at["main"]
    BY DEF Typed, Threads
  <1>1. MainPlaces \ {"exited"} = {"notify", "run", "flag", "choose", "input", "check", "stop",
                                   "forget", "switch"}
    BY DEF MainPlaces
  <1>2. "main" \in Threads /\ to \in [Threads -> Screens \cup {"none"}]
    BY DEF Typed, Threads
  <1>3. ASSUME NEW p \in Screens, Notify(p) PROVE Typed' /\ Directed'
    <2>1. /\ pc["main"] = "notify" /\ pc' = [pc EXCEPT !["main"] = "run"]
          /\ at' = [at EXCEPT !["main"] = p] /\ proc' = [proc EXCEPT ![p].show = FALSE]
          /\ to' = to /\ rights' = rights /\ pos' = pos /\ msg' = msg /\ network' = network
      BY <1>3 DEF Notify, Goto, network
    <2>2. proc' \in [Screens -> Proc]
      BY <2>1, MembersTyped
    <2> QED BY <1>1, <2>1, <2>2, SameNet, MainKeepsTypes
  <1>4. CASE Run
    <2>1. /\ pc["main"] = "run" /\ pc' = [pc EXCEPT !["main"] = "flag"]
          /\ at' = at /\ proc' = [proc EXCEPT ![m].running = TRUE]
          /\ to' = to /\ rights' = rights /\ pos' = pos /\ msg' = msg /\ network' = network
      BY <1>0, <1>4 DEF Run, Goto, network
    <2>2. proc' \in [Screens -> Proc]
      BY <2>1, MembersTyped
    <2> QED BY <1>1, <2>1, <2>2, SameNet, MainKeepsTypes
  <1>5. CASE Flag
    <2>1. /\ pc["main"] = "flag" /\ pc' = [pc EXCEPT !["main"] = "choose"]
          /\ at' = at /\ proc' = [proc EXCEPT ![m].endFlag = 0, ![m].errors = 0]
          /\ to' = to /\ rights' = rights /\ pos' = pos /\ msg' = msg /\ network' = network
      BY <1>0, <1>5 DEF Flag, Goto, network
    <2>2. proc' \in [Screens -> Proc]
      BY <2>1, MembersTyped, FlagsAre
    <2> QED BY <1>1, <2>1, <2>2, SameNet, MainKeepsTypes
  <1>6. CASE SendUnasked("main")
    <2>1. /\ pc["main"] = "input" /\ pc' = [pc EXCEPT !["main"] = "notify"]
          /\ at' = at /\ proc' = proc
          /\ to' = to /\ rights' = rights /\ pos' = pos /\ msg' = msg
          /\ FirstKind(m) \in Unasked /\ SendRequest(FirstKind(m), proc[m].oper)
      BY <1>0, <1>6 DEF SendUnasked, Goto, Return
    <2>2. FirstKind(m) \in Kinds /\ proc[m].oper \in Operations \cup {NoOper}
      BY <2>1, UnaskedAre, FirstKindTyped DEF Typed, Proc
    <2>3. proc' \in [Screens -> Proc]
      BY <2>1 DEF Typed
    <2> QED BY <1>1, <2>1, <2>2, <2>3, SendTyped, MainKeepsTypes
  <1>7. CASE FileBad("main")
    <2>1. pc["main"] = "input" /\ GiveUp("main") /\ UNCHANGED <<rights, at, pos, msg, network>>
      BY <1>7 DEF FileBad
    <2> QED BY <1>2, <2>1, GiveUpTyped
  <1>8. CASE EndRecvCheck("main")
    <2>1. PICK l \in {"switch", "stop"} : pc' = [pc EXCEPT !["main"] = l]
      BY <1>8 DEF EndRecvCheck, Goto
    <2>2. /\ pc["main"] = "check" /\ proc' = proc /\ rights' = rights /\ at' = at /\ to' = to
          /\ pos' = pos /\ msg' = msg /\ proc' \in [Screens -> Proc]
      BY <1>8 DEF EndRecvCheck, Typed
    <2>3. NetTyped' /\ sent' \in 0..MaxSent /\ session' = session /\ granted' = granted
      BY <1>2, <1>8, CheckTyped
    <2> QED BY <1>1, <2>1, <2>2, <2>3, MainKeepsTypes DEF Directed
  <1>9. CASE EndRecvStop("main")
    <2>1. /\ pc["main"] = "stop" /\ pc' = [pc EXCEPT !["main"] = "forget"] /\ at' = at
          /\ proc' = [proc EXCEPT ![m].errors = 0, ![m].running = FALSE, ![m].choice = "none"]
          /\ to' = to /\ rights' = rights /\ pos' = pos /\ msg' = msg /\ network' = network
      BY <1>0, <1>9 DEF EndRecvStop, Goto, network, Stopped
    <2>2. proc' \in [Screens -> Proc]
      BY <2>1, MembersTyped
    <2> QED BY <1>1, <2>1, <2>2, SameNet, MainKeepsTypes DEF Directed
  <1>10. CASE EndRecvForget("main")
    <2>1. /\ pc["main"] = "forget" /\ pc' = [pc EXCEPT !["main"] = "switch"] /\ at' = at
          /\ proc' = [proc EXCEPT ![m].oper = NoOper]
          /\ to' = to /\ rights' = rights /\ pos' = pos /\ msg' = msg /\ network' = network
      BY <1>0, <1>10 DEF EndRecvForget, Goto, network
    <2>2. proc' \in [Screens -> Proc]
      BY <2>1, MembersTyped
    <2> QED BY <1>1, <2>1, <2>2, SameNet, MainKeepsTypes DEF Directed
  <1>11. CASE Switch("main")
    <2>1. pc["main"] = "switch" /\ to["main"] \in Screens /\ to["main"] # "none"
      BY <1>11, ScreensAre DEF Switch, Directed
    <2>2. PICK q \in Screens : q = to["main"]
      BY <2>1
    <2>3. /\ pc' = [pc EXCEPT !["main"] = "notify"] /\ at' = at
          /\ proc' = [proc EXCEPT ![q].show = TRUE]
          /\ to' = [to EXCEPT !["main"] = "none"]
          /\ rights' = rights /\ pos' = pos /\ msg' = msg /\ network' = network
      BY <1>11, <2>1, <2>2 DEF Switch, Goto, network, Shown, Return
    <2>4. proc' \in [Screens -> Proc]
      BY <2>3, MembersTyped
    <2> QED BY <1>1, <2>1, <2>3, <2>4, SameNet, MainKeepsTypes
  <1> QED BY <1>3, <1>4, <1>5, <1>6, <1>7, <1>8, <1>9, <1>10, <1>11 DEF MainSteps, EndRecv

LEMMA ChooseTyped ==
    ASSUME Typed, Directed, Choose
    PROVE  Typed' /\ Directed'
  <1>0. PICK m \in Screens : m = at["main"]
    BY DEF Typed, Threads
  <1>1. MainPlaces \ {"exited"} = {"notify", "run", "flag", "choose", "input", "check", "stop",
                                   "forget", "switch"}
    BY DEF MainPlaces
  <1>2. pc["main"] = "choose" /\ to \in [Threads -> Screens \cup {"none"}] /\ "main" \in Threads
    BY DEF Choose, Typed, Threads
  <1>3. ASSUME NEW o \in Offered(m), ChooseOper(o) PROVE Typed' /\ Directed'
    <2>1. /\ pc' = [pc EXCEPT !["main"] = "input"] /\ at' = at /\ to' = to
          /\ proc' = [proc EXCEPT ![m].choice = After[o], ![m].oper = o]
          /\ rights' = rights /\ pos' = pos /\ msg' = msg /\ network' = network
      BY <1>0, <1>3 DEF ChooseOper, Goto, network
    <2>2. o \in Operations
      BY DEF Offered, Typed
    <2>3. After[o] \in Screens
      BY <2>2, OperationsAre, ScreensAre
    <2>4. proc' \in [Screens -> Proc]
      BY <2>1, <2>2, <2>3, MembersTyped
    <2> QED BY <1>1, <1>2, <2>1, <2>4, SameNet, MainKeepsTypes
  <1>4. ASSUME NEW q, ChooseScreen(q) PROVE Typed' /\ Directed'
    <2>1. /\ pc' = [pc EXCEPT !["main"] = "check"] /\ at' = at
          /\ to' = [to EXCEPT !["main"] = q]
          /\ proc' = [proc EXCEPT ![m].choice = q, ![m].endFlag = 1]
          /\ rights' = rights /\ pos' = pos /\ msg' = msg /\ network' = network
      BY <1>0, <1>4 DEF ChooseScreen, Goto, network
    <2>2. q \in Screens
      BY <1>4, ScreensAssumption DEF ChooseScreen
    <2>3. proc' \in [Screens -> Proc] /\ to'["main"] = q
      <3>1. q \in Screens \cup {"none", "exit"} /\ 1 \in -1..1
        BY <2>2
      <3>2. [proc EXCEPT ![m].choice = q, ![m].endFlag = 1] \in [Screens -> Proc]
        BY <3>1, MembersTyped, Zenon
      <3> QED BY <1>2, <2>1, <3>2
    <2> QED BY <1>1, <1>2, <2>1, <2>2, <2>3, SameNet, MainKeepsTypes
  <1>5. ASSUME NEW q, ChooseExit(q) PROVE Typed' /\ Directed'
    <2>1. to["recv"] = "none"
      BY DEF Choose, UserReady, Typed
    <2> QED BY <1>5, <2>1, ExitKeepsTypes DEF ChooseExit
  <1>6. CASE ChooseWrong
    <2>1. /\ pc' = [pc EXCEPT !["main"] = "notify"] /\ at' = at /\ to' = to
          /\ proc' = [[proc EXCEPT ![m].show = TRUE] EXCEPT ![m].choice = "none"]
          /\ rights' = rights /\ pos' = pos /\ msg' = msg /\ network' = network
      BY <1>0, <1>6 DEF ChooseWrong, Goto, network, Shown
    <2>2. proc' \in [Screens -> Proc]
      BY <2>1, MembersTyped
    <2> QED BY <1>1, <1>2, <2>1, <2>2, SameNet, MainKeepsTypes
  <1> QED BY <1>0, <1>3, <1>4, <1>5, <1>6 DEF Choose

\* A step of RecvThread that asks the user, or does what comes after.
LEMMA AskTyped ==
    ASSUME Typed, Directed, AskGood \/ AskBad \/ AskNothing \/ NextPart \/ NoPart
    PROVE  Typed' /\ Directed'
  <1>0. PICK p \in Screens : p = at["recv"]
    BY DEF Typed, Threads
  <1>1. /\ pc["recv"] = "ask" /\ pc["recv"] \in AtScreen /\ to["recv"] = "none"
        /\ UNCHANGED <<rights, at, to, pos, msg>> /\ msg \in Acks /\ msg.kind \in Kinds
    <2>1. pc["recv"] = "ask" /\ UNCHANGED <<rights, at, to, pos, msg>>
      BY DEF AskGood, AskBad, AskNothing, NextPart, NoPart, Asking
    <2>2. pc["recv"] \in AtScreen
      BY <2>1 DEF AtScreen
    <2> QED BY <2>1, <2>2 DEF Typed, Acks
  <1>2. proc \in [Screens -> Proc] /\ proc[p].oper \in Operations \cup {NoOper}
        /\ proc[p].errors \in Nat /\ proc[p].errors + 1 \in Nat
    BY DEF Typed, Proc
  <1>3. ASSUME NEW l \in {"act", "input"}, pc' = [pc EXCEPT !["recv"] = l],
               proc' \in [Screens -> Proc],
               NetTyped', sent' \in 0..MaxSent, session' = session, granted' = granted
        PROVE  Typed' /\ Directed'
    <2>1. l \in AtScreen
      BY DEF AtScreen
    <2> QED BY <1>1, <1>3, <2>1, RecvKeepsTypes
  <1>4. ASSUME NEW k \in Kinds, SendRequest(k, proc[p].oper), Goto("recv", "act"),
               proc' = proc \/ proc' = [proc EXCEPT ![p].errors = 0]
        PROVE  Typed' /\ Directed'
    <2>1. NetTyped' /\ sent' \in 0..MaxSent /\ session' = session /\ granted' = granted
      BY <1>2, <1>4, SendTyped
    <2>2. proc' \in [Screens -> Proc]
      <3>1. [proc EXCEPT ![p].errors = 0] \in [Screens -> Proc]
        BY MembersTyped
      <3> QED BY <1>2, <1>4, <3>1
    <2>3. pc' = [pc EXCEPT !["recv"] = "act"]
      BY <1>4 DEF Goto
    <2> QED BY <1>3, <2>1, <2>2, <2>3
  <1>5. CASE AskGood
    <2>1. PICK k : k = NextKind(proc[p].oper, msg.kind)
      OBVIOUS
    <2>2. /\ k # "none" /\ SendRequest(k, proc[p].oper) /\ Goto("recv", "act")
          /\ proc' = proc \/ proc' = [proc EXCEPT ![p].errors = 0]
      BY <1>0, <1>5, <2>1 DEF AskGood
    <2>3. k \in Kinds
      <3>1. proc[p].oper \in Operations
        BY <1>2, <2>1, <2>2 DEF NextKind
      <3> QED BY <2>1, <2>2, <3>1, NextKindIs, KindsAre
    <2> QED BY <1>4, <2>2, <2>3
  <1>6. CASE NextPart
    <2>1. SendRequest(msg.kind, proc[p].oper) /\ Goto("recv", "act") /\ proc' = proc
      BY <1>0, <1>6 DEF NextPart
    <2> QED BY <1>1, <1>4, <2>1
  <1>7. ASSUME NEW P \in [Screens -> Proc], proc' = P, network' = network,
               NEW l \in {"act", "input"}, Goto("recv", l)
        PROVE  Typed' /\ Directed'
    <2>1. pc' = [pc EXCEPT !["recv"] = l]
      BY <1>7 DEF Goto
    <2> QED BY <1>3, <1>7, <2>1, SameNet
  <1>8. CASE AskBad
    <2>1. network' = network
      BY <1>8 DEF AskBad, network
    <2>2. \/ /\ proc' = [proc EXCEPT ![p].errors = proc[p].errors + 1, ![p].endFlag = -1]
             /\ Goto("recv", "act")
          \/ proc' = [proc EXCEPT ![p].errors = 1] /\ Goto("recv", "input")
      BY <1>0, <1>8 DEF AskBad
    <2>3. /\ [proc EXCEPT ![p].errors = proc[p].errors + 1, ![p].endFlag = -1]
                 \in [Screens -> Proc]
          /\ [proc EXCEPT ![p].errors = 1] \in [Screens -> Proc]
      BY MembersTyped
    <2> QED BY <1>7, <2>1, <2>2, <2>3
  <1>9. CASE AskNothing \/ NoPart
    <2>1. network' = network /\ Goto("recv", "act")
      BY <1>9 DEF AskNothing, NoPart, network
    <2>2. PICK f \in {-1, 1} : proc' = [proc EXCEPT ![p].endFlag = f]
      BY <1>0, <1>9 DEF AskNothing, NoPart
    <2>3. [proc EXCEPT ![p].endFlag = f] \in [Screens -> Proc]
      BY MembersTyped, FlagsAre
    <2> QED BY <1>7, <2>1, <2>2, <2>3
  <1> QED BY <1>5, <1>6, <1>8, <1>9

LEMMA NextProcTyped ==
    ASSUME Typed, NEW p \in Screens
    PROVE  NextProc(p) \in Screens
  <1>1. ASSUME proc[p].oper # NoOper PROVE After[proc[p].oper] \in Screens
    <2>1. proc[p].oper \in Operations
      BY <1>1 DEF Typed, Proc
    <2> QED BY <2>1, OperationsAre, ScreensAre
  <1> QED BY <1>1 DEF NextProc

LEMMA EndTyped ==
    ASSUME Typed, Directed, Act \/ EndRecv("recv")
    PROVE  Typed' /\ Directed'
  <1>0. PICK p \in Screens : p = at["recv"]
    BY DEF Typed, Threads
  <1>1. /\ pc["recv"] \in {"act", "check", "stop", "forget", "switch"}
        /\ pc["recv"] \in AtScreen
        /\ {"act", "check", "stop", "forget", "switch"} \subseteq AtScreen
    BY DEF Act, EndRecv, EndRecvCheck, EndRecvStop, EndRecvForget, Switch, AtScreen
  <1>2. "recv" \in Threads /\ to["recv"] \in Screens \cup {"none"} /\ proc \in [Screens -> Proc]
    BY DEF Typed, Threads
  <1>3. CASE Act
    <2>1. /\ pc["recv"] = "act" /\ pc' = [pc EXCEPT !["recv"] = "check"] /\ network' = network
          /\ UNCHANGED <<rights, at, to, pos, msg>>
      BY <1>3 DEF Act, Goto, network
    <2>2. proc' = Shown(p) \/ proc' = Shown(NextProc(p)) \/ proc' = proc
      <3>1. proc' = CASE proc[p].endFlag = -1 -> Shown(p)
                      [] proc[p].endFlag = 1 -> Shown(NextProc(p))
                      [] OTHER -> proc
        BY <1>0, <1>3 DEF Act
      <3>2. proc[p].endFlag = -1 => proc[p].endFlag # 1
        BY FlagsAre
      <3> QED BY <3>1, <3>2
    <2>3. proc' \in [Screens -> Proc]
      <3>1. \A q \in Screens : Shown(q) \in [Screens -> Proc]
        BY MembersTyped DEF Shown
      <3> QED BY <1>2, <2>2, <3>1, NextProcTyped
    <2> QED BY <1>1, <2>1, <2>3, SameNet, RecvKeepsTypes
  <1>4. CASE EndRecvCheck("recv")
    <2>1. PICK l \in {"switch", "stop"} : pc' = [pc EXCEPT !["recv"] = l]
      BY <1>4 DEF EndRecvCheck, Goto
    <2>2. proc' = proc /\ rights' = rights /\ at' = at /\ to' = to /\ pos' = pos /\ msg' = msg
      BY <1>4 DEF EndRecvCheck
    <2>3. NetTyped' /\ sent' \in 0..MaxSent /\ session' = session /\ granted' = granted
      BY <1>2, <1>4, CheckTyped
    <2>4. l \in AtScreen /\ l \in {"check", "stop", "forget", "switch"}
      BY DEF AtScreen
    <2> QED BY <1>1, <1>2, <2>1, <2>2, <2>3, <2>4, RecvKeepsTypes
  <1>5. CASE EndRecvStop("recv")
    <2>1. /\ pc' = [pc EXCEPT !["recv"] = "forget"] /\ at' = at
          /\ proc' = [proc EXCEPT ![p].errors = 0, ![p].running = FALSE, ![p].choice = "none"]
          /\ to' = to /\ rights' = rights /\ pos' = pos /\ msg' = msg /\ network' = network
      BY <1>0, <1>5 DEF EndRecvStop, Goto, network, Stopped
    <2>2. proc' \in [Screens -> Proc]
      BY <2>1, MembersTyped
    <2> QED BY <1>1, <2>1, <2>2, SameNet, RecvKeepsTypes
  <1>6. CASE EndRecvForget("recv")
    <2>1. /\ pc' = [pc EXCEPT !["recv"] = "switch"] /\ at' = at
          /\ proc' = [proc EXCEPT ![p].oper = NoOper]
          /\ to' = to /\ rights' = rights /\ pos' = pos /\ msg' = msg /\ network' = network
      BY <1>0, <1>6 DEF EndRecvForget, Goto, network
    <2>2. proc' \in [Screens -> Proc]
      BY <2>1, MembersTyped
    <2> QED BY <1>1, <2>1, <2>2, SameNet, RecvKeepsTypes
  <1>7. CASE Switch("recv") /\ to["recv"] \in Screens
    <2>0. to["recv"] # "none"
      BY <1>7, ScreensAre
    <2>1. /\ pc' = [pc EXCEPT !["recv"] = "act"] /\ at' = at
          /\ proc' = Shown(to["recv"]) /\ to' = [to EXCEPT !["recv"] = "none"]
          /\ rights' = rights /\ pos' = pos /\ msg' = msg /\ network' = network
      BY <1>7, <2>0 DEF Switch, Goto, Return, network
    <2>2. proc' \in [Screens -> Proc]
      BY <1>7, <2>1, MembersTyped DEF Shown
    <2>3. to'["recv"] = "none"
      BY <2>1 DEF Typed, Threads
    <2> QED BY <1>1, <2>1, <2>2, <2>3, SameNet, RecvKeepsTypes
  <1>8. CASE Switch("recv") /\ to["recv"] = "none"
    <2>0. to["recv"] \notin Screens
      BY <1>8, ScreensAre
    <2>1. /\ pc["recv"] = "switch" /\ pc' = [pc EXCEPT !["recv"] = "scan"] /\ at' = at
          /\ proc' = proc /\ to' = [to EXCEPT !["recv"] = "none"] /\ pos' = pos + 1
          /\ rights' = rights /\ msg' = msg /\ network' = network
      BY <1>8, <2>0 DEF Switch, Goto, network
    <2>2. pos \in 1..Len(Order) /\ msg \in Acks /\ pc["main"] # "exited"
      BY <1>1, <2>1 DEF Typed
    <2>3. pos' \in 1..Len(Order) + 1
      BY <2>1, <2>2, OrderLen
    <2>4. /\ pc'["recv"] = "scan" /\ pc'["main"] = pc["main"] /\ "scan" \notin AtScreen
          /\ pc' \in [Threads -> MainPlaces \cup AtScreen \cup {"recv", "scan"}]
          /\ to' \in [Threads -> Screens \cup {"none"}]
          /\ to'["recv"] = "none" /\ to'["main"] = to["main"]
      BY <2>1 DEF Typed, Threads, AtScreen
    <2>5. NetTyped' /\ sent' \in 0..MaxSent /\ session' = session /\ granted' = granted
      BY <2>1, SameNet
    <2>6. Typed'
      BY <2>1, <2>2, <2>3, <2>4, <2>5 DEF Typed, NetTyped
    <2> QED BY <2>4, <2>6 DEF Directed
  <1> QED BY <1>2, <1>3, <1>4, <1>5, <1>6, <1>7, <1>8 DEF EndRecv

LEMMA EndFlagTyped ==
    ASSUME Typed, NEW p \in Screens
    PROVE  EndFlagAfter(p) \in -1..1
  <1>1. proc[p].endFlag \in -1..1
    BY DEF Typed, Proc
  <1> QED BY <1>1, FlagsAre DEF EndFlagAfter

LEMMA MessageTyped ==
    ASSUME Typed, Directed, TakeMessage \/ Scan
    PROVE  Typed' /\ Directed'
  <1>1. CASE TakeMessage
    <2>1. /\ pc["recv"] = "recv" /\ inbox # <<>> /\ msg' = Head(inbox) /\ inbox' = Tail(inbox)
          /\ pos' = 1 /\ pc' = [pc EXCEPT !["recv"] = "scan"]
          /\ UNCHANGED <<proc, rights, at, to, requests, sent, session, granted>>
      BY <1>1 DEF TakeMessage, Goto
    <2>2. Head(inbox) \in Acks /\ Tail(inbox) \in Seq(Acks)
      <3>1. inbox \in Seq(Acks)
        BY DEF Typed
      <3> QED BY <2>1, <3>1
    <2>3. /\ pc'["recv"] = "scan" /\ pc'["main"] = pc["main"] /\ "scan" \notin AtScreen
          /\ pc' \in [Threads -> MainPlaces \cup AtScreen \cup {"recv", "scan"}]
          /\ pc["main"] # "exited" /\ to["recv"] = "none"
      BY <2>1 DEF Typed, Threads, AtScreen
    <2>4. pos' \in 1..Len(Order) + 1
      BY <2>1, OrderLen
    <2>5. Typed'
      BY <2>1, <2>2, <2>3, <2>4 DEF Typed
    <2> QED BY <2>1, <2>3, <2>5 DEF Directed
  <1>2. CASE Scan
    <2>0. /\ pc["recv"] = "scan" /\ to' = to /\ network' = network /\ msg \in Acks
          /\ to["recv"] = "none" /\ pc["main"] # "exited" /\ proc \in [Screens -> Proc]
      BY <1>2 DEF Scan, Typed
    <2>00. NetTyped' /\ sent' \in 0..MaxSent /\ session' = session /\ granted' = granted
      BY <2>0, SameNet
    <2>1. ASSUME NEW l \in AtScreen \cup {"recv", "scan"}, pc' = [pc EXCEPT !["recv"] = l],
                 at' = at \/ \E p \in Screens : at' = [at EXCEPT !["recv"] = p],
                 proc' \in [Screens -> Proc], rights' \subseteq Operations,
                 pos' \in 1..Len(Order) + 1,
                 l = "recv" => msg' = NoMessage, l # "recv" => msg' \in Acks,
                 l \in AtScreen => /\ l \in {"ask", "act"} /\ msg'.kind # "exit"
                                   /\ pos' \in 1..Len(Order) /\ at'["recv"] = Order[pos']
          PROVE  Typed' /\ Directed'
      <3>1. /\ pc'["recv"] = l /\ pc'["main"] = pc["main"] /\ l # "exited"
            /\ pc' \in [Threads -> MainPlaces \cup AtScreen \cup {"recv", "scan"}]
            /\ at' \in [Threads -> Screens]
        BY <2>1 DEF Typed, Threads, AtScreen
      <3>2. l \notin {"check", "stop", "forget", "switch"}
        BY <2>1 DEF AtScreen
      <3>3. Typed'
        BY <2>0, <2>00, <2>1, <3>1, <3>2 DEF Typed, NetTyped
      <3> QED BY <2>0, <3>1, <3>3 DEF Directed
    <2>2. CASE pos > Len(Order)
      <3>1. /\ msg' = NoMessage /\ pos' = 1 /\ at' = [at EXCEPT !["recv"] = "enter"]
            /\ pc' = [pc EXCEPT !["recv"] = "recv"] /\ proc' = proc /\ rights' = rights
        BY <1>2, <2>2 DEF Scan, Goto
      <3>2. "recv" \notin AtScreen /\ "enter" \in Screens /\ 1 \in 1..Len(Order) + 1
        BY ScreensAre, OrderLen DEF AtScreen
      <3>3. rights' \subseteq Operations
        BY <3>1 DEF Typed
      <3> QED BY <2>0, <2>1, <3>1, <3>2, <3>3
    <2>3. CASE ~(pos > Len(Order))
      <3>1. pos \in 1..Len(Order) /\ pos + 1 \in 1..Len(Order) + 1 /\ pos \in 1..Len(Order) + 1
        BY <2>3, OrderLen DEF Typed
      <3>2. PICK p \in Screens : p = Order[pos]
        BY <3>1, OrderLen, ScreensAre
      <3>3. CASE ExitProgram /\ UNCHANGED <<proc, rights, at, pos, msg>>
        BY <2>0, <3>3, ExitKeepsTypes
      <3>4. CASE pos' = pos + 1 /\ UNCHANGED <<proc, rights, at, pc, msg>>
        <4>1. pc' = [pc EXCEPT !["recv"] = "scan"] /\ "scan" \notin AtScreen
          BY <2>0, <3>4 DEF Typed, Threads, AtScreen
        <4>2. rights' \subseteq Operations
          BY <3>4 DEF Typed
        <4> QED BY <2>0, <2>1, <3>1, <3>4, <4>1, <4>2
      <3>5. ASSUME msg.kind # "exit", at' = [at EXCEPT !["recv"] = p], UNCHANGED <<pos, msg>>,
                   NEW l \in {"ask", "act"}, Goto("recv", l), proc' \in [Screens -> Proc],
                   rights' \subseteq Operations
            PROVE  Typed' /\ Directed'
        <4>1. pc' = [pc EXCEPT !["recv"] = l] /\ l \in AtScreen /\ l # "recv"
          BY <3>5 DEF Goto, AtScreen
        <4>2. at'["recv"] = p
          BY <3>5 DEF Typed, Threads
        <4> QED BY <2>0, <2>1, <3>1, <3>2, <3>5, <4>1, <4>2
      <3>6. CASE /\ msg.kind # "exit" /\ at' = [at EXCEPT !["recv"] = p] /\ UNCHANGED <<pos, msg>>
                 /\ Goto("recv", "ask") /\ UNCHANGED <<proc, rights>>
        <4>1. rights' \subseteq Operations
          BY <3>6 DEF Typed
        <4> QED BY <2>0, <3>5, <3>6, <4>1
      <3>7. CASE /\ msg.kind # "exit" /\ at' = [at EXCEPT !["recv"] = p] /\ UNCHANGED <<pos, msg>>
                 /\ Goto("recv", "act")
                 /\ proc' = [proc EXCEPT ![p].endFlag = EndFlagAfter(p)]
                 /\ rights' = RightsAfterLogin \/ rights' = rights
        <4>1. proc' \in [Screens -> Proc]
          BY <3>7, EndFlagTyped, MembersTyped
        <4>2. rights' \subseteq Operations
          <5>1. LoginOpers \subseteq Operations
            <6>1. "enter" \in Screens
              BY ScreensAre
            <6> QED BY <6>1 DEF Operations, Offers, LoginOpers
          <5>2. rights \subseteq Operations /\ msg.rights \subseteq Operations
            BY <2>0 DEF Typed, Acks
          <5> QED BY <3>7, <5>1, <5>2 DEF RightsAfterLogin
        <4> QED BY <3>5, <3>7, <4>1, <4>2
      <3>8. \/ ExitProgram /\ UNCHANGED <<proc, rights, at, pos, msg>>
            \/ pos' = pos + 1 /\ UNCHANGED <<proc, rights, at, pc, msg>>
            \/ /\ msg.kind # "exit" /\ at' = [at EXCEPT !["recv"] = p] /\ UNCHANGED <<pos, msg>>
               /\ Goto("recv", "ask") /\ UNCHANGED <<proc, rights>>
            \/ /\ msg.kind # "exit" /\ at' = [at EXCEPT !["recv"] = p] /\ UNCHANGED <<pos, msg>>
               /\ Goto("recv", "act")
               /\ proc' = [proc EXCEPT ![p].endFlag = EndFlagAfter(p)]
               /\ rights' = RightsAfterLogin \/ rights' = rights
        BY <1>2, <2>3, <3>2 DEF Scan
      <3> QED BY <3>3, <3>4, <3>6, <3>7, <3>8
    <2> QED BY <2>2, <2>3
  <1> QED BY <1>1, <1>2

LEMMA ServerStepsTyped ==
    ASSUME Typed, Directed, Answer \/ SignOut \/ Kick
    PROVE  Typed' /\ Directed'
  <1>1. /\ UNCHANGED <<proc, rights, pc, at, to, pos, msg>> /\ sent' = sent
        /\ requests \in Seq(Requests) /\ inbox \in Seq(Acks)
        /\ session \in {"none", "in", "kicked"} /\ granted \subseteq Operations
    BY DEF Answer, SignOut, Kick, threadVars, Typed
  <1>2. ASSUME requests' \in Seq(Requests), inbox' \in Seq(Acks),
               session' \in {"none", "in", "kicked"}, granted' \subseteq Operations
        PROVE  Typed' /\ Directed'
    <2>1. NetTyped'
      BY <1>2 DEF NetTyped
    <2> QED BY <1>1, <1>2, <2>1, ServerTyped DEF Directed
  <1>3. ASSUME requests # <<>>
        PROVE  Tail(requests) \in Seq(Requests) /\ Head(requests) \in Requests
    BY <1>1, <1>3
  <1>4. CASE SignOut
    <2>1. /\ requests # <<>> /\ requests' = Tail(requests) /\ inbox' = inbox
          /\ session' = "none" /\ granted' = {}
      BY <1>4 DEF SignOut
    <2> QED BY <1>1, <1>2, <1>3, <2>1
  <1>5. CASE Kick
    <2>1. [kind |-> "exit", oper |-> NoOper] \in Requests
      BY DEF Requests
    <2>2. Ack([kind |-> "exit", oper |-> NoOper], TRUE, {}, FALSE) \in Acks
      BY <2>1, TypeOfAck
    <2>3. /\ session' = "kicked" /\ requests' = requests /\ granted' = granted
          /\ inbox' = Append(inbox, Ack([kind |-> "exit", oper |-> NoOper], TRUE, {}, FALSE))
      BY <1>5 DEF Kick
    <2>4. inbox' \in Seq(Acks)
      <3>1. PICK a \in Acks : inbox' = Append(inbox, a)
        BY <2>2, <2>3
      <3> QED BY <1>1, <3>1
    <2> QED BY <1>1, <1>2, <2>3, <2>4
  <1>6. CASE Answer
    <2>1. requests # <<>> /\ requests' = Tail(requests)
      BY <1>6 DEF Answer
    <2>2. PICK r \in Requests : r = Head(requests)
      BY <1>3, <2>1
    <2>3. \A ok \in BOOLEAN, rs \in SUBSET Operations, more \in BOOLEAN :
              Ack(r, ok, rs, more) \in Acks
      BY TypeOfAck
    <2>4. \/ inbox' = Append(inbox, Ack(r, FALSE, {}, FALSE)) /\ UNCHANGED <<session, granted>>
          \/ /\ \E rs \in Rights : granted' = rs /\ inbox' = Append(inbox, Ack(r, TRUE, rs, FALSE))
             /\ session' = "in"
          \/ inbox' = Append(inbox, Ack(r, TRUE, {}, FALSE)) /\ UNCHANGED <<session, granted>>
          \/ /\ inbox' = inbox \o <<Ack(r, TRUE, {}, TRUE), Ack(r, TRUE, {}, FALSE)>>
             /\ UNCHANGED <<session, granted>>
      BY <1>6, <2>2 DEF Answer
    <2>5. CASE inbox' = Append(inbox, Ack(r, FALSE, {}, FALSE)) /\ UNCHANGED <<session, granted>>
      <3>1. inbox' \in Seq(Acks)
        <4>1. PICK a \in Acks : inbox' = Append(inbox, a)
          BY <2>3, <2>5
        <4> QED BY <1>1, <4>1
      <3> QED BY <1>1, <1>2, <1>3, <2>1, <2>5, <3>1
    <2>6. ASSUME NEW rs \in Rights, granted' = rs,
                 inbox' = Append(inbox, Ack(r, TRUE, rs, FALSE)), session' = "in"
          PROVE  Typed' /\ Directed'
      <3>1. rs \in SUBSET Operations
        BY ScreensAssumption
      <3>2. inbox' \in Seq(Acks)
        <4>1. PICK a \in Acks : inbox' = Append(inbox, a)
          BY <2>3, <2>6, <3>1
        <4> QED BY <1>1, <4>1
      <3> QED BY <1>2, <1>3, <2>1, <2>6, <3>1, <3>2
    <2>7. CASE inbox' = Append(inbox, Ack(r, TRUE, {}, FALSE)) /\ UNCHANGED <<session, granted>>
      <3>1. inbox' \in Seq(Acks)
        <4>1. PICK a \in Acks : inbox' = Append(inbox, a)
          BY <2>3, <2>7
        <4> QED BY <1>1, <4>1
      <3> QED BY <1>1, <1>2, <1>3, <2>1, <2>7, <3>1
    <2>8. CASE /\ inbox' = inbox \o <<Ack(r, TRUE, {}, TRUE), Ack(r, TRUE, {}, FALSE)>>
               /\ UNCHANGED <<session, granted>>
      <3>1. PICK a \in Acks, b \in Acks : inbox' = inbox \o <<a, b>>
        BY <2>3, <2>8
      <3>2. <<a, b>> \in Seq(Acks)
        OBVIOUS
      <3>3. inbox' \in Seq(Acks)
        BY <1>1, <3>1, <3>2
      <3> QED BY <1>1, <1>2, <1>3, <2>1, <2>8, <3>3
    <2> QED BY <2>4, <2>5, <2>6, <2>7, <2>8
  <1> QED BY <1>4, <1>5, <1>6

\* Whatever is started early, a step keeps the types.
LEMMA TypedKept ==
    ASSUME Typed, Directed, [Next]_vars
    PROVE  Typed' /\ Directed'
  <1>1. CASE MainSteps
    BY <1>1, MainStepsTyped
  <1>2. CASE RecvSteps
    <2>1. "recv" \in Threads
      BY DEF Threads
    <2> QED BY <1>2, <2>1, MessageTyped, AskTyped, InputTyped, EndTyped DEF RecvSteps
  <1>3. CASE UserSteps
    BY <1>3, ChooseTyped, InputTyped, AskTyped DEF UserSteps
  <1>4. CASE ServerSteps \/ Kick
    BY <1>4, ServerStepsTyped DEF ServerSteps
  <1>5. CASE UNCHANGED vars
    <2>1. /\ proc' = proc /\ rights' = rights /\ pc' = pc /\ at' = at /\ to' = to /\ pos' = pos
          /\ msg' = msg /\ requests' = requests /\ inbox' = inbox /\ sent' = sent
          /\ session' = session /\ granted' = granted
      BY <1>5 DEF vars, threadVars, network
    <2> QED BY <2>1 DEF Typed, Directed
  <1> QED BY <1>1, <1>2, <1>3, <1>4, <1>5 DEF Next

\* early is changed by Notify only, and not back.
LEMMA EarlyKept ==
    ASSUME early \in BOOLEAN, [Next]_vars
    PROVE  early' \in BOOLEAN /\ (early => early')
  <1>1. ASSUME NEW p \in Screens, Notify(p) PROVE early' \in BOOLEAN /\ (early => early')
    BY <1>1 DEF Notify, Undecided
  <1>2. CASE ~(\E p \in Screens : Notify(p))
    <2>1. early' = early
      BY <1>2 DEF Next, MainSteps, RecvSteps, UserSteps, ServerSteps, EndRecv, Run, Flag, SendUnasked,
         FileBad, EndRecvCheck, EndRecvStop, EndRecvForget, Switch, TakeMessage, Scan,
         AskNothing, NextPart, NoPart, Act, Choose, ChooseOper, ChooseScreen, ChooseExit,
         ChooseWrong, InputGood, InputBad, AskGood, AskBad, Answer, SignOut, Kick, vars
    <2> QED BY <2>1
  <1> QED BY <1>1, <1>2

\* No step of either thread, of the user or of the server breaks it.
LEMMA NextGood ==
    ASSUME Inv, [Next]_vars
    PROVE  Inv'
  <1>1. Typed' /\ Directed' /\ early' \in BOOLEAN /\ (early => early')
    BY TypedKept, EarlyKept DEF Inv
  <1>2. ASSUME ~early' PROVE IInv'
    <2>1. IInv
      BY <1>1, <1>2 DEF Inv
    <2> QED BY <1>2, <2>1, MainGood, RecvGood, UserGood, AnswerGood, SignOutGood, KickGood,
               StutterGood DEF Next, ServerSteps
  <1> QED BY <1>1, <1>2 DEF Inv

LEMMA Kept == Spec => []Inv
  <1>1. Init => Inv
    <2>1. ASSUME Init PROVE IInv /\ early \in BOOLEAN /\ pc["main"] = "notify"
      BY <2>1, InitGood DEF Init
    <2> QED BY <2>1 DEF Inv, IInv, Directed
  <1>2. Inv /\ [Next]_vars => Inv'
    BY NextGood
  <1> QED BY <1>1, <1>2, PTL DEF Spec

------------------------------------------------------------------------------
(* The theorems *)

\* TypeOK: whatever is started early, every member of the screens, every place and every
\* message holds a value of its kind.
THEOREM ScreensTypeCorrect == Spec => []TypeOK
  <1>1. Inv => TypeOK
    <2>1. SUFFICES ASSUME Typed, early \in BOOLEAN PROVE TypeOK
      BY DEF Inv
    <2>2. \A i \in DOMAIN requests : requests[i].kind \in Kinds \cup {"exit"}
      <3>1. requests \in Seq(Requests)
        BY <2>1 DEF Typed
      <3>2. \A i \in DOMAIN requests : requests[i] \in Requests
        BY <3>1
      <3> QED BY <3>2 DEF Requests
    <2> QED BY <2>1, <2>2 DEF TypeOK, Typed, MainPlaces, AtScreen
  <1> QED BY <1>1, Kept, PTL

LEMMA SingletonOrNone ==
    ASSUME NEW S, NEW x, S \subseteq {x}
    PROVE  Cardinality(S) \in {0, 1}
  <1>1. S = {} \/ S = {x}
    OBVIOUS
  <1> QED BY <1>1, FS_EmptySet, FS_Singleton

\* OneRequest: until a screen is started early, the client sends no request before it is
\* done with the answer to the one before, and with the last page of it.
THEOREM OneRequestAtATime == Spec => []OneRequest
  <1>1. Inv => OneRequest
    <2> DEFINE R == {i \in DOMAIN requests : requests[i].kind # "exit"}
               A == {i \in DOMAIN inbox : inbox[i].kind # "exit" /\ ~inbox[i].more}
    <2>1. SUFFICES ASSUME IInv PROVE Cardinality(R) + Cardinality(A) <= 1
      BY DEF OneRequest, Inv
    <2>2. requests \in Seq(Requests) /\ inbox \in Seq(Acks)
      BY <2>1 DEF IInv, Typed
    <2>3. CASE NoFlight
      <3>1. R = {} /\ A = {}
        BY <2>2, <2>3 DEF NoFlight, Exits
      <3> HIDE DEF R, A
      <3> QED BY <3>1, FS_EmptySet
    <2>4. ASSUME NEW o \in Operations, Asked1(o) PROVE Cardinality(R) + Cardinality(A) <= 1
      <3>1. R \subseteq {Len(requests)} /\ A = {}
        BY <2>2, <2>4 DEF Asked1, Exits
      <3> HIDE DEF R, A
      <3>2. Cardinality(R) \in {0, 1} /\ Cardinality(A) = 0
        BY <3>1, SingletonOrNone, FS_EmptySet
      <3> QED BY <3>2
    <2>5. ASSUME NEW o \in Operations, Answered1(o)
          PROVE  Cardinality(R) + Cardinality(A) <= 1
      <3>1. PICK k \in 1..Len(inbox) :
                /\ ~inbox[k].more
                /\ \A i \in 1..Len(inbox) : i = k \/ inbox[i].kind = "exit" \/ inbox[i].more
        BY <2>5 DEF Answered1
      <3>2. R = {} /\ A \subseteq {k}
        BY <2>2, <2>5, <3>1 DEF Answered1
      <3> HIDE DEF R, A
      <3>3. Cardinality(R) = 0 /\ Cardinality(A) \in {0, 1}
        BY <3>2, SingletonOrNone, FS_EmptySet
      <3> QED BY <3>3
    <2> QED BY <2>1, <2>3, <2>4, <2>5 DEF IInv, OneFlight, Await
  <1> QED BY <1>1, Kept, PTL

\* AnswerToAsker: StartRecv gives an answer to the screens that run, and, until a screen is
\* started early, the one that takes it is still at the operation that asked.
THEOREM AnswersGoToAskers == Spec => []AnswerToAsker
  <1>1. Inv => AnswerToAsker
    <2>1. SUFFICES ASSUME IInv, pc["recv"] = "scan", pos <= Len(Order), msg.kind # "exit",
                          proc[Order[pos]].running, Order[pos] \notin Menus
                   PROVE  proc[Order[pos]].oper = msg.oper
      BY DEF AnswerToAsker, Inv
    <2>2. PICK p \in Screens : p = Order[pos]
      BY <2>1, OrderLen, ScreensAre DEF IInv, Typed
    <2> QED BY <2>1, <2>2, ScanFinds DEF Is
  <1> QED BY <1>1, Kept, PTL

\* OwnRights: until a screen is started early, no screen is at an operation to which the user
\* who is logged in now was not given the right, whatever another had before (m_vOperPer).
THEOREM OnlyOwnRights == Spec => []OwnRights
  <1>1. Inv => OwnRights
    BY DEF Inv, IInv, Rightful, OwnRights
  <1> QED BY <1>1, Kept, PTL

\* SignedOut: until a screen is started early, when the user is asked to log in again and
\* nothing is on its way, the exit that CommonSysProc::EndRecv sent has ended the session.
THEOREM SignedOutAgain == Spec => []SignedOut
  <1>1. Inv => SignedOut
    <2>1. SUFFICES ASSUME IInv, pc["main"] = "choose", pc["recv"] = "recv", at["main"] = "enter",
                          requests = <<>>
                   PROVE  session = "none" \/ granted = {}
      BY DEF SignedOut, Inv
    <2>2. LoggedOut
      BY <2>1, IsMainTurn DEF IInv, MainTurn, Login, UserReady
    <2>3. ~ExitSent
      <3>1. Len(<<>>) = 0 /\ 1..0 = {}
        OBVIOUS
      <3> QED BY <2>1, <3>1 DEF ExitSent
    <2> QED BY <2>2, <2>3 DEF LoggedOut
  <1> QED BY <1>1, Kept, PTL
==============================================================================
