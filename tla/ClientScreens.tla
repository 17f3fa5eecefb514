---------------------------- MODULE ClientScreens ----------------------------
(***************************************************************************)
(* The client's two threads and the screens (BaseProc and its classes) they *)
(* share.  The main thread (ProcMgr::Notify) starts a screen that is to be *)
(* shown: it asks the user and sends a request.  RecvThread gives an answer *)
(* to the screens that run, asks the user for the next request of the      *)
(* operation, or decides what is shown next.  What the screens are is in    *)
(* ScreenTable.                                                             *)
(***************************************************************************)
EXTENDS ScreenTable, SequencesExt

CONSTANTS Kicks,   \* the server may tell the client to exit
          Rights,  \* the sets of rights users may have
          Visited, \* bound: the screens the users go to
          MaxSent, \* bound: requests sent
          MaxEarly \* bound: requests sent, once a screen has been started early

ASSUME ScreensAssumption ==
    /\ Kicks \in BOOLEAN /\ MaxSent \in Nat /\ MaxEarly \in Nat
    /\ Rights \subseteq SUBSET Operations /\ Visited \subseteq Screens

Threads == {"main", "recv"}

VARIABLES
    proc,     \* the data members of each screen
    rights,   \* m_vOperPer
    pc, at,   \* where each thread is, and the screen it is busy with
    to,       \* the screen it switches to when EndRecv returns
    pos, msg, \* RecvThread: its place in m_mProcMgr, and the message
    requests, \* on their way to the server
    inbox,    \* on their way to the client
    sent,
    session,  \* the server's: "none", "in", or "kicked" by another login
    granted,  \* ghost: the rights the server has sent for it
    early     \* ghost: a screen has been started before StartRecv looked at m_iEndFlag

threadVars == <<pc, at, to, pos, msg>>
network == <<requests, inbox, sent, session, granted>>
vars == <<proc, rights, threadVars, network, early>>

Proc == [show : BOOLEAN, running : BOOLEAN, endFlag : -1..1, errors : Nat,
         oper : Operations \cup {NoOper}, choice : Screens \cup {"none", "exit"}]

\* Mutant of NewProc: m_iEndFlag is not initialized.
NewProcNoFlag == [show |-> FALSE, running |-> FALSE, endFlag |-> 7, errors |-> 0,
                  oper |-> NoOper, choice |-> "none"]

NewProc == [show |-> FALSE, running |-> FALSE, endFlag |-> 0, errors |-> 0,
            oper |-> NoOper, choice |-> "none"]

Goto(t, label) == pc' = [pc EXCEPT ![t] = label]
Shown(p) == [proc EXCEPT ![p].show = TRUE]
Exited == pc["main"] = "exited"
ExitProgram == pc' = [t \in Threads |-> "exited"]

CanSend == sent < MaxSent /\ (early => sent < MaxEarly)

\* Every answer but that to an exit names what it answers; oper is a ghost.
SendRequest(kind, oper) ==
    /\ CanSend /\ sent' = sent + 1
    /\ requests' = Append(requests, [kind |-> kind, oper |-> oper])
    /\ UNCHANGED <<inbox, session, granted>>

------------------------------------------------------------------------------
(* The main thread: Notify and StartProc *)

\* The user types no faster than RecvThread gets through a message.
UserReady == pc["recv"] \in {"recv", "ask", "input"}

\* A handler has returned to StartRecv, which is about to look at m_iEndFlag.  The
\* screen is to be shown already when the handler has ended it (BaseProc.cpp:311), and
\* StartRecv will show it once more.
Undecided(p) == at["recv"] = p /\ pc["recv"] = "act"

\* Nothing keeps Notify from starting a screen RecvThread has shown and has yet to end.
Notify(p) ==
    /\ pc["main"] = "notify" /\ proc[p].show
    /\ at' = [at EXCEPT !["main"] = p]
    /\ proc' = [proc EXCEPT ![p].show = FALSE]
    /\ Goto("main", "run")
    /\ early' = (early \/ Undecided(p))
    /\ UNCHANGED <<rights, to, pos, msg, network>>

Run ==
    /\ pc["main"] = "run"
    /\ proc' = [proc EXCEPT ![at["main"]].running = TRUE]
    /\ Goto("main", "flag")
    /\ UNCHANGED <<rights, at, to, pos, msg, network, early>>

Flag ==
    /\ pc["main"] = "flag"
    /\ proc' = [proc EXCEPT ![at["main"]].endFlag = 0, ![at["main"]].errors = 0]
    /\ Goto("main", "choose")
    /\ UNCHANGED <<rights, at, to, pos, msg, network, early>>

\* The choices a user sees: the others are counted out of the list.
Offered(p) == {o \in rights : ScreenOf[o] = p}

\* The user picks an operation, another screen, or the end of the program.
ChooseOper(o) ==
    /\ CanSend
    /\ proc' = [proc EXCEPT ![at["main"]].choice = After[o], ![at["main"]].oper = o]
    /\ Goto("main", "input")
    /\ UNCHANGED <<rights, at, to, pos, msg, network, early>>

ChooseScreen(q) ==
    /\ q \in Visited /\ (q = "enter" => CanSend)
    /\ proc' = [proc EXCEPT ![at["main"]].choice = q, ![at["main"]].endFlag = 1]
    /\ to' = [to EXCEPT !["main"] = q]
    /\ Goto("main", "check")
    /\ UNCHANGED <<rights, at, pos, msg, network, early>>

ChooseExit(q) ==
    /\ q \notin Screens
    /\ ExitProgram
    /\ UNCHANGED <<proc, rights, at, to, pos, msg, network, early>>

ChooseWrong ==
    /\ proc' = [Shown(at["main"]) EXCEPT ![at["main"]].choice = "none"]
    /\ Goto("main", "notify")
    /\ UNCHANGED <<rights, at, to, pos, msg, network, early>>

Choose ==
    /\ pc["main"] = "choose" /\ UserReady
    /\ \/ \E o \in Offered(at["main"]) : ChooseOper(o)
       \/ \E q \in LeadsTo[at["main"]] : ChooseScreen(q) \/ ChooseExit(q)
       \/ ChooseWrong

------------------------------------------------------------------------------
(* What either thread does for a screen: SwitchToOper *)

\* Where a thread goes when a handler that may have asked the user returns.
Return(t) == IF t = "main" THEN "notify" ELSE "act"

FirstKind(p) == IF proc[p].oper = NoOper THEN "none" ELSE Head(Steps[proc[p].oper])

\* The list of the subjects is asked for, or the first part of a file sent, at once.
SendUnasked(t) ==
    /\ pc[t] = "input" /\ FirstKind(at[t]) \in Unasked
    /\ SendRequest(FirstKind(at[t]), proc[at[t]].oper)
    /\ Goto(t, Return(t))
    /\ UNCHANGED <<proc, rights, at, to, pos, msg, early>>

\* The answers to the questions are good, and the first request is sent.
InputGood(t) ==
    /\ pc[t] = "input" /\ UserReady
    /\ LET p == at[t]
       IN /\ FirstKind(p) \notin Unasked \cup {"none"}
          /\ SendRequest(FirstKind(p), proc[p].oper)
          /\ proc' = IF FirstKind(p) \in Forgiving THEN [proc EXCEPT ![p].errors = 0] ELSE proc
    /\ Goto(t, Return(t))
    /\ UNCHANGED <<rights, at, to, pos, msg, early>>

\* OperInputErrorHandle, and the screen ends.
GiveUp(t) ==
    /\ proc' = [proc EXCEPT ![at[t]].errors = @ + 1, ![at[t]].endFlag = -1]
    /\ to' = [to EXCEPT ![t] = at[t]]
    /\ Goto(t, "check")

\* OperInputErrorHandle: once, the operation starts again; twice, the screen ends.
\* SwitchToOper of a screen without an operation shows it again.
InputBad(t) ==
    /\ pc[t] = "input" /\ UserReady
    /\ LET p == at[t]
       IN /\ FirstKind(p) \notin Unasked
          /\ \/ proc[p].errors >= 1 /\ GiveUp(t)
             \/ /\ proc[p].errors = 0 /\ proc[p].oper # NoOper
                /\ proc' = [proc EXCEPT ![p].errors = 1]
                /\ UNCHANGED <<to, pc>>
             \/ /\ proc[p].errors = 0 /\ proc[p].oper = NoOper
                /\ proc' = [Shown(p) EXCEPT ![p].errors = 1]
                /\ Goto(t, Return(t))
                /\ UNCHANGED to
    /\ UNCHANGED <<rights, at, pos, msg, network, early>>

\* A file with a line that does not fit its columns ends the screen at once.
FileBad(t) ==
    /\ pc[t] = "input" /\ FirstKind(at[t]) \in Batches
    /\ GiveUp(t)
    /\ UNCHANGED <<rights, at, pos, msg, network, early>>

------------------------------------------------------------------------------
(* EndRecv: the check, and then one member after the other *)

\* Mutant of Leaves: asked after the base class has set m_iMyChoose back.
LeavesLate(p) == p = "common" /\ [proc[p] EXCEPT !.choice = "none"].choice = "enter"

\* CommonSysProc::EndRecv sends the exit when its screen leads to the first one.
Leaves(p) == p = "common" /\ proc[p].choice = "enter"

EndRecvCheck(t) ==
    /\ pc[t] = "check"
    /\ IF Leaves(at[t]) THEN SendRequest("exit", NoOper) ELSE UNCHANGED network
    /\ Goto(t, IF proc[at[t]].endFlag = 0 THEN "switch" ELSE "stop")
    /\ UNCHANGED <<proc, rights, at, to, pos, msg, early>>

\* Mutant of Stopped: the screen keeps running.
StoppedNot(p) == [proc EXCEPT ![p].errors = 0, ![p].choice = "none"]

Stopped(p) == [proc EXCEPT ![p].errors = 0, ![p].running = FALSE, ![p].choice = "none"]

EndRecvStop(t) ==
    /\ pc[t] = "stop"
    /\ proc' = Stopped(at[t])
    /\ Goto(t, "forget")
    /\ UNCHANGED <<rights, at, to, pos, msg, network, early>>

EndRecvForget(t) ==
    /\ pc[t] = "forget"
    /\ proc' = [proc EXCEPT ![at[t]].oper = NoOper]
    /\ Goto(t, "switch")
    /\ UNCHANGED <<rights, at, to, pos, msg, network, early>>

\* ProcSwitch after EndRecv, or the end of StartRecv.
Switch(t) ==
    /\ pc[t] = "switch"
    /\ \/ /\ to[t] \in Screens
          /\ proc' = Shown(to[t])
          /\ Goto(t, Return(t))
          /\ UNCHANGED pos
       \/ /\ to[t] = "none"
          /\ pos' = pos + 1
          /\ Goto(t, "scan")
          /\ UNCHANGED proc
    /\ to' = [to EXCEPT ![t] = "none"]
    /\ UNCHANGED <<rights, at, msg, network, early>>

------------------------------------------------------------------------------
(* RecvThread: Recv and StartRecv *)

NoMessage == [kind |-> "none", oper |-> NoOper, ok |-> FALSE, rights |-> {}, more |-> FALSE]

TakeMessage ==
    /\ pc["recv"] = "recv" /\ inbox # <<>>
    /\ msg' = Head(inbox) /\ inbox' = Tail(inbox)
    /\ pos' = 1
    /\ Goto("recv", "scan")
    /\ UNCHANGED <<proc, rights, at, to, requests, sent, session, granted, early>>

\* Mutant of RightsAfterLogin: the rights of an earlier login are not cleared.
RightsAfterLoginKept == rights \cup msg.rights

\* InitVOperPer and SetVOperPer.
RightsAfterLogin == LoginOpers \cup msg.rights

\* A handler for the operation the screen is at.
Expected(p) == proc[p].oper # NoOper /\ msg.kind \in Range(Steps[proc[p].oper])

\* Mutant of EndFlagAfter: an operation that fails does not end the screen.
EndFlagAfterFailure(p) ==
    IF Expected(p) /\ msg.ok THEN IF msg.more THEN proc[p].endFlag ELSE 1 ELSE proc[p].endFlag

\* The screen's handler for the last answer of an operation, for a page, or for an
\* answer that is not for it: what m_iEndFlag becomes.
EndFlagAfter(p) ==
    IF Expected(p) /\ msg.ok
    THEN IF msg.kind \in {"login", "register"} /\ msg.rights = {} THEN -1
         ELSE IF msg.more THEN proc[p].endFlag ELSE 1
    ELSE IF msg.kind \in Handled[p] \/ proc[p].endFlag = 0 THEN -1 ELSE proc[p].endFlag

\* The next screen in m_mProcMgr, if there is one.
Scan ==
    /\ pc["recv"] = "scan"
    /\ IF pos > Len(Order) THEN
          /\ msg' = NoMessage /\ pos' = 1 /\ at' = [at EXCEPT !["recv"] = "enter"]
          /\ Goto("recv", "recv")
          /\ UNCHANGED <<proc, rights>>
       ELSE LET p == Order[pos] IN
          \/ /\ proc[p].running /\ msg.kind = "exit"
             /\ ExitProgram
             /\ UNCHANGED <<proc, rights, at, pos, msg>>
          \/ /\ ~proc[p].running \/ (p \in Menus /\ msg.kind # "exit")
             /\ pos' = pos + 1
             /\ UNCHANGED <<proc, rights, at, pc, msg>>
          \/ /\ proc[p].running /\ p \notin Menus /\ msg.kind # "exit"
             /\ at' = [at EXCEPT !["recv"] = p]
             /\ IF /\ Expected(p) /\ msg.ok
                   /\ msg.kind \in Batches \/ NextKind(proc[p].oper, msg.kind) # "none"
                THEN Goto("recv", "ask") /\ UNCHANGED <<proc, rights>>
                ELSE /\ proc' = [proc EXCEPT ![p].endFlag = EndFlagAfter(p)]
                     /\ rights' = IF Expected(p) /\ msg.ok /\ p = "enter"
                                  THEN RightsAfterLogin ELSE rights
                     /\ Goto("recv", "act")
             /\ UNCHANGED <<pos, msg>>
    /\ UNCHANGED <<to, network, early>>

\* What a handler does next for its operation: the next request, or the next part.
Asking(batch) == pc["recv"] = "ask" /\ (msg.kind \in Batches <=> batch)

\* The user types what the next request needs.
AskGood ==
    /\ Asking(FALSE)
    /\ LET p == at["recv"]
           kind == NextKind(proc[p].oper, msg.kind)
       IN /\ kind # "none" /\ SendRequest(kind, proc[p].oper)
          /\ proc' = IF kind \in Forgiving THEN [proc EXCEPT ![p].errors = 0] ELSE proc
    /\ Goto("recv", "act")
    /\ UNCHANGED <<rights, at, to, pos, msg, early>>

\* OperInputErrorHandle(false): the first time the operation starts again, in
\* this thread.
AskBad ==
    /\ Asking(FALSE)
    /\ LET p == at["recv"]
       IN \/ /\ proc[p].errors >= 1
             /\ proc' = [proc EXCEPT ![p].errors = @ + 1, ![p].endFlag = -1]
             /\ Goto("recv", "act")
          \/ /\ proc[p].errors = 0 /\ CanSend
             /\ proc' = [proc EXCEPT ![p].errors = 1]
             /\ Goto("recv", "input")
    /\ UNCHANGED <<rights, at, to, pos, msg, network, early>>

\* Nothing to ask about: no subjects, which ends the operation well except before
\* an update, or an answer the handler refuses.
AskNothing ==
    /\ Asking(FALSE)
    /\ LET p == at["recv"]
       IN \E flag \in {-1} \cup (IF msg.kind = "getSubjects" /\ p # "updateScore"
                                 THEN {1} ELSE {}) :
              proc' = [proc EXCEPT ![p].endFlag = flag]
    /\ Goto("recv", "act")
    /\ UNCHANGED <<rights, at, to, pos, msg, network, early>>

NextPart ==
    /\ Asking(TRUE)
    /\ SendRequest(msg.kind, proc[at["recv"]].oper)
    /\ Goto("recv", "act")
    /\ UNCHANGED <<proc, rights, at, to, pos, msg, early>>

\* No part is left, or its lines do not fit the columns.
NoPart ==
    /\ Asking(TRUE)
    /\ \E flag \in {-1, 1} : proc' = [proc EXCEPT ![at["recv"]].endFlag = flag]
    /\ Goto("recv", "act")
    /\ UNCHANGED <<rights, at, to, pos, msg, network, early>>

\* GetNextProc.
NextProc(p) ==
    IF proc[p].oper # NoOper THEN After[proc[p].oper]
    ELSE IF proc[p].choice \in Screens THEN proc[p].choice ELSE p

\* StartRecv looks at m_iEndFlag and switches, before it calls EndRecv.
Act ==
    /\ pc["recv"] = "act"
    /\ LET p == at["recv"]
       IN proc' = CASE proc[p].endFlag = -1 -> Shown(p)
                    [] proc[p].endFlag = 1 -> Shown(NextProc(p))
                    [] OTHER -> proc
    /\ Goto("recv", "check")
    /\ UNCHANGED <<rights, at, to, pos, msg, network, early>>

------------------------------------------------------------------------------
(* The server *)

Ack(r, ok, rs, more) ==
    [kind |-> r.kind, oper |-> r.oper, ok |-> ok, rights |-> rs, more |-> more]

\* A failure, the answer, or two pages of it.
Answer ==
    /\ ~Exited /\ requests # <<>> /\ Head(requests).kind # "exit"
    /\ requests' = Tail(requests)
    /\ LET r == Head(requests)
       IN \/ /\ inbox' = Append(inbox, Ack(r, FALSE, {}, FALSE))
             /\ UNCHANGED <<session, granted>>
          \/ /\ r.oper \in LoginOpers
             /\ \E rs \in Rights :
                   granted' = rs /\ inbox' = Append(inbox, Ack(r, TRUE, rs, FALSE))
             /\ session' = "in"
          \/ /\ r.oper \notin LoginOpers
             /\ \/ inbox' = Append(inbox, Ack(r, TRUE, {}, FALSE))
                \/ /\ r.kind \in Paged
                   /\ inbox' = inbox \o <<Ack(r, TRUE, {}, TRUE), Ack(r, TRUE, {}, FALSE)>>
             /\ UNCHANGED <<session, granted>>
    /\ UNCHANGED <<proc, rights, threadVars, sent, early>>

\* An exit is not answered.
SignOut ==
    /\ ~Exited /\ requests # <<>> /\ Head(requests).kind = "exit"
    /\ requests' = Tail(requests)
    /\ session' = "none" /\ granted' = {}
    /\ UNCHANGED <<proc, rights, threadVars, inbox, sent, early>>

\* The account logs in elsewhere.
Kick ==
    /\ ~Exited /\ Kicks /\ session = "in"
    /\ session' = "kicked"
    /\ inbox' = Append(inbox, Ack([kind |-> "exit", oper |-> NoOper], TRUE, {}, FALSE))
    /\ UNCHANGED <<proc, rights, threadVars, requests, sent, granted, early>>

------------------------------------------------------------------------------
Init ==
    /\ proc = [p \in Screens |-> [NewProc EXCEPT !.show = (p = "enter")]]
    /\ rights = LoginOpers
    /\ pc = [main |-> "notify", recv |-> "recv"]
    /\ at = [t \in Threads |-> "enter"] /\ to = [t \in Threads |-> "none"]
    /\ pos = 1 /\ msg = NoMessage
    /\ requests = <<>> /\ inbox = <<>> /\ sent = 0
    /\ session = "none" /\ granted = {} /\ early = FALSE

EndRecv(t) == EndRecvCheck(t) \/ EndRecvStop(t) \/ EndRecvForget(t) \/ Switch(t)

\* Steps of the program, and steps that wait for the user.
MainSteps ==
    (\E p \in Screens : Notify(p)) \/ Run \/ Flag \/ SendUnasked("main") \/ FileBad("main")
        \/ EndRecv("main")
RecvSteps ==
    TakeMessage \/ Scan \/ AskNothing \/ NextPart \/ NoPart \/ SendUnasked("recv") \/ Act
        \/ EndRecv("recv")
UserSteps == Choose \/ (\E t \in Threads : InputGood(t) \/ InputBad(t)) \/ AskGood \/ AskBad
ServerSteps == Answer \/ SignOut

Next == MainSteps \/ RecvSteps \/ UserSteps \/ ServerSteps \/ Kick

Spec == Init /\ [][Next]_vars

FairSpec == Spec /\ WF_vars(MainSteps) /\ WF_vars(RecvSteps) /\ WF_vars(ServerSteps)

------------------------------------------------------------------------------
(* Properties *)

\* Every variable holds values of its kind.
TypeOK ==
    /\ proc \in [Screens -> Proc]
    /\ rights \subseteq Operations
    /\ pc["main"] \in {"notify", "run", "flag", "choose", "input", "check", "stop", "forget",
                       "switch", "exited"}
    /\ pc["recv"] \in {"recv", "scan", "ask", "input", "act", "check", "stop", "forget",
                       "switch", "exited"}
    /\ at \in [Threads -> Screens] /\ to \in [Threads -> Screens \cup {"none"}]
    /\ pos \in 1..Len(Order) + 1
    /\ \A i \in DOMAIN requests : requests[i].kind \in Kinds \cup {"exit"}
    /\ sent \in 0..MaxSent /\ session \in {"none", "in", "kicked"}
    /\ granted \subseteq Operations /\ early \in BOOLEAN

\* RecvThread gives a message to every screen that runs, m_iEndFlag being 0 or not:
\* until a screen is started early, the only one that takes an answer is the one that
\* sent its request, and is still at that operation.
AnswerToAsker ==
    ~early /\ pc["recv"] = "scan" /\ pos <= Len(Order) /\ msg.kind # "exit" =>
        LET p == Order[pos]
        IN proc[p].running /\ p \notin Menus => proc[p].oper = msg.oper

\* Until a screen is started early, the client does not send a request while another
\* is unanswered or an answer to it, or its last page, is not yet handled.
OneRequest ==
    ~early =>
        Cardinality({i \in DOMAIN requests : requests[i].kind # "exit"})
            + Cardinality({i \in DOMAIN inbox : inbox[i].kind # "exit" /\ ~inbox[i].more}) <= 1

\* Until a screen is started early, the operation a screen is at is one the server
\* gave the user who is logged in now a right to, whoever was logged in before, and
\* however the login ended.
OwnRights ==
    ~early => \A p \in Screens : proc[p].oper \in granted \cup LoginOpers \cup {NoOper}

\* Until a screen is started early: when the user chooses on the first screen again and
\* nothing is on its way, the server has no session for the client, but one of a user
\* without rights.
SignedOut ==
    /\ ~early /\ pc["recv"] = "recv" /\ requests = <<>> /\ inbox = <<>>
    /\ pc["main"] = "choose" /\ at["main"] = "enter"
    => session = "none" \/ granted = {}

\* The user is asked something, by either thread, or the program has ended.
Asked ==
    \/ pc["main"] \in {"choose", "exited"}
    \/ pc["recv"] = "ask" /\ msg.kind \notin Batches
    \/ \E t \in Threads : pc[t] = "input" /\ FirstKind(at[t]) \notin Unasked

\* The user has chosen an operation of a screen that does not run, nor does any other,
\* and none is to be shown: nobody will take the answer.
Deserted ==
    /\ pc["main"] = "notify" /\ \E p \in Screens : proc[p].oper # NoOper
    /\ \A p \in Screens : ~proc[p].show /\ ~proc[p].running

\* Whatever is answered or typed, and whichever thread overtakes the other, the user is
\* asked again, as long as the bounds allow the client to send.  The exception is a
\* screen that Notify has started again before EndRecv ended it (EnterSysProc.cpp:75): it
\* asks once more, and then no screen runs any more.
AskedOrDeserted == []<>(Asked \/ (early /\ ~CanSend)) \/ <>[]Deserted
==============================================================================
