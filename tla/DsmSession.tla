----------------------------- MODULE DsmSession -----------------------------
(***************************************************************************)
(* The login session of the driver with one DSM.                           *)
(*                                                                         *)
(* Every handler sends its web-API calls through sendRequest of the same   *)
(* DSM object and with the session id kept in its field Sid, which nothing *)
(* locks.  A call that the DSM refuses for its session logs in again,      *)
(* overwrites Sid and is sent once more.  At SIGTERM the main goroutine    *)
(* logs out while the handlers go on: they may log in again between the    *)
(* moment the DSM ends the session and the one at which Sid is cleared.    *)
(*                                                                         *)
(* An operator whose comment begins with "Mutation" is not part of the     *)
(* model: it is a plausible bug of the operator after it, put in its place *)
(* to see that a property notices.                                         *)
(***************************************************************************)
EXTENDS Integers, FiniteSets

CONSTANTS
    Handlers,   \* the goroutines that make web-API calls
    MaxFaults   \* bound on the mishaps of one behaviour

ASSUME MaxFaultsIsNat == MaxFaults \in Nat

VARIABLES
    opened,     \* the DSM's sessions so far; it never gives an id twice
    live,       \* those that are alive
    sid,        \* DSM.Sid
    req,        \* the handlers' calls
    driver,     \* the main goroutine
    ending,     \* the id of the logout on its way
    tries,      \* logouts tried
    faults      \* mishaps so far

vars == <<opened, live, sid, req, driver, ending, tries, faults>>

MaxTries == 3   \* the loop of RemoveAllDsms
NoSid == 0      \* the empty Sid; the ids are numbered from 1

\* last: how the handler's previous call ended; "refused" by the DSM for its
\* session, "error" for another reason.
ReqType == [pc : {"idle", "sent", "login", "store", "retry", "resent"},
            cookie : 0..opened,
            last : {"none", "ok", "error", "refused"}]

Idle(last) == [pc |-> "idle", cookie |-> NoSid, last |-> last]

At(h, p) == req[h].pc = p

Mishap == faults < MaxFaults /\ faults' = faults + 1

\* The process runs: the gRPC server serves until it exits.
Serving == driver # "stopped"

-----------------------------------------------------------------------------
(* sendRequest.                                                            *)

\* A call leaves with the Sid of the moment.
SendAs(h, pc) == req' = [req EXCEPT ![h].pc = pc, ![h].cookie = sid]

Return(h, last) == req' = [req EXCEPT ![h] = Idle(last)]

\* Mutation: every call logs in first.
SendLogsIn(h) ==
    /\ Serving /\ At(h, "idle") /\ SendAs(h, "login")
    /\ UNCHANGED <<opened, live, sid, driver, ending, tries, faults>>

Send(h) ==
    /\ Serving /\ At(h, "idle") /\ SendAs(h, "sent")
    /\ UNCHANGED <<opened, live, sid, driver, ending, tries, faults>>

\* Mutation: a session error is an error like any other.
AnswerGivesUp(h) ==
    /\ Serving /\ At(h, "sent")
    /\ \/ req[h].cookie \in live /\ Return(h, "ok") /\ UNCHANGED faults
       \/ req[h].cookie \notin live /\ Return(h, "error") /\ UNCHANGED faults
       \/ Mishap /\ Return(h, "error")
    /\ UNCHANGED <<opened, live, sid, driver, ending, tries>>

\* The session errors (105, 106, 119) lead to Login; any other error ends it.
\* Code 105 may also refuse a call of a session that is alive.
Answer(h) ==
    /\ Serving /\ At(h, "sent")
    /\ \/ req[h].cookie \in live /\ Return(h, "ok") /\ UNCHANGED faults
       \/ req[h].cookie \notin live /\ req' = [req EXCEPT ![h].pc = "login"]
          /\ UNCHANGED faults
       \/ Mishap /\ req' = [req EXCEPT ![h].pc = "login"]
       \/ Mishap /\ Return(h, "error")
    /\ UNCHANGED <<opened, live, sid, driver, ending, tries>>

\* The DSM opens a session; its answer may be lost, or the request.
Login(h) ==
    /\ Serving /\ At(h, "login")
    /\ \/ /\ opened' = opened + 1
          /\ live' = live \cup {opened'}
          /\ \/ /\ req' = [req EXCEPT ![h].pc = "store", ![h].cookie = opened']
                /\ UNCHANGED faults
             \/ Return(h, "error") /\ Mishap
       \/ Return(h, "error") /\ Mishap /\ UNCHANGED <<opened, live>>
    /\ UNCHANGED <<sid, driver, ending, tries>>

\* Mutation: the new id is kept only if there is none.
StoreIfEmpty(h) ==
    /\ Serving /\ At(h, "store")
    /\ sid' = IF sid = NoSid THEN req[h].cookie ELSE sid
    /\ req' = [req EXCEPT ![h].pc = "retry", ![h].cookie = NoSid]
    /\ UNCHANGED <<opened, live, driver, ending, tries, faults>>

Store(h) ==
    /\ Serving /\ At(h, "store")
    /\ sid' = req[h].cookie
    /\ req' = [req EXCEPT ![h].pc = "retry", ![h].cookie = NoSid]
    /\ UNCHANGED <<opened, live, driver, ending, tries, faults>>

Retry(h) ==
    /\ Serving /\ At(h, "retry") /\ SendAs(h, "resent")
    /\ UNCHANGED <<opened, live, sid, driver, ending, tries, faults>>

\* The second answer is the last.
ReAnswer(h) ==
    /\ Serving /\ At(h, "resent")
    /\ \/ req[h].cookie \in live /\ Return(h, "ok") /\ UNCHANGED faults
       \/ req[h].cookie \notin live /\ Return(h, "refused") /\ UNCHANGED faults
       \/ Mishap /\ Return(h, "error")
    /\ UNCHANGED <<opened, live, sid, driver, ending, tries>>

Step(h) == Send(h) \/ Answer(h) \/ Login(h) \/ Store(h) \/ Retry(h) \/ ReAnswer(h)

-----------------------------------------------------------------------------
(* The DSM and the main goroutine.                                         *)

\* The DSM ends a session: a timeout, an administrator, a restart.
Expire(s) ==
    /\ s \in live /\ Mishap
    /\ live' = live \ {s}
    /\ UNCHANGED <<opened, sid, req, driver, ending, tries>>

Signal ==
    /\ driver = "running" /\ driver' = "stopping"
    /\ UNCHANGED <<opened, live, sid, req, ending, tries, faults>>

\* Mutation: logging out is tried until it succeeds.
LogoutSendAgain ==
    /\ driver = "stopping"
    /\ driver' = "leaving" /\ ending' = sid
    /\ UNCHANGED <<opened, live, sid, req, tries, faults>>

\* RemoveAllDsms: at most three logouts, each with the Sid of the moment.
LogoutSend ==
    /\ driver = "stopping" /\ tries < MaxTries
    /\ driver' = "leaving" /\ ending' = sid
    /\ UNCHANGED <<opened, live, sid, req, tries, faults>>

\* The DSM ends the session, its answer is lost, the logout fails, or the
\* session is over already; a session error is an error like any other here.
LogoutAnswer ==
    /\ driver = "leaving"
    /\ tries' = tries + 1
    /\ \/ live' = live \ {ending} /\ driver' = "clearing" /\ UNCHANGED faults
       \/ ending \in live /\ Mishap /\ live' = live \ {ending} /\ driver' = "stopping"
       \/ Mishap /\ driver' = "stopping" /\ UNCHANGED live
       \/ ending \notin live /\ driver' = "stopping" /\ UNCHANGED <<live, faults>>
    /\ ending' = NoSid
    /\ UNCHANGED <<opened, sid, req>>

\* The logout that succeeded empties Sid, whatever id it holds by now.
LogoutClear ==
    /\ driver = "clearing"
    /\ driver' = "loggedOut" /\ sid' = NoSid
    /\ UNCHANGED <<opened, live, req, ending, tries, faults>>

\* The process ends, and every handler with it.
End ==
    /\ driver' = "stopped"
    /\ req' = [h \in Handlers |-> Idle(req[h].last)]
    /\ ending' = NoSid
    /\ UNCHANGED <<opened, live, sid, tries, faults>>

Exit ==
    /\ driver = "loggedOut" \/ (driver = "stopping" /\ tries = MaxTries)
    /\ End

\* Nothing locks Sid: a request that reads it while it turns empty, or ceases to
\* be, may see a length without a string.  The handler panics and none recovers.
Torn(h) ==
    /\ Serving /\ req[h].pc \in {"idle", "login", "retry"}
    /\ driver = "clearing" \/ (sid = NoSid /\ \E g \in Handlers : At(g, "store"))
    /\ End

-----------------------------------------------------------------------------
\* The driver starts to serve after the login of AddDsm.
Init ==
    /\ opened = 1 /\ live = {1} /\ sid = 1
    /\ req = [h \in Handlers |-> Idle("none")]
    /\ driver = "running" /\ ending = NoSid
    /\ tries = 0
    /\ faults = 0

Next ==
    \/ \E h \in Handlers : Step(h) \/ Torn(h)
    \/ \E s \in live : Expire(s)
    \/ Signal \/ LogoutSend \/ LogoutAnswer \/ LogoutClear \/ Exit

Spec == Init /\ [][Next]_vars

(* The goroutines are scheduled, and requests keep coming.                 *)
FairSpec ==
    /\ Spec
    /\ \A h \in Handlers : WF_vars(Step(h))
    /\ WF_vars(LogoutSend) /\ WF_vars(LogoutAnswer) /\ WF_vars(LogoutClear)
    /\ WF_vars(Exit)

-----------------------------------------------------------------------------
(* Properties.                                                             *)

\* The shape of the state: every variable has its type.
TypeOK ==
    /\ opened \in Nat
    /\ live \subseteq 1..opened
    /\ sid \in 0..opened
    /\ req \in [Handlers -> ReqType]
    /\ driver \in {"running", "stopping", "leaving", "clearing", "loggedOut", "stopped"}
    /\ ending \in 0..opened
    /\ tries \in 0..MaxTries
    /\ faults \in 0..MaxFaults

\* One expired session, or one other mishap, makes no call fail for its
\* session, however many handlers meet it together and overwrite each other's
\* Sid: the sendRequest of each of them gets a session that is alive.
OneMishapHarmless ==
    driver = "running" /\ faults <= 1 => \A h \in Handlers : req[h].last # "refused"

\* Sid has been emptied, under handlers that may have logged in again since
\* the DSM ended the session.
Cleared == IF driver \in {"loggedOut", "stopped"} THEN 1 ELSE 0

\* The sessions that the driver leaves open on the DSM grow with what went
\* wrong, not with the calls made: each mishap, each logout and the emptying of
\* Sid after it cost at most one session per handler.
SessionsBounded ==
    Cardinality(live) <= 1 + Cardinality(Handlers) * (faults + tries + Cleared)

\* Sessions stop to fail when the DSM stops to end them: a dead Sid, even one
\* stored late over a live one, is replaced by a later call.
Recovers == <>[](sid \in live \/ driver # "running")
=============================================================================
