------------------------------- MODULE Access -------------------------------
(***************************************************************************)
(* The door as a browser tab sees it: who this browser is to the runner    *)
(* (auth.tsx), the login page (Login.tsx), and what the root shows         *)
(* (main.tsx). A sign in or out rebuilds the client and every socket; a    *)
(* socket the runner refused is not opened again before that.              *)
(*                                                                         *)
(* External: the runner, whose session behind the browser's cookie another *)
(* tab may open or end, and which may end it on its own.                   *)
(***************************************************************************)
EXTENDS Naturals, FiniteSets

CONSTANTS MaxChanges,    \* bound: sign-ins and -outs this tab finishes
          MaxOthers,     \* bound: sessions opened or ended elsewhere
          MaxFailures    \* bound: requests that do not reach the runner

VARIABLES anonymous,     \* what the runner lets a browser with no session do, from its start on
          signedIn,      \* the cookie's session is the runner's
          elsewhere,     \* times it was opened or ended elsewhere
          failures,
          info,          \* level of the last answer; "" before the first
          infoFrom,      \* history: what `changed` was when that answer was asked for
          unreachable,   \* error: the first answer did not arrive
          changed,       \* sign-ins and -outs finished; the epoch too
          refreshing,    \* a refresh asked for by a 401 is in flight
          whoAmI,        \* requests to "who am I": [asked, coalesced, answer]
          signIn,        \* the login's request: its step
          signOut,       \* the logout's
          wantLogin,     \* a reader asked for the login page
          nudge,         \* the bar that says to sign in
          shutOut        \* the runner closed this client's sockets with 4401

accessVars == <<anonymous, signedIn, elsewhere, failures, info, infoFrom, unreachable, changed, refreshing,
                whoAmI, signIn, signOut, wantLogin, nudge, shutOut>>

Level == IF signedIn THEN "operate" ELSE anonymous
Steps == {"idle", "sent", "done", "wrong", "failed"}

(* A link that hands over a token signs in at once; else the tab asks.     *)
AccessInit ==
    /\ anonymous \in {"none", "read"} /\ signedIn \in BOOLEAN /\ elsewhere = 0 /\ failures = 0
    /\ info = "" /\ infoFrom = 0 /\ unreachable = FALSE /\ changed = 0 /\ refreshing = FALSE
    /\ \/ whoAmI = {[asked |-> 0, coalesced |-> FALSE, answer |-> ""]} /\ signIn = "idle"
       \/ whoAmI = {} /\ signIn = "sent"
    /\ signOut = "idle" /\ wantLogin = FALSE /\ nudge = FALSE /\ shutOut = FALSE

CanOperate(level) == level \in {"", "operate"}
MustSignIn == info = "none"
LoginPage == MustSignIn \/ ((info # "" \/ unreachable) /\ wantLogin)
AppShown == (info # "" \/ unreachable) /\ ~MustSignIn /\ ~wantLogin

(* What the root's two effects do once `info` has a new level.             *)
Learns(level, from) ==
    /\ info' = level /\ infoFrom' = from
    /\ wantLogin' = (wantLogin /\ ~CanOperate(level))
    /\ nudge' = (nudge /\ ~CanOperate(level))

(* refresh: ask who we are. An answer that was asked for before a sign-in  *)
(* or -out finished is dropped, and so is its failure.                     *)
Ask(coalesced) == [asked |-> changed, coalesced |-> coalesced, answer |-> ""]

RunnerTells == \E a \in whoAmI :
    /\ a.answer = ""
    /\ whoAmI' = (whoAmI \ {a}) \union {[a EXCEPT !.answer = Level]}
    /\ UNCHANGED <<anonymous, signedIn, elsewhere, failures, info, infoFrom, unreachable, changed, refreshing,
                   signIn, signOut, wantLogin, nudge, shutOut>>

\* Every answer believed, whenever it was asked for.
NeverStale(a) == FALSE

Stale(a) == a.asked # changed
AnswerLands == \E a \in whoAmI :
    /\ a.answer # ""
    /\ whoAmI' = whoAmI \ {a}
    /\ refreshing' = (refreshing /\ ~a.coalesced)
    /\ IF Stale(a)
       THEN UNCHANGED <<info, infoFrom, unreachable, wantLogin, nudge>>
       ELSE Learns(a.answer, a.asked) /\ unreachable' = FALSE
    /\ UNCHANGED <<anonymous, signedIn, elsewhere, failures, changed, signIn, signOut, shutOut>>

AskFails == \E a \in whoAmI :
    /\ a.answer = "" /\ failures < MaxFailures
    /\ failures' = failures + 1
    /\ whoAmI' = whoAmI \ {a}
    /\ refreshing' = (refreshing /\ ~a.coalesced)
    /\ unreachable' = (unreachable \/ ~Stale(a))
    /\ UNCHANGED <<anonymous, signedIn, elsewhere, info, infoFrom, changed, signIn, signOut, wantLogin,
                   nudge, shutOut>>

(* unauthorized: a 401, or a socket's 4401. A reader's is an attempt to    *)
(* operate, which is nudged about; the question is asked once at a time.   *)
Unauthorized ==
    /\ nudge' = (nudge \/ info = "read")
    /\ refreshing' = TRUE
    /\ whoAmI' = whoAmI \union (IF refreshing THEN {} ELSE {Ask(TRUE)})

PollRefused ==
    /\ AppShown /\ Level = "none"
    /\ Unauthorized
    /\ UNCHANGED <<anonymous, signedIn, elsewhere, failures, info, infoFrom, unreachable, changed, signIn,
                   signOut, wantLogin, shutOut>>

OperateRefused ==
    /\ AppShown /\ Level = "read"
    /\ Unauthorized
    /\ UNCHANGED <<anonymous, signedIn, elsewhere, failures, info, infoFrom, unreachable, changed, signIn,
                   signOut, wantLogin, shutOut>>

SocketsRefused ==
    /\ AppShown /\ Level = "none" /\ ~shutOut
    /\ shutOut' = TRUE
    /\ Unauthorized
    /\ UNCHANGED <<anonymous, signedIn, elsewhere, failures, info, infoFrom, unreachable, changed, signIn,
                   signOut, wantLogin>>

(* login: its answer says who we are; the client and sockets start anew.   *)
SubmitsSecret ==
    /\ LoginPage /\ signIn = "idle" /\ changed < MaxChanges
    /\ signIn' = "sent"
    /\ UNCHANGED <<anonymous, signedIn, elsewhere, failures, info, infoFrom, unreachable, changed, refreshing,
                   whoAmI, signOut, wantLogin, nudge, shutOut>>

RunnerSignsIn ==
    /\ signIn = "sent"
    /\ \/ signIn' = "done" /\ signedIn' = TRUE /\ failures' = failures
       \/ signIn' = "wrong" /\ UNCHANGED <<signedIn, failures>>
       \/ failures < MaxFailures /\ failures' = failures + 1
          /\ signIn' = "failed" /\ signedIn' = signedIn
    /\ UNCHANGED <<anonymous, elsewhere, info, infoFrom, unreachable, changed, refreshing, whoAmI, signOut,
                   wantLogin, nudge, shutOut>>

Changes(level) == changed' = changed + 1 /\ shutOut' = FALSE /\ Learns(level, changed + 1)

SignInAnswered ==
    /\ signIn \in {"done", "wrong", "failed"}
    /\ signIn' = "idle"
    /\ IF signIn = "done"
       THEN Changes("operate") /\ unreachable' = FALSE /\ whoAmI' = whoAmI
       ELSE \* a wrong token in the link: ask who we are, and the login page shows
            /\ whoAmI' = whoAmI \union (IF info = "" /\ signIn = "wrong" THEN {Ask(FALSE)} ELSE {})
            /\ unreachable' = (unreachable \/ (info = "" /\ signIn = "failed"))
            /\ UNCHANGED <<info, infoFrom, changed, wantLogin, nudge, shutOut>>
    /\ UNCHANGED <<anonymous, signedIn, elsewhere, failures, refreshing, signOut>>

(* logout, offered in the app bar to one who signed in.                    *)
SignsOut ==
    /\ AppShown /\ info = "operate" /\ signOut = "idle" /\ changed < MaxChanges
    /\ signOut' = "sent"
    /\ UNCHANGED <<anonymous, signedIn, elsewhere, failures, info, infoFrom, unreachable, changed, refreshing,
                   whoAmI, signIn, wantLogin, nudge, shutOut>>

RunnerSignsOut ==
    /\ signOut = "sent" /\ signOut' = "done" /\ signedIn' = FALSE
    /\ UNCHANGED <<anonymous, elsewhere, failures, info, infoFrom, unreachable, changed, refreshing, whoAmI,
                   signIn, wantLogin, nudge, shutOut>>

SignOutAnswered ==
    /\ signOut = "done" /\ signOut' = "idle"
    /\ Changes(anonymous)
    /\ UNCHANGED <<anonymous, signedIn, elsewhere, failures, unreachable, refreshing, whoAmI, signIn>>

(* A reader opens the login page, from the chip or the nudge, or closes it.*)
WantsLogin ==
    /\ AppShown /\ info = "read"
    /\ wantLogin' = TRUE
    /\ UNCHANGED <<anonymous, signedIn, elsewhere, failures, info, infoFrom, unreachable, changed, refreshing,
                   whoAmI, signIn, signOut, nudge, shutOut>>
KeepsLooking ==
    /\ wantLogin /\ ~MustSignIn
    /\ wantLogin' = FALSE
    /\ UNCHANGED <<anonymous, signedIn, elsewhere, failures, info, infoFrom, unreachable, changed, refreshing,
                   whoAmI, signIn, signOut, nudge, shutOut>>
NudgeHides ==
    /\ nudge /\ nudge' = FALSE
    /\ UNCHANGED <<anonymous, signedIn, elsewhere, failures, info, infoFrom, unreachable, changed, refreshing,
                   whoAmI, signIn, signOut, wantLogin, shutOut>>

(* Another tab signs in or out, or the session runs out.                   *)
Elsewhere ==
    /\ elsewhere < MaxOthers /\ elsewhere' = elsewhere + 1
    /\ signedIn' = ~signedIn
    /\ UNCHANGED <<anonymous, failures, info, infoFrom, unreachable, changed, refreshing, whoAmI, signIn,
                   signOut, wantLogin, nudge, shutOut>>

AccessNext ==
    \/ RunnerTells \/ AnswerLands \/ AskFails
    \/ PollRefused \/ OperateRefused \/ SocketsRefused
    \/ SubmitsSecret \/ RunnerSignsIn \/ SignInAnswered
    \/ SignsOut \/ RunnerSignsOut \/ SignOutAnswered
    \/ WantsLogin \/ KeepsLooking \/ NudgeHides \/ Elsewhere

AccessSpec == AccessInit /\ [][AccessNext]_accessVars

(* The app polls on every page, the runner answers, and answers arrive.    *)
AccessFairness ==
    /\ WF_accessVars(PollRefused) /\ WF_accessVars(RunnerTells) /\ WF_accessVars(AnswerLands)
    /\ WF_accessVars(RunnerSignsIn) /\ WF_accessVars(SignInAnswered)
    /\ WF_accessVars(RunnerSignsOut) /\ WF_accessVars(SignOutAnswered)

-----------------------------------------------------------------------------
AccessTypeOK ==
    /\ signedIn \in BOOLEAN /\ info \in {"", "operate", "read", "none"}
    /\ changed \in Nat /\ infoFrom \in 0..changed
    /\ signIn \in Steps /\ signOut \in Steps
    /\ \A a \in whoAmI : a.asked \in 0..changed /\ a.coalesced \in BOOLEAN

(* "an answer to 'who am I' that was asked before one finished is stale    *)
(* and is dropped rather than undoing what the login just said": what the  *)
(* tab believes was never asked for before its last sign-in or -out.       *)
SignInStands == info # "" => infoFrom = changed

(* The question a 401 asks is asked once at a time, and the tab is never   *)
(* left thinking that it is being asked when it is not.                    *)
PendingIsAsked ==
    /\ Cardinality({a \in whoAmI : a.coalesced}) <= 1
    /\ refreshing <=> \E a \in whoAmI : a.coalesced

(* A session that ended is noticed: the app does not go on as if it could  *)
(* operate a rig that refuses it.                                          *)
EndIsNoticed ==
    (info = "operate" /\ Level = "none") ~> (info # "operate" \/ Level # "none")

(* An operator's tab that knows it may operate has sockets that the rig    *)
(* has not refused for good.                                               *)
OperatorHasSockets ==
    info = "operate" /\ signedIn /\ whoAmI = {} /\ signOut = "idle" => ~shutOut
=============================================================================
