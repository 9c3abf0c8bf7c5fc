----------------------------- MODULE AdminAccounts -----------------------------
(***************************************************************************)
(* Accounts and sessions of the status pages (internal/gui/handler.go over *)
(* gui_users and gui_sessions): the signup that makes the initial admin,   *)
(* login, logout, and the redirects between the three pages.  Every store  *)
(* call is a statement with its own commit, requests overlap, and any call *)
(* may fail; a crash is such a failure of every request at work.           *)
(*                                                                         *)
(* An operator has a browser and a password of their own, so an account is *)
(* known by its name and by the operator whose password it has.  Names and *)
(* passwords here pass ValidateUsername and ValidatePassword, and a form   *)
(* carries the CSRF token of its session.                                  *)
(***************************************************************************)
EXTENDS Naturals

CONSTANTS Browsers, Names, Nobody,
          Tokens, NoToken, NoSession,
          Lifetime,     \* sessionDuration
          MaxClock      \* bound of the clock in a run

ASSUME NobodyAssumption == Nobody \notin Browsers
ASSUME TokenAssumption == NoToken \notin Tokens
ASSUME TimeAssumption == Lifetime \in Nat /\ MaxClock \in Nat

Session == [user : Names, expires : Nat]
ASSUME NoSessionAssumption == NoSession \notin Session

VARIABLES clock,
          users,      \* gui_users: whose password each name has
          sessions,   \* gui_sessions
          cookie,     \* ct_cve_session of each browser
          pc,         \* the statement its request is at, or the page it shows
          name,       \* the user name it posts
          late        \* was there a user when its signup was posted?

store == <<users, sessions>>
vars == <<clock, store, cookie, pc, name, late>>

(* What a browser shows: nothing of interest, the status page, a form.     *)
Pages == {"none", "page", "signup form", "login form"}
Gets == {"status", "route", "signup", "login"}
Posts == {"signup post", "create", "insert", "login post", "find", "session",
          "logout", "delete"}

TypeOK ==
    /\ clock \in Nat
    /\ users \in [Names -> Browsers \union {Nobody}]
    /\ sessions \in [Tokens -> Session \union {NoSession}]
    /\ \A t \in Tokens :      \* REFERENCES gui_users(id)
          sessions[t] # NoSession => users[sessions[t].user] # Nobody
    /\ cookie \in [Browsers -> Tokens \union {NoToken}]
    /\ pc \in [Browsers -> Pages \union Gets \union Posts]
    /\ name \in [Browsers -> Names]
    /\ late \in [Browsers -> BOOLEAN]

Init ==
    /\ clock = 0
    /\ users = [n \in Names |-> Nobody]
    /\ sessions = [t \in Tokens |-> NoSession]
    /\ cookie = [b \in Browsers |-> NoToken]
    /\ pc = [b \in Browsers |-> "none"]
    /\ name \in [Browsers -> Names]
    /\ late = [b \in Browsers |-> FALSE]

(* A bug for comparison: users are counted by their sessions.              *)
NoUserSignedIn == \A t \in Tokens : sessions[t] = NoSession

(* CountUsers, and the NOT EXISTS of CreateUser.                           *)
NoUsers == \A n \in Names : users[n] = Nobody

(* FindSession.                                                            *)
SignedIn(b) == /\ cookie[b] # NoToken
               /\ sessions[cookie[b]] # NoSession
               /\ sessions[cookie[b]].expires > clock

Goto(b, where) == pc' = [pc EXCEPT ![b] = where]

-----------------------------------------------------------------------------
(* The pages.                                                              *)
Visit(b, url) ==
    /\ pc[b] \in Pages
    /\ Goto(b, url)
    /\ UNCHANGED <<clock, store, cookie, name, late>>

(* requireSession: FindSession that fails is FindSession that finds none.  *)
ServeStatus(b) ==
    /\ pc[b] = "status"
    /\ \/ SignedIn(b) /\ Goto(b, "page")
       \/ Goto(b, "route")
    /\ UNCHANGED <<clock, store, cookie, name, late>>

RouteToForm(b) ==
    /\ pc[b] = "route"
    /\ Goto(b, IF NoUsers THEN "signup" ELSE "login")
    /\ UNCHANGED <<clock, store, cookie, name, late>>

ServeSignup(b) ==
    /\ pc[b] = "signup"
    /\ Goto(b, IF NoUsers THEN "signup form" ELSE "login")
    /\ UNCHANGED <<clock, store, cookie, name, late>>

(* A bug for comparison: the condition of serveLogin the wrong way round.  *)
ServeLoginReversed(b) ==
    /\ pc[b] = "login"
    /\ Goto(b, IF NoUsers THEN "login form" ELSE "signup")
    /\ UNCHANGED <<clock, store, cookie, name, late>>

ServeLogin(b) ==
    /\ pc[b] = "login"
    /\ Goto(b, IF NoUsers THEN "signup" ELSE "login form")
    /\ UNCHANGED <<clock, store, cookie, name, late>>

-----------------------------------------------------------------------------
(* Signup: CountUsers, then, after the password is hashed, CreateUser.     *)
PostSignup(b, n) ==
    /\ pc[b] = "signup form"
    /\ Goto(b, "signup post")
    /\ name' = [name EXCEPT ![b] = n]
    /\ late' = [late EXCEPT ![b] = ~NoUsers]
    /\ UNCHANGED <<clock, store, cookie>>

CountAtSignup(b) ==
    /\ pc[b] = "signup post"
    /\ Goto(b, IF NoUsers THEN "create" ELSE "login")
    /\ UNCHANGED <<clock, store, cookie, name, late>>

(* The INSERT sees the users committed when it starts: ErrUserExists if    *)
(* there is one.                                                           *)
StartCreate(b) ==
    /\ pc[b] = "create"
    /\ Goto(b, IF NoUsers THEN "insert" ELSE "login")
    /\ UNCHANGED <<clock, store, cookie, name, late>>

(* A bug for comparison: ON CONFLICT returns the row that is there.        *)
InsertOrTake(b) ==
    /\ pc[b] = "insert"
    /\ users' = [users EXCEPT ![name[b]] = IF @ = Nobody THEN b ELSE @]
    /\ Goto(b, "session")
    /\ UNCHANGED <<clock, sessions, cookie, name, late>>

(* Its row goes in, unless the name has been taken since.                  *)
InsertUser(b) ==
    /\ pc[b] = "insert"
    /\ users[name[b]] = Nobody
    /\ users' = [users EXCEPT ![name[b]] = b]
    /\ Goto(b, "session")
    /\ UNCHANGED <<clock, sessions, cookie, name, late>>

-----------------------------------------------------------------------------
(* Login: CountUsers, FindUserByUsername and CheckPassword.                *)
PostLogin(b, n) ==
    /\ pc[b] = "login form"
    /\ Goto(b, "login post")
    /\ name' = [name EXCEPT ![b] = n]
    /\ UNCHANGED <<clock, store, cookie, late>>

CountAtLogin(b) ==
    /\ pc[b] = "login post"
    /\ Goto(b, IF NoUsers THEN "signup" ELSE "find")
    /\ UNCHANGED <<clock, store, cookie, name, late>>

(* A bug for comparison: a user that is not found has the empty hash, and  *)
(* any password agrees with it.                                            *)
CheckPasswordIfFound(b) ==
    /\ pc[b] = "find"
    /\ Goto(b, IF users[name[b]] \in {b, Nobody} THEN "session"
                                                ELSE "login form")
    /\ UNCHANGED <<clock, store, cookie, name, late>>

(* An unknown name and a wrong password are the same to the operator.      *)
CheckPassword(b) ==
    /\ pc[b] = "find"
    /\ Goto(b, IF users[name[b]] = b THEN "session" ELSE "login form")
    /\ UNCHANGED <<clock, store, cookie, name, late>>

(* createSession: a row with a token nobody holds, and a cookie that       *)
(* carries it.                                                             *)
InsertSession(b, t) ==
    /\ \A c \in Browsers : cookie[c] # t
    /\ sessions[t] # NoSession => sessions[t].expires <= clock
    /\ sessions' = [sessions EXCEPT ![t] = [user |-> name[b],
                                            expires |-> clock + Lifetime]]

CreateSession(b, t) ==
    /\ pc[b] = "session"
    /\ InsertSession(b, t)
    /\ cookie' = [cookie EXCEPT ![b] = t]
    /\ Goto(b, "status")
    /\ UNCHANGED <<clock, users, name, late>>

-----------------------------------------------------------------------------
(* Logout: the session is looked up, deleted if it is there, and the cookie*)
(* cleared whether or not deleting worked.                                 *)
PostLogout(b) ==
    /\ pc[b] = "page"
    /\ Goto(b, "logout")
    /\ UNCHANGED <<clock, store, cookie, name, late>>

ClearCookie(b) ==
    /\ cookie' = [cookie EXCEPT ![b] = NoToken]
    /\ Goto(b, "login")

FindAtLogout(b) ==
    /\ pc[b] = "logout"
    /\ \/ SignedIn(b) /\ Goto(b, "delete") /\ UNCHANGED cookie
       \/ ClearCookie(b)      \* not found, or FindSession failed
    /\ UNCHANGED <<clock, store, name, late>>

DeleteSession(b) ==
    /\ pc[b] = "delete"
    /\ \/ sessions' = [sessions EXCEPT ![cookie[b]] = NoSession]
       \/ UNCHANGED sessions
    /\ ClearCookie(b)
    /\ UNCHANGED <<clock, users, name, late>>

-----------------------------------------------------------------------------
(* A statement fails, or the client goes away: what it did may stay, and   *)
(* the browser shows an error.                                             *)
Fail(b) ==
    /\ pc[b] \notin Pages
    /\ \/ UNCHANGED users
       \/ /\ pc[b] = "insert"
          /\ users[name[b]] = Nobody
          /\ users' = [users EXCEPT ![name[b]] = b]
    /\ \/ UNCHANGED sessions
       \/ /\ pc[b] = "delete"
          /\ sessions' = [sessions EXCEPT ![cookie[b]] = NoSession]
       \/ pc[b] = "session" /\ \E t \in Tokens : InsertSession(b, t)
    /\ Goto(b, "none")
    /\ UNCHANGED <<clock, cookie, name, late>>

Tick ==
    /\ clock < MaxClock
    /\ clock' = clock + 1
    /\ UNCHANGED <<store, cookie, pc, name, late>>

(* The operator's side, and the server's.                                  *)
Act(b) ==
    \/ \E url \in {"status", "signup", "login"} : Visit(b, url)
    \/ \E n \in Names : PostSignup(b, n) \/ PostLogin(b, n)
    \/ PostLogout(b)

Serve(b) ==
    \/ ServeStatus(b) \/ RouteToForm(b) \/ ServeSignup(b) \/ ServeLogin(b)
    \/ CountAtSignup(b) \/ StartCreate(b) \/ InsertUser(b)
    \/ CountAtLogin(b) \/ CheckPassword(b)
    \/ \E t \in Tokens : CreateSession(b, t)
    \/ FindAtLogout(b) \/ DeleteSession(b)

Next ==
    \/ \E b \in Browsers : Act(b) \/ Serve(b) \/ Fail(b)
    \/ Tick

Spec == Init /\ [][Next]_vars

(* A statement that can run does; operators and failures are not fair.     *)
FairSpec == Spec /\ \A b \in Browsers : WF_vars(Serve(b) \/ Fail(b))
-----------------------------------------------------------------------------
(* A browser is signed in only as a user whose password its operator has,  *)
(* whichever signups for the same name ran at the same time.               *)
OwnAccountOnly ==
    \A b \in Browsers : SignedIn(b) => users[sessions[cookie[b]].user] = b

(* A signup posted when there was a user already makes none.               *)
LateSignupMakesNone ==
    [][\A b \in Browsers :
          pc[b] = "insert" /\ users' # users /\ pc'[b] # pc[b] => ~late[b]]_vars

(* After the initial admin exists, signup is no longer available           *)
(* (README.md).                                                            *)
NoSignupAfterAdmin == [][~NoUsers => users' = users]_vars

(* Whoever opens a page gets one, or an error: the redirects between       *)
(* status, signup and login do not go round in a circle, whatever other    *)
(* operators do.                                                           *)
EveryVisitLands == \A b \in Browsers : pc[b] \in Gets ~> pc[b] \in Pages
=============================================================================
