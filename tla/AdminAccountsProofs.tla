-------------------------- MODULE AdminAccountsProofs --------------------------
(***************************************************************************)
(* Theorems about AdminAccounts, for any number of browsers, user names    *)
(* and session tokens, and any lifetime of a session.                      *)
(***************************************************************************)
EXTENDS AdminAccounts, TLAPS

Places == Pages \union Gets \union Posts

(* A browser's session, current or expired, is of its operator's account,  *)
(* and so is the one it is about to get.                                   *)
Own(b) ==
    /\ cookie[b] # NoToken /\ sessions[cookie[b]] # NoSession =>
          users[sessions[cookie[b]].user] = b
    /\ pc[b] = "session" => users[name[b]] = b

(* A signup gets as far as creating a user only if none was there when it  *)
(* was posted.                                                             *)
Prompt(b) ==
    /\ late[b] => ~NoUsers
    /\ pc[b] \in {"create", "insert"} => ~late[b]

(* The inductive invariant.                                                *)
IInv ==
    /\ TypeOK
    /\ \A b \in Browsers : Own(b)
    /\ \A b \in Browsers : Prompt(b)

-----------------------------------------------------------------------------
LEMMA InitHolds == Init => IInv
<1> SUFFICES ASSUME Init PROVE IInv
  OBVIOUS
<1>1. TypeOK
  BY DEF Init, TypeOK, Pages
<1>2. \A b \in Browsers : Own(b) /\ Prompt(b)
  BY DEF Init, Own, Prompt
<1>3. QED
  BY <1>1, <1>2 DEF IInv

(* A step that only moves a browser on keeps the invariant, if it is owed  *)
(* a session where it gets one, and no latecomer where it makes a user.    *)
LEMMA MoveHolds ==
    ASSUME IInv, NEW b \in Browsers, NEW w \in Places, Goto(b, w),
           UNCHANGED <<clock, store, cookie, name, late>>,
           w = "session" => users[name[b]] = b,
           w \in {"create", "insert"} => ~late[b]
    PROVE  IInv'
<1>1. TypeOK'
  BY DEF IInv, TypeOK, Goto, Places, store
<1>2. pc'[b] = w /\ \A c \in Browsers \ {b} : pc'[c] = pc[c]
  BY DEF IInv, TypeOK, Goto
<1>3. \A c \in Browsers : Own(c)'
  BY <1>2 DEF IInv, Own, store
<1>4. \A c \in Browsers : Prompt(c)'
  BY <1>2 DEF IInv, Prompt, NoUsers, store
<1>5. QED
  BY <1>1, <1>3, <1>4 DEF IInv

(* Users are only added: what was somebody's account stays it.             *)
LEMMA AddUserFacts ==
    ASSUME IInv, NEW b \in Browsers, users[name[b]] = Nobody,
           users' = [users EXCEPT ![name[b]] = b]
    PROVE  /\ users' \in [Names -> Browsers \union {Nobody}]
           /\ users'[name[b]] = b
           /\ \A n \in Names : users[n] # Nobody => users'[n] = users[n]
           /\ \A n \in Names : users[n] # Nobody => users'[n] # Nobody
           /\ \A c \in Browsers, n \in Names : users[n] = c => users'[n] = c
           /\ ~NoUsers'
<1>1. name[b] \in Names /\ users \in [Names -> Browsers \union {Nobody}]
  BY DEF IInv, TypeOK
<1>2. /\ users' \in [Names -> Browsers \union {Nobody}]
      /\ users'[name[b]] = b
      /\ \A n \in Names \ {name[b]} : users'[n] = users[n]
  BY <1>1
<1>3. ~NoUsers'
  BY <1>1, <1>2, NobodyAssumption DEF NoUsers
<1>4. QED
  BY <1>1, <1>2, <1>3, NobodyAssumption

-----------------------------------------------------------------------------
(* The steps.                                                              *)
LEMMA QuietHolds ==
    ASSUME IInv, NEW b \in Browsers,
           \/ \E url \in {"status", "signup", "login"} : Visit(b, url)
           \/ PostLogout(b)
           \/ ServeStatus(b) \/ RouteToForm(b) \/ ServeSignup(b)
           \/ ServeLogin(b) \/ CountAtLogin(b)
    PROVE  IInv'
<1>1. PICK w \in Pages \union Gets \union {"logout", "find"} : Goto(b, w)
  BY DEF Visit, PostLogout, ServeStatus, RouteToForm, ServeSignup, ServeLogin,
         CountAtLogin, Pages, Gets
<1>2. UNCHANGED <<clock, store, cookie, name, late>>
  BY DEF Visit, PostLogout, ServeStatus, RouteToForm, ServeSignup, ServeLogin,
         CountAtLogin
<1>3. w \in Places /\ w \notin {"session", "create", "insert"}
  BY DEF Places, Pages, Gets, Posts
<1>4. QED
  BY <1>1, <1>2, <1>3, MoveHolds

LEMMA CountsHold ==
    ASSUME IInv, NEW b \in Browsers, CountAtSignup(b) \/ StartCreate(b)
    PROVE  IInv'
<1>1. UNCHANGED <<clock, store, cookie, name, late>>
  BY DEF CountAtSignup, StartCreate
<1>2. CASE NoUsers
  <2>1. ~late[b]
    BY <1>2 DEF IInv, Prompt
  <2>2. Goto(b, "create") \/ Goto(b, "insert")
    BY <1>2 DEF CountAtSignup, StartCreate
  <2>3. QED
    BY <1>1, <2>1, <2>2, MoveHolds DEF Places, Posts
<1>3. CASE ~NoUsers
  <2>1. Goto(b, "login")
    BY <1>3 DEF CountAtSignup, StartCreate
  <2>2. QED
    BY <1>1, <2>1, MoveHolds DEF Places, Gets
<1>4. QED
  BY <1>2, <1>3

LEMMA CheckPasswordHolds ==
    ASSUME IInv, NEW b \in Browsers, CheckPassword(b)
    PROVE  IInv'
<1>1. UNCHANGED <<clock, store, cookie, name, late>>
  BY DEF CheckPassword
<1>2. CASE users[name[b]] = b
  BY <1>1, <1>2, MoveHolds DEF CheckPassword, Places, Posts
<1>3. CASE users[name[b]] # b
  BY <1>1, <1>3, MoveHolds DEF CheckPassword, Places, Pages
<1>4. QED
  BY <1>2, <1>3

LEMMA PostFormHolds ==
    ASSUME IInv, NEW b \in Browsers, NEW n \in Names,
           PostSignup(b, n) \/ PostLogin(b, n)
    PROVE  IInv'
<1>1. PICK w \in {"signup post", "login post"} : Goto(b, w)
  BY DEF PostSignup, PostLogin
<1>2. /\ name' = [name EXCEPT ![b] = n]
      /\ UNCHANGED <<clock, store, cookie>>
      /\ late' = [late EXCEPT ![b] = ~NoUsers] \/ UNCHANGED late
  BY DEF PostSignup, PostLogin
<1>3. TypeOK'
  BY <1>1, <1>2 DEF IInv, TypeOK, Goto, Posts, store, NoUsers
<1>4. /\ pc'[b] = w
      /\ \A c \in Browsers \ {b} : pc'[c] = pc[c] /\ name'[c] = name[c]
                                     /\ late'[c] = late[c]
  BY <1>1, <1>2 DEF IInv, TypeOK, Goto
<1>5. \A c \in Browsers : Own(c)'
  BY <1>2, <1>4 DEF IInv, Own, store
<1>6. late'[b] => ~NoUsers
  BY <1>2 DEF IInv, TypeOK, Prompt
<1>7. \A c \in Browsers : Prompt(c)'
  BY <1>2, <1>4, <1>6 DEF IInv, Prompt, NoUsers, store
<1>8. QED
  BY <1>3, <1>5, <1>7 DEF IInv

(* A browser makes its account, and is owed a session for it or gets an    *)
(* error.                                                                  *)
LEMMA AddUserHolds ==
    ASSUME IInv, NEW b \in Browsers, pc[b] = "insert", users[name[b]] = Nobody,
           users' = [users EXCEPT ![name[b]] = b],
           Goto(b, "session") \/ Goto(b, "none"),
           UNCHANGED <<clock, sessions, cookie, name, late>>
    PROVE  IInv'
<1>1. /\ users' \in [Names -> Browsers \union {Nobody}]
      /\ users'[name[b]] = b
      /\ \A n \in Names : users[n] # Nobody => users'[n] # Nobody
      /\ \A c \in Browsers, n \in Names : users[n] = c => users'[n] = c
      /\ ~NoUsers'
  BY AddUserFacts
<1>2. \A t \in Tokens : sessions[t] # NoSession => sessions[t].user \in Names
  BY DEF IInv, TypeOK, Session
<1>3. /\ pc'[b] \in {"session", "none"}
      /\ \A c \in Browsers \ {b} : pc'[c] = pc[c]
  BY DEF IInv, TypeOK, Goto
<1>4. TypeOK'
  BY <1>1, <1>2 DEF IInv, TypeOK, Goto, Pages, Posts
<1>5. ASSUME NEW c \in Browsers PROVE Own(c)'
  <2>1. cookie[c] # NoToken => cookie[c] \in Tokens
    BY DEF IInv, TypeOK
  <2>2. name[c] \in Names
    BY DEF IInv, TypeOK
  <2>3. cookie[c] # NoToken /\ sessions[cookie[c]] # NoSession =>
            users'[sessions[cookie[c]].user] = c
    BY <1>1, <1>2, <2>1 DEF IInv, Own
  <2>4. pc'[c] = "session" => users'[name[c]] = c
    BY <1>1, <1>3, <2>2 DEF IInv, Own
  <2>5. QED
    BY <2>3, <2>4 DEF Own
<1>6. \A c \in Browsers : Prompt(c)'
  BY <1>1, <1>3 DEF IInv, Prompt
<1>7. QED
  BY <1>4, <1>5, <1>6 DEF IInv

(* A session is created for a user who logged in, and held or lost.        *)
LEMMA SessionHolds ==
    ASSUME IInv, NEW b \in Browsers, NEW t \in Tokens, pc[b] = "session", InsertSession(b, t),
           UNCHANGED cookie \/ cookie' = [cookie EXCEPT ![b] = t],
           Goto(b, "status") \/ Goto(b, "none"),
           UNCHANGED <<clock, users, name, late>>
    PROVE  IInv'
<1> DEFINE x == [user |-> name[b], expires |-> clock + Lifetime]
<1>1. /\ pc[b] = "session"
      /\ \A c \in Browsers : cookie[c] # t
      /\ sessions' = [sessions EXCEPT ![t] = x]
      /\ UNCHANGED cookie \/ cookie' = [cookie EXCEPT ![b] = t]
      /\ Goto(b, "status") \/ Goto(b, "none")
      /\ UNCHANGED <<clock, users, name, late>>
  BY DEF InsertSession
<1>2. users[name[b]] = b /\ name[b] \in Names
  BY <1>1 DEF IInv, Own, TypeOK
<1>3. x \in Session /\ x.user = name[b]
  BY <1>2, TimeAssumption DEF IInv, TypeOK, Session
<1> HIDE DEF x
<1>4. /\ sessions'[t] = x
      /\ \A s \in Tokens \ {t} : sessions'[s] = sessions[s]
      /\ sessions' \in [Tokens -> Session \union {NoSession}]
  BY <1>1, <1>3 DEF IInv, TypeOK
<1>5. /\ pc'[b] \in {"status", "none"} /\ (cookie'[b] = t \/ cookie'[b] = cookie[b])
      /\ \A c \in Browsers \ {b} : pc'[c] = pc[c] /\ cookie'[c] = cookie[c]
  BY <1>1 DEF IInv, TypeOK, Goto
<1>6. \A s \in Tokens : sessions'[s] # NoSession => users[sessions'[s].user] # Nobody
  BY <1>2, <1>3, <1>4, NobodyAssumption DEF IInv, TypeOK
<1>7. TypeOK'
  <2>1. cookie' \in [Browsers -> Tokens \union {NoToken}]
    BY <1>1 DEF IInv, TypeOK
  <2>2. pc' \in [Browsers -> Places]
    BY <1>1 DEF IInv, TypeOK, Goto, Places, Gets, Pages
  <2>3. QED
    BY <1>1, <1>4, <1>6, <2>1, <2>2 DEF IInv, TypeOK, Places
<1>8. ASSUME NEW c \in Browsers PROVE Own(c)'
  <2>1. CASE c = b
    <3>1. cookie[b] # NoToken => cookie[b] \in Tokens \ {t}
      BY <1>1 DEF IInv, TypeOK
    <3>2. QED
      BY <1>1, <1>2, <1>3, <1>4, <1>5, <2>1, <3>1 DEF IInv, Own
  <2>2. CASE c # b
    <3>1. cookie[c] # NoToken => cookie[c] \in Tokens \ {t}
      BY <1>1 DEF IInv, TypeOK
    <3>2. QED
      BY <1>1, <1>4, <1>5, <2>2, <3>1 DEF IInv, Own
  <2>3. QED
    BY <2>1, <2>2
<1>9. \A c \in Browsers : Prompt(c)'
  BY <1>1, <1>5 DEF IInv, Prompt, NoUsers
<1>10. QED
  BY <1>7, <1>8, <1>9 DEF IInv

(* A session is deleted, or the cookie that carries it, or neither: nobody *)
(* is owed more for it.                                                    *)
LEMMA DropHolds ==
    ASSUME IInv, NEW b \in Browsers,
           \/ UNCHANGED sessions
           \/ sessions' = [sessions EXCEPT ![cookie[b]] = NoSession],
           UNCHANGED cookie \/ cookie' = [cookie EXCEPT ![b] = NoToken],
           Goto(b, "login") \/ Goto(b, "none") \/ Goto(b, "delete"),
           UNCHANGED <<clock, users, name, late>>
    PROVE  IInv'
<1>1. \A t \in Tokens : sessions'[t] = sessions[t] \/ sessions'[t] = NoSession
  BY DEF IInv, TypeOK
<1>2. \A c \in Browsers : cookie'[c] = cookie[c] \/ cookie'[c] = NoToken
  BY DEF IInv, TypeOK
<1>3. /\ pc'[b] \notin {"session", "create", "insert"}
      /\ \A c \in Browsers \ {b} : pc'[c] = pc[c]
  BY DEF IInv, TypeOK, Goto
<1>4. TypeOK'
  <2>1. sessions' \in [Tokens -> Session \union {NoSession}]
    BY DEF IInv, TypeOK
  <2>2. cookie' \in [Browsers -> Tokens \union {NoToken}]
    BY DEF IInv, TypeOK
  <2>3. pc' \in [Browsers -> Places]
    BY DEF IInv, TypeOK, Goto, Places, Pages, Gets, Posts
  <2>4. \A t \in Tokens : sessions'[t] # NoSession => users'[sessions'[t].user] # Nobody
    BY <1>1 DEF IInv, TypeOK
  <2>5. QED
    BY <2>1, <2>2, <2>3, <2>4 DEF IInv, TypeOK, Places
<1>5. ASSUME NEW c \in Browsers PROVE Own(c)'
  <2>1. cookie[c] # NoToken => cookie[c] \in Tokens
    BY DEF IInv, TypeOK
  <2>2. QED
    BY <1>1, <1>2, <1>3, <2>1 DEF IInv, Own
<1>6. \A c \in Browsers : Prompt(c)'
  BY <1>3 DEF IInv, Prompt, NoUsers
<1>7. QED
  BY <1>4, <1>5, <1>6 DEF IInv

LEMMA CreateSessionHolds ==
    ASSUME IInv, NEW b \in Browsers, NEW t \in Tokens, CreateSession(b, t)
    PROVE  IInv'
BY SessionHolds DEF CreateSession

LEMMA FailHolds ==
    ASSUME IInv, NEW b \in Browsers, Fail(b)
    PROVE  IInv'
<1>1. Goto(b, "none") /\ UNCHANGED <<clock, cookie, name, late>>
  BY DEF Fail
<1>2. CASE UNCHANGED users
  <2>1. ASSUME pc[b] = "session", NEW t \in Tokens, InsertSession(b, t) PROVE IInv'
    BY <1>1, <1>2, <2>1, SessionHolds
  <2>2. CASE \/ UNCHANGED sessions
             \/ sessions' = [sessions EXCEPT ![cookie[b]] = NoSession]
    BY <1>1, <1>2, <2>2, DropHolds
  <2>3. QED
    BY <2>1, <2>2 DEF Fail
<1>3. CASE /\ pc[b] = "insert"
           /\ users[name[b]] = Nobody
           /\ users' = [users EXCEPT ![name[b]] = b]
  <2>1. UNCHANGED sessions
    BY <1>3 DEF Fail
  <2>2. QED
    BY <1>1, <1>3, <2>1, AddUserHolds
<1>4. QED
  BY <1>2, <1>3 DEF Fail

LEMMA TickHolds == IInv /\ (Tick \/ UNCHANGED vars) => IInv'
<1> SUFFICES ASSUME IInv, Tick \/ UNCHANGED vars PROVE IInv'
  OBVIOUS
<1>1. UNCHANGED <<store, cookie, pc, name, late>> /\ clock' \in Nat
  BY DEF IInv, TypeOK, Tick, vars
<1>2. TypeOK'
  BY <1>1 DEF IInv, TypeOK, store
<1>3. \A b \in Browsers : Own(b)' /\ Prompt(b)'
  BY <1>1 DEF IInv, Own, Prompt, NoUsers, store
<1>4. QED
  BY <1>2, <1>3 DEF IInv

LEMMA StepHolds == IInv /\ [Next]_vars => IInv'
<1> SUFFICES ASSUME IInv, [Next]_vars PROVE IInv'
  OBVIOUS
<1>1. ASSUME NEW b \in Browsers, Act(b) PROVE IInv'
  BY <1>1, QuietHolds, PostFormHolds DEF Act
<1>2. ASSUME NEW b \in Browsers, Serve(b) PROVE IInv'
  <2>1. CASE InsertUser(b)
    BY <2>1, AddUserHolds DEF InsertUser
  <2>2. CASE FindAtLogout(b)
    BY <2>2, DropHolds DEF FindAtLogout, ClearCookie, store
  <2>3. CASE DeleteSession(b)
    BY <2>3, DropHolds DEF DeleteSession, ClearCookie
  <2>4. CASE \E t \in Tokens : CreateSession(b, t)
    BY <2>4, CreateSessionHolds
  <2>5. CASE CountAtSignup(b) \/ StartCreate(b)
    BY <2>5, CountsHold
  <2>6. CASE CheckPassword(b)
    BY <2>6, CheckPasswordHolds
  <2>7. CASE \/ ServeStatus(b) \/ RouteToForm(b) \/ ServeSignup(b)
             \/ ServeLogin(b) \/ CountAtLogin(b)
    BY <2>7, QuietHolds
  <2>8. QED
    BY <1>2, <2>1, <2>2, <2>3, <2>4, <2>5, <2>6, <2>7 DEF Serve
<1>3. ASSUME NEW b \in Browsers, Fail(b) PROVE IInv'
  BY <1>3, FailHolds
<1>4. CASE Tick \/ UNCHANGED vars
  BY <1>4, TickHolds
<1>5. QED
  BY <1>1, <1>2, <1>3, <1>4 DEF Next

LEMMA InvariantHolds == Spec => []IInv
BY InitHolds, StepHolds, PTL DEF Spec
-----------------------------------------------------------------------------
(* Users, sessions, cookies and requests are always well-formed, and every *)
(* session is of a user that exists.                                       *)
THEOREM TypeCorrect == Spec => []TypeOK
<1>1. IInv => TypeOK
  BY DEF IInv
<1>2. QED
  BY <1>1, InvariantHolds, PTL

(* Whichever signups and logins run at the same time, a browser is signed  *)
(* in only as a user whose password its operator has.                      *)
THEOREM AccountsAreOwn == Spec => []OwnAccountOnly
<1>1. IInv => OwnAccountOnly
  BY DEF IInv, Own, OwnAccountOnly, SignedIn
<1>2. QED
  BY <1>1, InvariantHolds, PTL

(* A second administrator comes only from a signup that was posted before  *)
(* there was a first.                                                      *)
THEOREM LatecomersMakeNone == Spec => LateSignupMakesNone
<1>1. IInv /\ [Next]_vars
        => [\A b \in Browsers :
              pc[b] = "insert" /\ users' # users /\ pc'[b] # pc[b] => ~late[b]]_vars
  BY DEF IInv, Prompt
<1>2. QED
  BY <1>1, InvariantHolds, PTL DEF Spec, LateSignupMakesNone
=============================================================================
