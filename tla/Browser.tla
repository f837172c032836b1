------------------------------ MODULE Browser ------------------------------
(***************************************************************************)
(* The web client (web/src): the tabs of one browser, each with the access *)
(* token and the user it shows in memory, over one cookie jar, and what    *)
(* the handlers of internal/handler/auth.go do to the jar.                 *)
(*                                                                         *)
(* A call is a chain of a page's code: a fetch, the answer, and what       *)
(* follows it.  Calls of one tab and of several tabs overlap, answers are  *)
(* late or lost, and a tab may be reloaded with calls in flight: the       *)
(* server still serves them.  The server is reduced to the refresh tokens  *)
(* it would accept.  A pair of tokens is one element of Ids; whether the   *)
(* access token of a request is accepted is left open, as it may expire,   *)
(* be revoked, and pass for all that when Redis fails.  Whoever logs in is *)
(* taken to be another user; that two are the same only makes them harder  *)
(* to confuse.                                                             *)
(***************************************************************************)
CONSTANTS
    None,   \* the absent value
    Tabs,   \* tabs of the browser
    Calls,  \* calls in flight at once
    Ids     \* pairs of an access and a refresh token

ASSUME NoneAssumption == None \notin Tabs \cup Calls \cup Ids

VARIABLES
    cookie,     \* the refresh_token cookie in the jar
    live,       \* refresh tokens that the server accepts
    owner,      \* Ids -> the user the pair was issued to, named by the pair of the
                \* login; None before
    tab,        \* Tabs -> what is in memory
    call,       \* Calls -> the calls in flight
    lost,       \* history: a token was replaced and its successor not received
    again,      \* history: tabs in which a login was submitted while another was
                \* under way or while a user was shown
    signedOut   \* history: the cookie that a logout answered 204 cleared, if it
                \* overlapped no refresh or login and no login came after it

vars == <<cookie, live, owner, tab, call, lost, again, signedOut>>

jar == <<cookie, lost, again, signedOut>>

server == <<live, owner>>

\* token: _token; page: login stands for the registration page as well, home for
\* the pages of a user; form: the call that the login form waits for, if any;
\* timer: a registration will show the login page.
Tab == [booting: BOOLEAN, token: Ids \cup {None}, user: Ids \cup {None},
        page: {"login", "home"}, form: Calls \cup {None}, timer: BOOLEAN]

\* tab: whose code goes on with the answer, None after a reload; sent: the cookie
\* that went with the request; id: the pair in the answer, None for an error; ok:
\* a logout answered 204.
Call == [pc: {"idle", "sent", "valid", "answered", "me"}, op: {"boot", "login", "logout"},
         tab: Tabs \cup {None}, sent: Ids \cup {None}, id: Ids \cup {None}, ok: BOOLEAN]

NoCall == [pc |-> "idle", op |-> "boot", tab |-> None, sent |-> None, id |-> None,
           ok |-> FALSE]

Blank == [booting |-> FALSE, token |-> None, user |-> None, page |-> "login",
          form |-> None, timer |-> FALSE]

\* There is no cookie, and so every tab's restore has failed.
Init ==
    /\ cookie = None
    /\ live = {}
    /\ owner = [i \in Ids |-> None]
    /\ tab = [t \in Tabs |-> Blank]
    /\ call = [c \in Calls |-> NoCall]
    /\ lost = FALSE
    /\ again = {}
    /\ signedOut = None

InFlight(c) == call[c].pc # "idle"

Goto(c, l) == call' = [call EXCEPT ![c].pc = l]

Answers(c, i) == call' = [call EXCEPT ![c].pc = "answered", ![c].id = i]

Ends(c) == call' = [call EXCEPT ![c] = NoCall]

(***************************************************************************)
(* fetch with credentials: the jar sends the cookie only under its path,   *)
(* /api/v1/auth/refresh.                                                   *)
(***************************************************************************)
CookieFor(op) == IF op = "boot" THEN cookie ELSE None

-----------------------------------------------------------------------------
(***************************************************************************)
(* What a person does.                                                     *)
(***************************************************************************)
\* A tab is opened or reloaded: memory is lost and App tries a silent restore.
Load(t, c) ==
    /\ ~InFlight(c)
    /\ tab' = [tab EXCEPT ![t] = [Blank EXCEPT !.booting = TRUE]]
    /\ call' = [d \in Calls |->
         IF d = c THEN [NoCall EXCEPT !.pc = "sent", !.tab = t, !.sent = CookieFor("boot")]
         ELSE IF call[d].tab # t THEN call[d]
         ELSE IF call[d].pc = "me" THEN NoCall ELSE [call[d] EXCEPT !.tab = None]]
    /\ again' = again \ {t}
    /\ UNCHANGED <<server, cookie, lost, signedOut>>

LoginCalls(t) == {c \in Calls : InFlight(c) /\ call[c].op = "login" /\ call[c].tab = t}

\* Mutant: the login page is shown while the restore is under way.
LoginSubmitEarly(t, c) ==
    /\ ~InFlight(c)
    /\ tab[t].page = "login"
    /\ tab[t].form = None
    /\ tab' = [tab EXCEPT ![t].form = c]
    /\ call' = [call EXCEPT ![c] = [NoCall EXCEPT !.pc = "sent", !.op = "login", !.tab = t,
                                                  !.sent = CookieFor("login")]]
    /\ again' = IF LoginCalls(t) # {} \/ tab[t].user # None THEN again \cup {t} ELSE again
    /\ signedOut' = None
    /\ UNCHANGED <<server, cookie, lost>>

\* The button is disabled while this form's own login is loading.
LoginSubmit(t, c) ==
    /\ ~InFlight(c)
    /\ ~tab[t].booting
    /\ tab[t].page = "login"
    /\ tab[t].form = None
    /\ tab' = [tab EXCEPT ![t].form = c]
    /\ call' = [call EXCEPT ![c] = [NoCall EXCEPT !.pc = "sent", !.op = "login", !.tab = t,
                                                  !.sent = CookieFor("login")]]
    /\ again' = IF LoginCalls(t) # {} \/ tab[t].user # None THEN again \cup {t} ELSE again
    /\ signedOut' = None
    /\ UNCHANGED <<server, cookie, lost>>

\* To the registration page and back, with or without registering: a new form.
GoRegister(t) ==
    /\ ~tab[t].booting
    /\ tab[t].page = "login"
    /\ \E registered \in BOOLEAN :
        tab' = [tab EXCEPT ![t].form = None, ![t].timer = @ \/ registered]
    /\ UNCHANGED <<jar, server, call>>

\* The timer of RegisterPage shows the login page, whoever is logged in by now.
RegisterTimer(t) ==
    /\ tab[t].timer
    /\ tab' = [tab EXCEPT ![t].timer = FALSE, ![t].page = "login",
                          ![t].form = IF tab[t].page = "login" THEN @ ELSE None]
    /\ UNCHANGED <<jar, server, call>>

\* The header, which is there as soon as a user is, leads back.
GoHome(t) ==
    /\ tab[t].user # None
    /\ tab[t].page = "login"
    /\ tab' = [tab EXCEPT ![t].page = "home", ![t].form = None]
    /\ UNCHANGED <<jar, server, call>>

\* handleLogout; nothing keeps it from being clicked again.
SignOut(t, c) ==
    /\ ~InFlight(c)
    /\ tab[t].user # None
    /\ call' = [call EXCEPT ![c] = [NoCall EXCEPT !.pc = "sent", !.op = "logout", !.tab = t,
                                                  !.sent = CookieFor("logout")]]
    /\ UNCHANGED <<jar, server, tab>>

-----------------------------------------------------------------------------
(***************************************************************************)
(* The server.  Sessions.tla has its steps in full.  A request that was    *)
(* served and whose answer is lost is an error to the client.              *)
(***************************************************************************)
NewPair(i, u) == owner[i] = None /\ owner' = [owner EXCEPT ![i] = u]

ServeLogin(c) ==
    /\ call[c].pc = "sent"
    /\ call[c].op = "login"
    /\ \/ \E i \in Ids : /\ NewPair(i, i)
                         /\ live' = live \cup {i}
                         /\ Answers(c, i) \/ Answers(c, None)
       \/ Answers(c, None) /\ UNCHANGED <<live, owner>>
    /\ UNCHANGED <<jar, tab>>

ServeRefresh(c) ==
    /\ call[c].pc = "sent"
    /\ call[c].op = "boot"
    /\ \/ call[c].sent \in live /\ Goto(c, "valid")
       \/ Answers(c, None)
    /\ UNCHANGED <<jar, server, tab>>

\* Mutant: the new pair is issued to uuid.Nil.
RotateNil(c) ==
    /\ call[c].pc = "valid"
    /\ \E i \in Ids : /\ NewPair(i, None)
                      /\ live' = (live \ {call[c].sent}) \cup {i}
                      /\ Answers(c, i)
    /\ UNCHANGED <<jar, tab>>

\* The old token is deleted and a new one stored; or an error, after the
\* deletion or before it.
Rotate(c) ==
    LET old == call[c].sent
    IN  /\ call[c].pc = "valid"
        /\ \/ \E i \in Ids : /\ NewPair(i, owner[old])
                             /\ live' = (live \ {old}) \cup {i}
                             /\ \/ Answers(c, i) /\ UNCHANGED lost
                                \/ Answers(c, None) /\ lost' = TRUE
           \/ /\ Answers(c, None)
              /\ live' \in {live, live \ {old}}
              /\ lost' = (lost \/ live' # live)
              /\ UNCHANGED owner
        /\ UNCHANGED <<tab, cookie, again, signedOut>>

\* The refresh token of the cookie, if one was sent, is deleted: 204.  Or an error,
\* before that or after it.
ServeLogout(c) ==
    /\ call[c].pc = "sent"
    /\ call[c].op = "logout"
    /\ live' \in {live, live \ {call[c].sent}}
    /\ \E ok \in BOOLEAN :
        /\ ok => live' = live \ {call[c].sent}
        /\ call' = [call EXCEPT ![c].pc = "answered", ![c].ok = ok]
    /\ UNCHANGED <<jar, owner, tab>>

-----------------------------------------------------------------------------
(***************************************************************************)
(* Answers.                                                                *)
(***************************************************************************)
\* Mutant: Refresh does not set the new cookie.
SetCookieOnLogin(c) ==
    CASE call[c].op = "login" /\ call[c].id # None -> call[c].id
      [] call[c].op = "logout" /\ call[c].ok -> None
      [] OTHER -> cookie

\* Mutant: the clearing cookie has another path.
SetCookieElsewhere(c) ==
    IF call[c].op # "logout" /\ call[c].id # None THEN call[c].id ELSE cookie

\* What Set-Cookie makes of the jar: Login and Refresh set the new token, Logout
\* clears it, errors leave it alone.
SetCookie(c) ==
    CASE call[c].op # "logout" /\ call[c].id # None -> call[c].id
      [] call[c].op = "logout" /\ call[c].ok -> None
      [] OTHER -> cookie

\* The form is there again, unless it is another form already.
FormReady(t, c) == IF tab[t].form = c THEN None ELSE tab[t].form

\* The answer of login or refresh: setToken, then GET /users/me.
ReceivePair(c) ==
    LET t == call[c].tab
    IN  /\ call[c].pc = "answered"
        /\ call[c].op # "logout"
        /\ t # None
        /\ cookie' = SetCookie(c)
        /\ IF call[c].id # None
           THEN /\ tab' = [tab EXCEPT ![t].token = call[c].id]
                /\ call' = [call EXCEPT ![c].pc = "me", ![c].sent = None]
           ELSE /\ tab' = [tab EXCEPT ![t] = IF call[c].op = "boot" THEN Blank
                                             ELSE [@ EXCEPT !.form = FormReady(t, c)]]
                /\ Ends(c)
        /\ UNCHANGED <<server, lost, again, signedOut>>

\* The answer of /users/me.  handleLogin sets the token once more; an error
\* clears it after a restore and leaves it after a login.
ReceiveMe(c) ==
    LET t == call[c].tab
        i == call[c].id
    IN  /\ call[c].pc = "me"
        /\ t # None
        /\ \/ tab' = [tab EXCEPT ![t].user = owner[i], ![t].booting = FALSE,
                                 ![t].page = "home", ![t].form = None,
                                 ![t].token = IF call[c].op = "login" THEN i ELSE @]
           \/ tab' = [tab EXCEPT ![t] = IF call[c].op = "boot" THEN Blank
                                        ELSE [@ EXCEPT !.form = FormReady(t, c)]]
        /\ Ends(c)
        /\ UNCHANGED <<jar, server>>

\* Calls by which another cookie may come, this one aside.
CookieToCome(c) == \E d \in Calls \ {c} : InFlight(d) /\ call[d].op # "logout"

\* The answer of logout, whatever it is.
ReceiveLogout(c) ==
    LET t == call[c].tab
    IN  /\ call[c].pc = "answered"
        /\ call[c].op = "logout"
        /\ t # None
        /\ cookie' = SetCookie(c)
        /\ tab' = [tab EXCEPT ![t].token = None, ![t].user = None, ![t].page = "login"]
        /\ Ends(c)
        /\ signedOut' = IF call[c].ok /\ cookie # None /\ ~CookieToCome(c) THEN cookie
                        ELSE signedOut
        /\ UNCHANGED <<server, lost, again>>

\* After a reload nothing goes on with the answer; the jar may have seen it.
Drop(c) ==
    /\ call[c].pc = "answered"
    /\ call[c].tab = None
    /\ \/ cookie' = SetCookie(c) /\ UNCHANGED lost
       \/ lost' = (lost \/ call[c].op = "boot") /\ UNCHANGED cookie
    /\ Ends(c)
    /\ UNCHANGED <<server, tab, again, signedOut>>

-----------------------------------------------------------------------------
Next ==
    \/ \E c \in Calls :
        \/ \E t \in Tabs : Load(t, c) \/ LoginSubmit(t, c) \/ SignOut(t, c)
        \/ ServeLogin(c)
        \/ ServeRefresh(c)
        \/ Rotate(c)
        \/ ServeLogout(c)
        \/ ReceivePair(c)
        \/ ReceiveMe(c)
        \/ ReceiveLogout(c)
        \/ Drop(c)
    \/ \E t \in Tabs : GoRegister(t) \/ RegisterTimer(t) \/ GoHome(t)

Spec == Init /\ [][Next]_vars

-----------------------------------------------------------------------------
\* Every variable keeps its shape, and only issued pairs are known anywhere.
TypeOK ==
    /\ cookie \in Ids \cup {None}
    /\ owner \in [Ids -> Ids \cup {None}]
    /\ live \subseteq {i \in Ids : owner[i] # None}
    /\ cookie # None => owner[cookie] # None
    /\ tab \in [Tabs -> Tab]
    /\ call \in [Calls -> Call]
    /\ lost \in BOOLEAN
    /\ again \subseteq Tabs
    /\ signedOut \in Ids \cup {None}

\* However tabs race to refresh with one cookie and in whatever order the
\* answers come, the jar keeps a token that the server accepts, or one whose
\* successor is on its way, unless an answer was lost: the browser does not log
\* itself out.
CookieLive ==
    cookie # None /\ cookie \notin live =>
        lost \/ \E c \in Calls : call[c].pc = "answered" /\ call[c].sent = cookie

\* The user a tab shows is the one its requests act for, whatever calls of an
\* earlier page, form or click are answered late.  (Not after a login that
\* overlapped another, or was submitted on the page that RegisterTimer shows: it
\* sets its token and may then fail.)
UserMatchesToken ==
    \A t \in Tabs \ again :
        tab[t].user # None => tab[t].token # None /\ owner[tab[t].token] = tab[t].user

\* After a logout answered 204 that overlapped no refresh or login, no reload of
\* any tab restores a session until someone logs in.
LogoutSticks ==
    signedOut # None => cookie = None /\ \A t \in Tabs : tab[t].booting => tab[t].token = None

\* What the documentation says: the cookie goes with the logout request, which
\* revokes the refresh token.
LogoutRevokesCookie == signedOut \notin live

=============================================================================
