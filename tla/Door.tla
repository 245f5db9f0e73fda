---- MODULE Door ----
(***************************************************************************)
(* The way in: the browser's cookies and the client of the market web      *)
(* (apps/market-web, src/lib/api-client.ts), the chain of middlewares of   *)
(* the payments API (pagos-service, createApp: body limit, auth, CSRF,     *)
(* route) and the middleware of the market web's own pages.                *)
(*                                                                         *)
(* A Slot is a request on its way: sent with the cookies of that moment,   *)
(* served, and received with the cookies the answer sets.  Two slots share *)
(* the browser's cookies as two tabs do.  Credentials are modelled by who  *)
(* they name and the second they expire in; their cryptography is not.     *)
(* The API is deployed with or without the secret of the legacy sessions,  *)
(* and as production or not.                                               *)
(***************************************************************************)
EXTENDS Naturals, FiniteSets

CONSTANTS
  Slot,
  Token,            \* values of generateCsrfToken
  User, Dpo,        \* Dpo \subseteq User: in the group "dpo"
  Expiry, MaxTime   \* bounds: when credentials expire, and the clock

Null == "null"
Time == 0 .. MaxTime

VARIABLES
  now,
  env,              \* process.env of the API: JWT_SECRET is set, NODE_ENV is "production"
  cookies,          \* [id, session, csrf]: opita_id_token, __opita_session, __csrf-token
  pc, call          \* the requests

vars == <<now, env, cookies, pc, call>>

Credential == [user : User, exp : Expiry]
None == [user |-> Null, exp |-> 0]
Method == {"GET", "POST"}
Route == {"user", "dpo", "webhook"}
Nobody == [user |-> Null, dpo |-> FALSE]
DevUser == [user : User, dpo : BOOLEAN]      \* the headers x-dev-user and x-dev-groups

Call == [method : Method, route : Route, big : BOOLEAN,
         bearer : Credential \cup {None}, dev : DevUser \cup {Nobody}, withCookies : BOOLEAN,
         csrf : Token \cup {Null}, header : Token \cup {Null},
         handled : BOOLEAN, setCookie : Token \cup {Null}]

NoCall == [method |-> "GET", route |-> "user", big |-> FALSE, bearer |-> None, dev |-> Nobody,
           withCookies |-> FALSE, csrf |-> Null, header |-> Null,
           handled |-> FALSE, setCookie |-> Null]

TypeOK ==
  /\ now \in Time
  /\ env \in [jwtSecret : BOOLEAN, production : BOOLEAN]
  /\ cookies \in [id : Credential \cup {None}, session : Credential \cup {None},
                  csrf : Token \cup {Null}]
  /\ pc \in [Slot -> {"idle", "sent", "answered"}]
  /\ call \in [Slot -> Call]

Init ==
  /\ now = 0
  /\ env \in [jwtSecret : BOOLEAN, production : BOOLEAN]
  /\ cookies \in [id : Credential \cup {None}, session : Credential \cup {None}, csrf : {Null}]
  /\ pc = [s \in Slot |-> "idle"]
  /\ call = [s \in Slot |-> NoCall]

----
(* The attributes of the CSRF cookie, by name: a browser takes no notice of
   the value of HttpOnly (RFC 6265, 5.2.6). *)
CSRF_COOKIE_ATTRS == {"Path", "SameSite", "Secure", "HttpOnly"}

(* What document.cookie shows the market web of a cookie of the API's host. *)
DocumentCookie(value) ==
  IF "HttpOnly" \in CSRF_COOKIE_ATTRS \/ "Domain" \notin CSRF_COOKIE_ATTRS THEN Null ELSE value

(* getCsrfHeader. *)
GetCsrfHeader(method) == IF method = "POST" THEN DocumentCookie(cookies.csrf) ELSE Null

HasCookies == cookies.id # None \/ cookies.session # None \/ cookies.csrf # Null

(* request(): a call of the market web, with credentials: "include"; or, with
   a bearer or the headers of a developer, of a program that keeps no cookies. *)
Send(s, method, route, big, bearer, dev) ==
  LET program == bearer # None \/ dev # Nobody IN
  /\ pc[s] = "idle"
  /\ big => method = "POST"
  /\ route = "webhook" => method = "POST" /\ program
  /\ call' = [call EXCEPT ![s] =
       [NoCall EXCEPT !.method = method, !.route = route, !.big = big,
          !.bearer = bearer, !.dev = dev,
          !.withCookies = ~program /\ HasCookies,
          !.csrf = IF program THEN Null ELSE cookies.csrf,
          !.header = IF program THEN Null ELSE GetCsrfHeader(method)]]
  /\ pc' = [pc EXCEPT ![s] = "sent"]
  /\ UNCHANGED <<now, env, cookies>>

----
(* jose refuses a token from the second it expires in. *)
VerifyCognitoToken(credential) == credential # None /\ now < credential.exp

VerifyLegacySessionForever(credential) == env.jwtSecret /\ credential # None   \* mutant: exp is not looked at

(* verifyLegacySession refuses without its secret, and compares the seconds
   the other way round. *)
VerifyLegacySession(credential) == env.jwtSecret /\ credential # None /\ ~(now > credential.exp)

(* The user authMiddleware finds in the first source that verifies.  Of the
   legacy session it takes the claim "groups", which the tokens that the
   market web accepts do not have. *)
Actor(bearer, id, session, dev) ==
  CASE VerifyCognitoToken(bearer) -> [user |-> bearer.user, dpo |-> bearer.user \in Dpo]
    [] ~VerifyCognitoToken(bearer) /\ VerifyCognitoToken(id) -> [user |-> id.user, dpo |-> id.user \in Dpo]
    [] ~VerifyCognitoToken(bearer) /\ ~VerifyCognitoToken(id) ->
         IF VerifyLegacySession(session) THEN [user |-> session.user, dpo |-> FALSE]
         ELSE IF env.production THEN Nobody ELSE dev

ActorOf(c) ==
  CASE c.route = "webhook" -> Nobody
    [] c.route # "webhook" /\ c.withCookies -> Actor(c.bearer, cookies.id, cookies.session, c.dev)
    [] c.route # "webhook" /\ ~c.withCookies -> Actor(c.bearer, None, None, c.dev)

(* csrfMiddleware and validateCsrfToken. *)
ValidateCsrfToken(cookieToken, headerToken) ==
  cookieToken # Null /\ headerToken # Null /\ cookieToken = headerToken

CsrfPasses(c) ==
  \/ c.route = "webhook" \/ ~c.withCookies
  \/ c.method = "GET"
  \/ ValidateCsrfToken(c.csrf, c.header)

(* requireUser, requireDpo. *)
Admitted(c) ==
  CASE c.route = "webhook" -> TRUE
    [] c.route = "user" -> ActorOf(c) # Nobody
    [] c.route = "dpo" -> ActorOf(c) # Nobody /\ ActorOf(c).dpo

(* What comes after the body limit: auth, CSRF, the route. *)
Handled(c) == ~c.big /\ CsrfPasses(c) /\ Admitted(c)

(* A new token is set on an answer to a GET that came without one. *)
TokenToSet(c) ==
  IF c.method = "GET" /\ c.withCookies /\ c.csrf = Null THEN Token ELSE {Null}

Serve(s) ==
  LET c == call[s] IN
  /\ pc[s] = "sent"
  /\ \E token \in TokenToSet(c) :
       call' = [call EXCEPT ![s] =
         [NoCall EXCEPT !.method = c.method, !.withCookies = c.withCookies, !.csrf = c.csrf,
                        !.handled = Handled(c), !.setCookie = token]]
  /\ pc' = [pc EXCEPT ![s] = "answered"]
  /\ UNCHANGED <<now, env, cookies>>

(* The browser keeps the cookie of the answer. *)
Receive(s) ==
  /\ pc[s] = "answered"
  /\ cookies' = IF call[s].setCookie # Null THEN [cookies EXCEPT !.csrf = call[s].setCookie]
                ELSE cookies
  /\ pc' = [pc EXCEPT ![s] = "idle"]
  /\ call' = [call EXCEPT ![s] = NoCall]
  /\ UNCHANGED <<now, env>>

(* Max-Age of the CSRF cookie. *)
ForgetToken ==
  /\ cookies.csrf # Null
  /\ cookies' = [cookies EXCEPT !.csrf = Null]
  /\ UNCHANGED <<now, env, pc, call>>

Tick ==
  /\ now < MaxTime
  /\ now' = now + 1
  /\ UNCHANGED <<env, cookies, pc, call>>

Next ==
  \/ \E s \in Slot, m \in Method, r \in Route, b \in BOOLEAN, c \in Credential \cup {None},
        d \in DevUser \cup {Nobody} : Send(s, m, r, b, c, d)
  \/ \E s \in Slot : Serve(s) \/ Receive(s)
  \/ ForgetToken \/ Tick

Spec == Init /\ [][Next]_vars

----
(* The market web's own verifyJwt, and what the API makes of that cookie. *)
PageUser == IF cookies.session # None /\ now < cookies.session.exp THEN cookies.session.user ELSE Null

ApiUser == Actor(None, None, cookies.session, Nobody).user

(***************************************************************************)
(* Of a session that the API takes, in whatever environment it runs, the   *)
(* market web takes it for the same user, although each verifies it in its *)
(* own way, but for the very second it expires in, which auth.ts:126 lets  *)
(* through and jose does not.  (The converse does not hold: without        *)
(* JWT_SECRET the API takes no session that the pages take.)               *)
(***************************************************************************)
DoorsAgree ==
  ApiUser # Null => ApiUser = PageUser \/ cookies.session.exp = now
====
