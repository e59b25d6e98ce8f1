------------------------------- MODULE Accounts -------------------------------
(***************************************************************************)
(* The accounts of the chat server: AuthService and LoginRateLimiter       *)
(* (tools/src/exo_tools/agent_core/auth.py), the endpoints of              *)
(* agent_server.py that use them and the account commands (accounts.py).   *)
(*                                                                         *)
(* Endpoints run in a pool of threads.  One transaction of the database,   *)
(* or one hold of the limiter's lock, is one step; what a thread has read  *)
(* before is in its record of work.                                        *)
(***************************************************************************)
EXTENDS Integers, Sequences, FiniteSets

CONSTANTS
  Threads,
  Names,         \* user names
  GoogleNames,   \* the names tried for a Google account, in order
  Passwords,     \* passwords, 1 that of an account that is new
  Overridable,   \* permissions that are given and taken
  MaxFailures,   \* LoginRateLimiter.max_failures
  MaxRequests    \* bound: requests, bootstrapping not counted

VARIABLES
  users,      \* the table users and permission_overrides, by name
  sessions,   \* login_sessions
  oauth,      \* oauth_states
  failures,   \* LoginRateLimiter._failures, their number by name
  work,       \* what each thread is at
  asked       \* requests so far

uvars == <<users, sessions, oauth, failures, work, asked>>

None == "none"
Idle == [op |-> "idle"]
Nobody == [role |-> None]

ASSUME AccountsAssumption ==
  /\ IsFiniteSet(Threads)
  /\ {"master", "admin"} \subseteq Names /\ None \notin Names /\ GoogleNames \in Seq(Names)
  /\ 1 \in Passwords /\ Passwords \subseteq Nat \ {0}
  /\ MaxFailures \in Nat \ {0} /\ MaxRequests \in Nat

Exists(n) == users[n] # Nobody

\* ROLE_RANK.
Rank(role) == CASE role = "user" -> 1 [] role = "admin" -> 2 [] role = "master" -> 3

\* ROLE_PERMISSIONS, those that the requests below ask for.
RolePermissions(role) ==
  {"chat:read", "account:password"}
    \cup IF Rank(role) < 2 THEN {} ELSE {"users:create", "users:update", "permissions:update"}

Permissions(u) == (RolePermissions(u.role) \cup u.given) \ u.taken

\* epoch counts what must end a session, by is who gave the account its role.
NewUser(role, pw, by) ==
  [role |-> role, pw |-> pw, google |-> FALSE, disabled |-> FALSE, given |-> {}, taken |-> {},
   epoch |-> 0, by |-> by]

Go(t, w) == work' = [work EXCEPT ![t] = w]
At(t, op, at) == work[t].op = op /\ work[t].at = at
To(t, at) == Go(t, [work[t] EXCEPT !.at = at])
Free(t) == work[t] = Idle
Ask == asked < MaxRequests /\ asked' = asked + 1

-----------------------------------------------------------------------------
\* bootstrap_accounts: only if there are no accounts, and one after the other.

BootstrapAccounts(t) ==
  /\ Free(t) /\ \A n \in Names : ~Exists(n)
  /\ Go(t, [op |-> "bootstrap", at |-> "master"])
  /\ UNCHANGED <<users, sessions, oauth, failures, asked>>

BootstrapInsert(t) ==
  /\ work[t].op = "bootstrap"
  /\ LET n == work[t].at IN
       IF Exists(n) THEN Go(t, Idle) /\ UNCHANGED users
       ELSE /\ users' = [users EXCEPT ![n] = NewUser(n, 1, "bootstrap")]
            /\ IF n = "master" THEN To(t, "admin") ELSE Go(t, Idle)
  /\ UNCHANGED <<sessions, oauth, failures, asked>>

-----------------------------------------------------------------------------
\* Logging in.

\* LoginRateLimiter.check.
Login(t, n, pw) ==
  /\ Free(t) /\ Ask /\ failures[n] < MaxFailures
  /\ Go(t, [op |-> "login", at |-> "authenticate", name |-> n, pw |-> pw])
  /\ UNCHANGED <<users, sessions, oauth, failures>>

Authentic(n, pw) == Exists(n) /\ ~users[n].disabled /\ users[n].pw = pw

Authenticate(t) ==
  /\ At(t, "login", "authenticate")
  /\ To(t, IF Authentic(work[t].name, work[t].pw) THEN "open" ELSE "failed")
  /\ UNCHANGED <<users, sessions, oauth, failures, asked>>

LoginFailed(t) ==
  /\ At(t, "login", "failed")
  /\ failures' = [failures EXCEPT ![work[t].name] = @ + 1]
  /\ Go(t, Idle)
  /\ UNCHANGED <<users, sessions, oauth, asked>>

\* _discard_expired.
FailureExpires(n) ==
  /\ failures[n] > 0
  /\ failures' = [failures EXCEPT ![n] = @ - 1]
  /\ UNCHANGED <<users, sessions, oauth, work, asked>>

\* AuthService.create_session, of a login or a Google callback.
OpenSession(t) ==
  /\ work[t].op \in {"login", "google"} /\ work[t].at = "open"
  /\ LET n == work[t].name IN
       /\ sessions' = sessions \cup {[user |-> n, epoch |-> users[n].epoch]}
       /\ failures' = IF work[t].op = "login" THEN [failures EXCEPT ![n] = 0] ELSE failures
  /\ Go(t, Idle)
  /\ UNCHANGED <<users, oauth, asked>>

SessionExpires(s) ==
  /\ sessions' = sessions \ {s}
  /\ UNCHANGED <<users, oauth, failures, work, asked>>

\* user_for_session.
Honoured(s) == s \in sessions /\ ~users[s.user].disabled

-----------------------------------------------------------------------------
\* Google.

\* To log in, or to link the account of one who is logged in.
GoogleStart ==
  /\ Ask
  /\ \E n \in {None} \cup {s.user : s \in {x \in sessions : Honoured(x)}} : oauth' = oauth \cup {n}
  /\ UNCHANGED <<users, sessions, failures, work>>

\* consume_oauth_state: a state is good for one callback.
GoogleCallback(t, state) ==
  /\ Free(t) /\ state \in oauth
  /\ oauth' = oauth \ {state}
  /\ Go(t, [op |-> "google", at |-> "ask", name |-> state])
  /\ UNCHANGED <<users, sessions, failures, asked>>

\* Google answers, or cannot be reached, or does not know the code or the e-mail address.
GoogleAnswers(t) ==
  /\ At(t, "google", "ask")
  /\ \/ To(t, IF work[t].name = None THEN "lookup" ELSE "link")
     \/ Go(t, Idle)
  /\ UNCHANGED <<users, sessions, oauth, failures, asked>>

Linked == {n \in Names : Exists(n) /\ users[n].google}

\* get_user_by_google_sub and the first call of _username_exists.
GoogleLookup(t) ==
  /\ At(t, "google", "lookup")
  /\ IF Linked # {}
     THEN \E n \in Linked : Go(t, [work[t] EXCEPT !.at = "open", !.name = n])
     ELSE \/ (\A i \in DOMAIN GoogleNames : Exists(GoogleNames[i])) /\ Go(t, Idle)
          \/ \E i \in DOMAIN GoogleNames :
               /\ ~Exists(GoogleNames[i]) /\ \A j \in 1 .. i - 1 : Exists(GoogleNames[j])
               /\ Go(t, [work[t] EXCEPT !.at = "insert", !.name = GoogleNames[i]])
  /\ UNCHANGED <<users, sessions, oauth, failures, asked>>

\* create_user; a name that was taken meanwhile is an IntegrityError.
GoogleInsert(t) ==
  /\ At(t, "google", "insert")
  /\ LET n == work[t].name IN
       IF Exists(n) THEN Go(t, Idle) /\ UNCHANGED users
       ELSE users' = [users EXCEPT ![n] = NewUser("user", 0, None)] /\ To(t, "link")
  /\ UNCHANGED <<sessions, oauth, failures, asked>>

\* link_google; a Google account that another user has is an IntegrityError.
GoogleLink(t) ==
  /\ At(t, "google", "link")
  /\ LET n == work[t].name IN
       IF Linked \ {n} # {} THEN Go(t, Idle) /\ UNCHANGED users
       ELSE users' = [users EXCEPT ![n].google = TRUE] /\ To(t, "open")
  /\ UNCHANGED <<sessions, oauth, failures, asked>>

-----------------------------------------------------------------------------
\* Requests of one who is logged in.

Wants ==
  [op : {"logout"}]
    \cup [op : {"password"}, current : Passwords, new : Passwords]
    \cup [op : {"create"}, target : Names \ {"master", "admin"}, role : {"user", "admin"}]
    \cup [op : {"role"}, target : Names, role : {"user", "admin"}]
    \cup [op : {"disabled"}, target : Names, to : BOOLEAN]
    \cup [op : {"permission"}, target : Names, permission : Overridable, to : BOOLEAN]

Needed(op) ==
  CASE op = "logout" -> "chat:read"
    [] op = "password" -> "account:password"
    [] op = "create" -> "users:create"
    [] op \in {"role", "disabled"} -> "users:update"
    [] op = "permission" -> "permissions:update"

\* create_user lets only the master create admins.
Allowed(role, want) == want.op = "create" /\ want.role = "admin" => role = "master"

\* require, and what the endpoint checks before it calls AuthService.
Demand(t, s, want) ==
  /\ Free(t) /\ Ask /\ Honoured(s)
  /\ LET u == users[s.user] IN
       /\ Needed(want.op) \in Permissions(u)
       /\ Allowed(u.role, want)
       /\ Go(t, [op |-> want.op, want |-> want, session |-> s, actor |-> s.user, role |-> u.role,
                 at |-> IF want.op \in {"logout", "create"} THEN "write" ELSE "check"])
  /\ UNCHANGED <<users, sessions, oauth, failures>>

\* A mutant: one may give as high a role as one's own.
MayManageAny(role, want) == Rank(role) > Rank(users[want.target].role)

\* set_role, set_disabled, set_permission: nobody manages an equal or a higher role.
MayManage(role, want) ==
  /\ Rank(role) > Rank(users[want.target].role)
  /\ want.op = "role" => Rank(role) > Rank(want.role)

\* change_password of an account that has one needs it.
MayChange(n, want) == users[n].pw = 0 \/ Authentic(n, want.current)

Check(t) ==
  /\ ~Free(t) /\ work[t].at = "check"
  /\ LET w == work[t] IN
       IF IF w.op = "password" THEN MayChange(w.actor, w.want)
          ELSE Exists(w.want.target) /\ MayManage(w.role, w.want)
       THEN To(t, "write") ELSE Go(t, Idle)
  /\ UNCHANGED <<users, sessions, oauth, failures, asked>>

SessionsOf(n) == {s \in sessions : s.user = n}

\* What ends the sessions of an account: a new password, or that it is disabled.
End(n, u) ==
  /\ users' = [users EXCEPT ![n] = [u EXCEPT !.epoch = @ + 1]]
  /\ sessions' = sessions \ SessionsOf(n)

Only(n, u) == users' = [users EXCEPT ![n] = u] /\ UNCHANGED sessions

Override(u, want) ==
  IF want.to THEN [u EXCEPT !.given = @ \cup {want.permission}, !.taken = @ \ {want.permission}]
  ELSE [u EXCEPT !.taken = @ \cup {want.permission}, !.given = @ \ {want.permission}]

Write(t) ==
  /\ ~Free(t) /\ work[t].at = "write"
  /\ LET w == work[t] want == w.want IN
       \/ w.op = "logout" /\ sessions' = sessions \ {w.session} /\ UNCHANGED users
       \/ w.op = "password" /\ End(w.actor, [users[w.actor] EXCEPT !.pw = want.new])
       \/ w.op = "create" /\ Exists(want.target) /\ UNCHANGED <<users, sessions>>
       \/ /\ w.op = "create" /\ ~Exists(want.target)
          /\ Only(want.target, NewUser(want.role, 1, w.actor))
       \/ /\ w.op = "role"
          /\ Only(want.target, [users[want.target] EXCEPT !.role = want.role, !.by = w.actor])
       \/ /\ w.op = "disabled" /\ want.to
          /\ End(want.target, [users[want.target] EXCEPT !.disabled = TRUE])
       \/ /\ w.op = "disabled" /\ ~want.to
          /\ Only(want.target, [users[want.target] EXCEPT !.disabled = FALSE])
       \/ w.op = "permission" /\ Only(want.target, Override(users[want.target], want))
  /\ Go(t, Idle)
  /\ UNCHANGED <<oauth, failures, asked>>

-----------------------------------------------------------------------------
UInit ==
  /\ users = [n \in Names |-> Nobody]
  /\ sessions = {} /\ oauth = {} /\ asked = 0
  /\ failures = [n \in Names |-> 0]
  /\ work = [t \in Threads |-> Idle]

UNext ==
  \/ \E t \in Threads :
       \/ BootstrapAccounts(t) \/ BootstrapInsert(t)
       \/ \E n \in Names, pw \in Passwords : Login(t, n, pw)
       \/ Authenticate(t) \/ LoginFailed(t) \/ OpenSession(t)
       \/ \E state \in oauth : GoogleCallback(t, state)
       \/ GoogleAnswers(t) \/ GoogleLookup(t) \/ GoogleInsert(t) \/ GoogleLink(t)
       \/ \E s \in sessions, want \in Wants : Demand(t, s, want)
       \/ Check(t) \/ Write(t)
  \/ GoogleStart
  \/ \E n \in Names : FailureExpires(n)
  \/ \E s \in sessions : SessionExpires(s)

USpec == UInit /\ [][UNext]_uvars

-----------------------------------------------------------------------------
Roles == {"user", "admin", "master"}

User ==
  [role : Roles, pw : Passwords \cup {0}, google : BOOLEAN, disabled : BOOLEAN,
   given : SUBSET Overridable, taken : SUBSET Overridable, epoch : Nat,
   by : Names \cup {"bootstrap", None}]

Session == [user : Names, epoch : Nat]

Booting == [op : {"bootstrap"}, at : {"master", "admin"}]

LoggingIn == [op : {"login"}, at : {"authenticate", "open", "failed"}, name : Names, pw : Passwords]

WithGoogle ==
  [op : {"google"}, at : {"ask", "lookup", "insert", "link", "open"}, name : Names \cup {None}]

Asking ==
  [op : {want.op : want \in Wants}, want : Wants, session : Session, actor : Names,
   role : Roles, at : {"check", "write"}]

(* What the tables and the threads hold has its type. *)
TypeOK ==
  /\ users \in [Names -> User \cup {Nobody}]
  /\ sessions \subseteq Session
  /\ oauth \subseteq Names \cup {None}
  /\ failures \in [Names -> Nat]
  /\ work \in [Threads -> {Idle} \cup Booting \cup LoggingIn \cup WithGoogle \cup Asking]
  /\ asked \in Nat

\* Nobody becomes master but in bootstrapping, nobody admin but by the master or in
\* bootstrapping, and the master is never disabled, whatever requests overlap
\* (create_user, set_role, set_disabled decide on roles that they read before).
RolesAreEarned ==
  \A n \in Names : Exists(n) =>
    /\ users[n].role = "master" => users[n].by = "bootstrap" /\ ~users[n].disabled
    /\ users[n].role = "admin" => users[n].by \in {"bootstrap", "master"}

\* A session that was there when its account was disabled or got a new password is not
\* there any more (change_password, set_disabled), however the account has changed since.
SessionsEndTogether == \A s \in sessions : s.epoch = users[s.user].epoch

\* Failed logins are counted up to the limit, and past it only for those that were
\* already under way (LoginRateLimiter.check comes before authenticate).
LimiterHolds == \A n \in Names : failures[n] < MaxFailures + Cardinality(Threads)

\* All of it: roles are earned, sessions end with what they were opened for, failed logins
\* are counted, however the requests of AuthService's users overlap.
AccountsHold == RolesAreEarned /\ SessionsEndTogether /\ LimiterHolds
=============================================================================
