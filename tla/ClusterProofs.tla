--------------------------- MODULE ClusterProofs ---------------------------
(***************************************************************************)
(* Proofs about Accounts, for any number of threads, names and requests,   *)
(* about Topology, for any number of nodes, cables and reports, about      *)
(* Links, for any instances, links and commands, about Replicas, for any   *)
(* replicas, limits and requests, about ModelCards, for any nodes, models  *)
(* and commands, about Discovery, for any finite sets of peers and         *)
(* addresses, and about InputImages, for any nodes, requests, images and   *)
(* elections.                                                              *)
(***************************************************************************)
EXTENDS Accounts, Topology, Links, Replicas, ModelCards, Discovery, InputImages,
        FiniteSetTheorems, WellFoundedInduction, TLAPS

-----------------------------------------------------------------------------
(* Accounts.                                                                *)

Users == [Names -> User \cup {Nobody}]

Works == {Idle} \cup Booting \cup LoggingIn \cup WithGoogle \cup Asking

(* An account does not go away, and nobody who has one becomes master.      *)
Grown(U, V) ==
  \A n \in Names : U[n] # Nobody =>
    /\ V[n] # Nobody
    /\ U[n].role # "master" => V[n].role # "master"

(* The role of u, the account of n, was given by who may give it.           *)
Earned(n, u) ==
  /\ u.role = "master" => n = "master" /\ u.by = "bootstrap" /\ ~u.disabled
  /\ u.role = "admin" => u.by \in {"bootstrap", "master"}

RoleInv(U) == \A n \in Names : U[n] # Nobody => Earned(n, U[n])

(* Who is about to get a session, or a link to Google, has an account.      *)
NamedInv(U, w) ==
  /\ w.op = "login" /\ w.at = "open" => U[w.name] # Nobody
  /\ w.op = "google" =>
       /\ w.at \in {"link", "open"} => w.name \in Names /\ U[w.name] # Nobody
       /\ w.at = "insert" => w.name \in Names
       /\ w.at = "ask" /\ w.name # None => U[w.name] # Nobody

(* Only the master passes for one; what makes an admin is the master's; and *)
(* what is about to be written is not about the master.                     *)
GrantInv(U, w) ==
  w \in Asking =>
    /\ w.op = w.want.op /\ U[w.actor] # Nobody
    /\ w.role = "master" => w.actor = "master"
    /\ w.op = "create" /\ w.want.role = "admin" => w.role = "master"
    /\ w.at = "write" =>
         /\ w.op = "role" /\ w.want.role = "admin" => w.role = "master"
         /\ w.op \in {"role", "disabled", "permission"} =>
              U[w.want.target] # Nobody /\ U[w.want.target].role # "master"

Granted(U, w) == NamedInv(U, w) /\ GrantInv(U, w)

WorkInv(U, W) == \A t \in Threads : Granted(U, W[t])

(* A session, or a state with which a user has asked Google, is a user's.   *)
SessionInv(U, S, O) ==
  /\ \A s \in S : U[s.user] # Nobody /\ s.epoch = U[s.user].epoch
  /\ \A n \in O : n # None => U[n] # Nobody

(* The threads that may yet count a failure of n.                           *)
Trying(W, n) == {t \in Threads : W[t].op = "login" /\ W[t].name = n}

LimitInv(F, W) ==
  \A n \in Names : F[n] + Cardinality(Trying(W, n)) < MaxFailures + Cardinality(Threads)

AccountInv ==
  /\ TypeOK
  /\ RoleInv(users)
  /\ WorkInv(users, work)
  /\ SessionInv(users, sessions, oauth)
  /\ LimitInv(failures, work)

-----------------------------------------------------------------------------
(* What the kinds of work and of requests hold.                             *)

LEMMA Kinds ==
  ASSUME NEW w \in Works
  PROVE  /\ w.op = "bootstrap" => w \in Booting
         /\ w.op = "login" => w \in LoggingIn
         /\ w.op = "google" => w \in WithGoogle
         /\ w # Idle /\ w.at \in {"check", "write"} => w \in Asking
         /\ w \in Asking => w # Idle /\ w.op \notin {"idle", "bootstrap", "login", "google"}
BY DEF Works, Idle, Booting, LoggingIn, WithGoogle, Asking, Wants

LEMMA WantKinds ==
  ASSUME NEW want \in Wants
  PROVE  /\ want.op \in {"logout", "password", "create", "role", "disabled", "permission"}
         /\ want.op = "password" => want.new \in Passwords
         /\ want.op \in {"create", "role", "disabled", "permission"} => want.target \in Names
         /\ want.op \in {"create", "role"} => want.role \in {"user", "admin"}
         /\ want.op \in {"disabled", "permission"} => want.to \in BOOLEAN
         /\ want.op = "permission" => want.permission \in Overridable
BY DEF Wants

LEMMA AccountKinds ==
  ASSUME NEW U \in Users, NEW n \in Names
  PROVE  /\ U[n] # Nobody => U[n] \in User
         /\ U[n] \in User => U[n] # Nobody
BY DEF Users, User, Nobody, Roles, None

LEMMA Ranking ==
  ASSUME NEW r \in Roles, NEW q \in Roles, Rank(r) > Rank(q)
  PROVE  q # "master" /\ (q = "admin" => r = "master")
BY DEF Rank, Roles

-----------------------------------------------------------------------------
(* What a change of one account, and one step of a thread, leave as it was. *)

LEMMA AccountChanges ==
  ASSUME NEW U \in Users, RoleInv(U), NEW n \in Names, NEW u \in User, Earned(n, u),
         U[n] # Nobody => (U[n].role # "master" => u.role # "master")
  PROVE  LET V == [U EXCEPT ![n] = u] IN V \in Users /\ Grown(U, V) /\ RoleInv(V)
BY AccountKinds DEF Users, Grown, RoleInv

LEMMA GrantsStay ==
  ASSUME NEW U \in Users, NEW V \in Users, Grown(U, V), NEW w \in Works, Granted(U, w)
  PROVE  Granted(V, w)
<1>1. NamedInv(V, w)
  <2>1. CASE w.op = "login"
    <3>1. w \in LoggingIn
      BY <2>1, Kinds
    <3> QED BY <2>1, <3>1 DEF Granted, NamedInv, Grown, LoggingIn
  <2>2. CASE w.op = "google"
    <3>1. w \in WithGoogle
      BY <2>2, Kinds
    <3> QED BY <2>2, <3>1 DEF Granted, NamedInv, Grown, WithGoogle
  <2> QED BY <2>1, <2>2 DEF NamedInv
<1>2. GrantInv(V, w)
  <2> SUFFICES ASSUME w \in Asking PROVE GrantInv(V, w)
    BY DEF GrantInv
  <2>1. w.actor \in Names /\ w.want \in Wants
    BY DEF Asking
  <2>2. w.op \in {"role", "disabled", "permission"} => w.want.target \in Names
    BY <2>1, WantKinds DEF Granted, GrantInv
  <2> QED BY <2>1, <2>2 DEF Granted, GrantInv, Grown
<1> QED BY <1>1, <1>2 DEF Granted

LEMMA WorkStays ==
  ASSUME NEW U \in Users, NEW V \in Users, Grown(U, V), NEW W \in [Threads -> Works],
         WorkInv(U, W)
  PROVE  WorkInv(V, W)
BY GrantsStay DEF WorkInv

LEMMA ThreadMoves ==
  ASSUME NEW U, NEW W \in [Threads -> Works], WorkInv(U, W), NEW t \in Threads, NEW w \in Works,
         Granted(U, w)
  PROVE  LET X == [W EXCEPT ![t] = w] IN X \in [Threads -> Works] /\ WorkInv(U, X)
BY DEF WorkInv

LEMMA Same ==
  ASSUME NEW U
  PROVE  Grown(U, U)
BY DEF Grown

LEMMA IdleIsFine ==
  ASSUME NEW U
  PROVE  Idle \in Works /\ Granted(U, Idle) /\ Idle.op # "login"
<1>1. Idle \in Works /\ Idle.op = "idle"
  BY DEF Works, Idle
<1>2. Idle \notin Asking
  BY <1>1, Kinds
<1> QED BY <1>1, <1>2 DEF Granted, NamedInv, GrantInv

-----------------------------------------------------------------------------
(* The limiter.                                                             *)

LEMMA TryingCounts ==
  ASSUME NEW W, NEW n
  PROVE  /\ IsFiniteSet(Trying(W, n))
         /\ Cardinality(Trying(W, n)) \in Nat /\ Cardinality(Threads) \in Nat
         /\ Cardinality(Trying(W, n)) <= Cardinality(Threads)
<1>1. IsFiniteSet(Threads) /\ Trying(W, n) \subseteq Threads
  BY AccountsAssumption DEF Trying
<1> QED BY <1>1, FS_Subset, FS_CardinalityType

(* A thread that is not about to count a failure that it was not.           *)
LEMMA LimitStays ==
  ASSUME NEW F \in [Names -> Nat], NEW G \in [Names -> Nat], \A n \in Names : G[n] <= F[n],
         NEW W \in [Threads -> Works], LimitInv(F, W), NEW t \in Threads, NEW w \in Works,
         w.op = "login" => W[t].op = "login" /\ W[t].name = w.name
  PROVE  LimitInv(G, [W EXCEPT ![t] = w])
<1> DEFINE X == [W EXCEPT ![t] = w]
<1> SUFFICES ASSUME NEW n \in Names
             PROVE  G[n] + Cardinality(Trying(X, n)) < MaxFailures + Cardinality(Threads)
  BY DEF LimitInv
<1>1. Trying(X, n) \subseteq Trying(W, n)
  BY DEF Trying
<1>2. Cardinality(Trying(X, n)) <= Cardinality(Trying(W, n))
  BY <1>1, TryingCounts, FS_Subset
<1>3. F[n] + Cardinality(Trying(W, n)) < MaxFailures + Cardinality(Threads)
  BY DEF LimitInv
<1> HIDE DEF X
<1> QED
  BY <1>2, <1>3, TryingCounts, AccountsAssumption

LEMMA LoginIsLimited ==
  ASSUME NEW F \in [Names -> Nat], NEW W \in [Threads -> Works], LimitInv(F, W),
         NEW t \in Threads, W[t].op # "login", NEW w \in LoggingIn, F[w.name] < MaxFailures
  PROVE  LimitInv(F, [W EXCEPT ![t] = w])
<1> DEFINE X == [W EXCEPT ![t] = w]
<1> SUFFICES ASSUME NEW n \in Names
             PROVE  F[n] + Cardinality(Trying(X, n)) < MaxFailures + Cardinality(Threads)
  BY DEF LimitInv
<1>1. F[n] + Cardinality(Trying(W, n)) < MaxFailures + Cardinality(Threads)
  BY DEF LimitInv
<1>2. CASE n = w.name
  <2> HIDE DEF X
  <2> QED BY <1>2, TryingCounts, AccountsAssumption
<1>3. CASE n # w.name
  <2>1. Trying(X, n) = Trying(W, n)
    BY <1>3 DEF Trying
  <2> QED BY <2>1, <1>1
<1> QED BY <1>2, <1>3

LEMMA FailureIsCounted ==
  ASSUME NEW F \in [Names -> Nat], NEW W \in [Threads -> Works], LimitInv(F, W),
         NEW t \in Threads, W[t].op = "login", W[t].name \in Names
  PROVE  LimitInv([F EXCEPT ![W[t].name] = @ + 1], [W EXCEPT ![t] = Idle])
<1> DEFINE X == [W EXCEPT ![t] = Idle]
           G == [F EXCEPT ![W[t].name] = @ + 1]
<1> SUFFICES ASSUME NEW n \in Names
             PROVE  G[n] + Cardinality(Trying(X, n)) < MaxFailures + Cardinality(Threads)
  BY DEF LimitInv
<1>1. F[n] + Cardinality(Trying(W, n)) < MaxFailures + Cardinality(Threads)
  BY DEF LimitInv
<1>2. Idle.op # "login"
  BY IdleIsFine
<1>3. CASE n = W[t].name
  <2>1. Trying(X, n) = Trying(W, n) \ {t} /\ t \in Trying(W, n)
    BY <1>2, <1>3 DEF Trying
  <2>2. Cardinality(Trying(X, n)) = Cardinality(Trying(W, n)) - 1
    <3> HIDE DEF X
    <3>1. IsFiniteSet(Trying(W, n))
      BY TryingCounts
    <3>2. Cardinality(Trying(W, n) \ {t}) = Cardinality(Trying(W, n)) - 1
      BY <2>1, <3>1, FS_RemoveElement
    <3> QED BY <2>1, <3>2
  <2>3. G[n] = F[n] + 1
    BY <1>3
  <2> HIDE DEF X, G
  <2> QED BY <1>1, <2>2, <2>3, TryingCounts, AccountsAssumption
<1>4. CASE n # W[t].name
  <2>1. Trying(X, n) = Trying(W, n)
    BY <1>2, <1>4 DEF Trying
  <2> QED BY <2>1, <1>1, <1>4
<1> QED BY <1>3, <1>4

-----------------------------------------------------------------------------
(* Sessions after a change of one account.                                  *)

LEMMA SessionsStay ==
  ASSUME NEW U \in Users, NEW n \in Names, NEW u \in User,
         NEW S \in SUBSET Session, NEW O \in SUBSET (Names \cup {None}), SessionInv(U, S, O),
         U[n] # Nobody => u.epoch = U[n].epoch
  PROVE  SessionInv([U EXCEPT ![n] = u], S, O)
<1>1. u # Nobody
  BY AccountKinds, [U EXCEPT ![n] = u] \in Users DEF Users
<1> QED BY <1>1 DEF SessionInv, Session, Users

LEMMA SessionsEnd ==
  ASSUME NEW U \in Users, NEW n \in Names, NEW u \in User,
         NEW S \in SUBSET Session, NEW O \in SUBSET (Names \cup {None}), SessionInv(U, S, O)
  PROVE  SessionInv([U EXCEPT ![n] = u], {s \in S : s.user # n}, O)
<1>1. u # Nobody
  BY AccountKinds, [U EXCEPT ![n] = u] \in Users DEF Users
<1> QED BY <1>1 DEF SessionInv, Session, Users

-----------------------------------------------------------------------------
(* Steps of the same effect.                                                *)

LEMMA Typed ==
  ASSUME TypeOK
  PROVE  /\ users \in Users /\ work \in [Threads -> Works]
         /\ sessions \in SUBSET Session /\ oauth \in SUBSET (Names \cup {None})
         /\ failures \in [Names -> Nat] /\ asked \in Nat
BY DEF TypeOK, Users, Works

(* A thread goes on, and no account changes.                                *)
LEMMA WorkMoves ==
  ASSUME AccountInv, NEW t \in Threads, NEW w \in Works, Go(t, w), Granted(users, w),
         LimitInv(failures', work'), failures' \in [Names -> Nat], asked' \in Nat,
         users' = users, sessions' \in SUBSET Session, oauth' \in SUBSET (Names \cup {None}),
         SessionInv(users, sessions', oauth')
  PROVE  AccountInv'
<1>1. users \in Users /\ work \in [Threads -> Works] /\ WorkInv(users, work)
  BY Typed DEF AccountInv
<1>2. work' \in [Threads -> Works] /\ WorkInv(users, work')
  BY <1>1, ThreadMoves DEF Go
<1>3. TypeOK'
  BY <1>1, <1>2 DEF TypeOK, Users, Works
<1> QED BY <1>2, <1>3 DEF AccountInv

LEMMA OnlyWorkMoves ==
  ASSUME AccountInv, NEW t \in Threads, NEW w \in Works, Go(t, w), Granted(users, w),
         w.op = "login" => work[t].op = "login" /\ work[t].name = w.name,
         failures' = failures, asked' \in Nat,
         users' = users, sessions' = sessions, oauth' \subseteq oauth
  PROVE  AccountInv'
<1>1. /\ TypeOK /\ work \in [Threads -> Works] /\ failures \in [Names -> Nat]
      /\ LimitInv(failures, work)
  BY Typed DEF AccountInv
<1>2. \A n \in Names : failures[n] <= failures[n]
  BY <1>1
<1>3. LimitInv(failures', work')
  BY <1>1, <1>2, LimitStays DEF Go
<1>4. sessions' \in SUBSET Session /\ oauth' \in SUBSET (Names \cup {None})
  BY <1>1, Typed
<1>5. SessionInv(users, sessions', oauth')
  BY DEF AccountInv, SessionInv
<1> QED BY <1>1, <1>3, <1>4, <1>5, WorkMoves

(* A thread changes one account and goes on.                                *)
LEMMA AccountMoves ==
  ASSUME AccountInv, NEW t \in Threads, NEW w \in Works, Go(t, w), w.op # "login",
         NEW n \in Names, NEW u \in User, Earned(n, u),
         users[n] # Nobody => (users[n].role # "master" => u.role # "master"),
         users' = [users EXCEPT ![n] = u], Granted(users', w),
         \/ sessions' = sessions /\ (users[n] # Nobody => u.epoch = users[n].epoch)
         \/ sessions' = {s \in sessions : s.user # n},
         UNCHANGED <<oauth, failures, asked>>
  PROVE  AccountInv'
<1>1. /\ users \in Users /\ work \in [Threads -> Works] /\ failures \in [Names -> Nat]
      /\ sessions \in SUBSET Session /\ oauth \in SUBSET (Names \cup {None}) /\ asked \in Nat
      /\ RoleInv(users) /\ WorkInv(users, work) /\ SessionInv(users, sessions, oauth)
      /\ LimitInv(failures, work)
  BY Typed DEF AccountInv
<1>2. users' \in Users /\ Grown(users, users') /\ RoleInv(users')
  BY <1>1, AccountChanges
<1>3. WorkInv(users', work)
  BY <1>1, <1>2, WorkStays
<1>4. work' \in [Threads -> Works] /\ WorkInv(users', work')
  BY <1>1, <1>3, ThreadMoves DEF Go
<1>5. SessionInv(users', sessions', oauth') /\ sessions' \in SUBSET Session
  <2>1. CASE sessions' = sessions /\ (users[n] # Nobody => u.epoch = users[n].epoch)
    BY <1>1, <2>1, SessionsStay
  <2>2. CASE sessions' = {s \in sessions : s.user # n}
    BY <1>1, <2>2, SessionsEnd
  <2> QED BY <2>1, <2>2
<1>6. \A m \in Names : failures[m] <= failures[m]
  BY <1>1
<1>7. LimitInv(failures', work')
  BY <1>1, <1>6, LimitStays DEF Go
<1>8. TypeOK'
  BY <1>1, <1>2, <1>4, <1>5 DEF TypeOK, Users, Works
<1> QED BY <1>2, <1>4, <1>5, <1>7, <1>8 DEF AccountInv

-----------------------------------------------------------------------------
(* The actions.  First those after which a thread has nothing in hand.      *)

LEMMA GoesIdle ==
  ASSUME AccountInv, NEW t \in Threads, Go(t, Idle), failures' = failures, asked' \in Nat,
         users' = users, sessions' = sessions, oauth' \subseteq oauth
  PROVE  AccountInv'
<1>1. Idle \in Works /\ Granted(users, Idle) /\ Idle.op # "login"
  BY IdleIsFine
<1> QED BY <1>1, OnlyWorkMoves

(* The work of a thread.                                                    *)
LEMMA AtWork ==
  ASSUME AccountInv, NEW t \in Threads
  PROVE  work[t] \in Works /\ Granted(users, work[t])
BY Typed DEF AccountInv, WorkInv

LEMMA BootstrapAccountsKeeps ==
  ASSUME AccountInv, NEW t \in Threads, BootstrapAccounts(t)
  PROVE  AccountInv'
<1> DEFINE w == [op |-> "bootstrap", at |-> "master"]
<1>1. w \in Booting /\ w \in Works /\ w.op = "bootstrap"
  BY DEF Booting, Works
<1>2. Granted(users, w)
  BY <1>1, Kinds DEF Granted, NamedInv, GrantInv
<1>3. asked \in Nat /\ Go(t, w) /\ UNCHANGED <<users, sessions, oauth, failures, asked>>
  BY Typed DEF AccountInv, BootstrapAccounts
<1> HIDE DEF w
<1> QED BY <1>1, <1>2, <1>3, OnlyWorkMoves

LEMMA NewUserIsUser ==
  ASSUME NEW role \in Roles, NEW pw \in Passwords \cup {0},
         NEW by \in Names \cup {"bootstrap", None}
  PROVE  LET u == NewUser(role, pw, by) IN
           u \in User /\ u.role = role /\ u.by = by /\ ~u.disabled /\ u.epoch = 0
BY DEF NewUser, User

LEMMA BootstrapInsertKeeps ==
  ASSUME AccountInv, NEW t \in Threads, BootstrapInsert(t)
  PROVE  AccountInv'
<1> DEFINE n == work[t].at
           v == [work[t] EXCEPT !.at = "admin"]
           u == NewUser(n, 1, "bootstrap")
<1>1. work[t] \in Booting
  BY AtWork, Kinds DEF BootstrapInsert
<1>2. n \in {"master", "admin"} /\ n \in Names /\ n \in Roles
  BY <1>1, AccountsAssumption DEF Booting, Roles
<1>3. v \in Booting /\ v \in Works /\ v.op = "bootstrap"
  BY <1>1 DEF Booting, Works
<1>4. Granted(users', v) /\ Granted(users', Idle) /\ Idle \in Works /\ Idle.op # "login"
  BY <1>3, Kinds, IdleIsFine DEF Granted, NamedInv, GrantInv
<1>5. UNCHANGED <<sessions, oauth, failures, asked>> /\ asked \in Nat
  BY Typed DEF BootstrapInsert, AccountInv
<1>6. CASE Exists(n)
  BY <1>5, <1>6, GoesIdle DEF BootstrapInsert
<1>7. CASE ~Exists(n)
  <2>1. u \in User /\ u.role = n /\ u.by = "bootstrap" /\ ~u.disabled
    BY <1>2, NewUserIsUser, AccountsAssumption
  <2>2. Earned(n, u)
    BY <1>2, <2>1 DEF Earned
  <2>3. users[n] = Nobody /\ users' = [users EXCEPT ![n] = u]
    BY <1>7 DEF BootstrapInsert, Exists
  <2>4. Go(t, v) \/ Go(t, Idle)
    BY <1>7 DEF BootstrapInsert, To
  <2> HIDE DEF v, u, n
  <2> QED BY <1>2, <1>3, <1>4, <1>5, <2>1, <2>2, <2>3, <2>4, AccountMoves
<1> QED BY <1>6, <1>7

LEMMA LoginKeeps ==
  ASSUME AccountInv, NEW t \in Threads, NEW n \in Names, NEW pw \in Passwords, Login(t, n, pw)
  PROVE  AccountInv'
<1> DEFINE w == [op |-> "login", at |-> "authenticate", name |-> n, pw |-> pw]
<1>1. w \in LoggingIn /\ w \in Works /\ w.op = "login" /\ w.at = "authenticate" /\ w.name = n
  BY DEF LoggingIn, Works
<1>2. Granted(users, w)
  BY <1>1, Kinds DEF Granted, NamedInv, GrantInv
<1>3. Go(t, w) /\ UNCHANGED <<users, sessions, oauth, failures>> /\ failures[n] < MaxFailures
  BY DEF Login
<1>4. asked' \in Nat
  BY Typed DEF AccountInv, Login, Ask
<1>5. /\ failures \in [Names -> Nat] /\ work \in [Threads -> Works] /\ LimitInv(failures, work)
      /\ sessions \in SUBSET Session /\ oauth \in SUBSET (Names \cup {None})
      /\ SessionInv(users, sessions, oauth)
  BY Typed DEF AccountInv
<1>6. work[t].op # "login"
  BY IdleIsFine DEF Login, Free
<1> HIDE DEF w
<1>7. LimitInv(failures', work')
  BY <1>1, <1>3, <1>5, <1>6, LoginIsLimited DEF Go
<1> QED BY <1>1, <1>2, <1>3, <1>4, <1>5, <1>7, WorkMoves

LEMMA AuthenticateKeeps ==
  ASSUME AccountInv, NEW t \in Threads, Authenticate(t)
  PROVE  AccountInv'
<1> DEFINE o == IF Authentic(work[t].name, work[t].pw) THEN "open" ELSE "failed"
           w == [work[t] EXCEPT !.at = o]
<1>1. work[t] \in LoggingIn
  BY AtWork, Kinds DEF Authenticate, At
<1>2. /\ w \in LoggingIn /\ w \in Works /\ w.op = "login" /\ w.name = work[t].name
      /\ w.at = o /\ work[t].op = "login"
  BY <1>1 DEF LoggingIn, Works
<1>3. Granted(users, w)
  <2>1. NamedInv(users, w)
    BY <1>2 DEF NamedInv, Authentic, Exists
  <2> QED BY <1>2, <2>1, Kinds DEF Granted, GrantInv
<1>4. Go(t, w) /\ UNCHANGED <<users, sessions, oauth, failures, asked>> /\ asked \in Nat
  BY Typed DEF Authenticate, To, AccountInv
<1> HIDE DEF w
<1> QED BY <1>2, <1>3, <1>4, OnlyWorkMoves

LEMMA LoginFailedKeeps ==
  ASSUME AccountInv, NEW t \in Threads, LoginFailed(t)
  PROVE  AccountInv'
<1>1. work[t] \in LoggingIn
  BY AtWork, Kinds DEF LoginFailed, At
<1>2. work[t].op = "login" /\ work[t].name \in Names
  BY <1>1 DEF LoggingIn
<1>3. /\ failures \in [Names -> Nat] /\ work \in [Threads -> Works] /\ LimitInv(failures, work)
      /\ sessions \in SUBSET Session /\ oauth \in SUBSET (Names \cup {None}) /\ asked \in Nat
      /\ SessionInv(users, sessions, oauth)
  BY Typed DEF AccountInv
<1>4. /\ Go(t, Idle) /\ UNCHANGED <<users, sessions, oauth, asked>>
      /\ failures' = [failures EXCEPT ![work[t].name] = @ + 1]
  BY DEF LoginFailed
<1>5. LimitInv(failures', work')
  BY <1>2, <1>3, <1>4, FailureIsCounted DEF Go
<1>6. failures' \in [Names -> Nat]
  BY <1>2, <1>3, <1>4
<1>7. Idle \in Works /\ Granted(users, Idle)
  BY IdleIsFine
<1> QED BY <1>3, <1>4, <1>5, <1>6, <1>7, WorkMoves

(* A time-out that makes a count smaller.                                   *)
LEMMA FailureExpiresKeeps ==
  ASSUME AccountInv, NEW n \in Names, FailureExpires(n)
  PROVE  AccountInv'
<1>1. failures \in [Names -> Nat] /\ TypeOK
  BY Typed DEF AccountInv
<1>2. failures' \in [Names -> Nat] /\ \A m \in Names : failures'[m] <= failures[m]
  BY <1>1 DEF FailureExpires
<1>3. LimitInv(failures', work)
  BY <1>1, <1>2, TryingCounts, AccountsAssumption DEF AccountInv, LimitInv
<1> QED BY <1>1, <1>2, <1>3 DEF AccountInv, FailureExpires, TypeOK

LEMMA OpenSessionKeeps ==
  ASSUME AccountInv, NEW t \in Threads, OpenSession(t)
  PROVE  AccountInv'
<1> DEFINE n == work[t].name
           F == IF work[t].op = "login" THEN [failures EXCEPT ![n] = 0] ELSE failures
<1>1. /\ users \in Users /\ work \in [Threads -> Works] /\ failures \in [Names -> Nat]
      /\ sessions \in SUBSET Session /\ oauth \in SUBSET (Names \cup {None}) /\ asked \in Nat
      /\ LimitInv(failures, work) /\ SessionInv(users, sessions, oauth)
  BY Typed DEF AccountInv
<1>2. n \in Names /\ users[n] # Nobody
  <2>1. CASE work[t].op = "login"
    <3>1. work[t] \in LoggingIn
      BY <2>1, AtWork, Kinds
    <3> QED BY <2>1, <3>1, AtWork DEF OpenSession, Granted, NamedInv, LoggingIn
  <2>2. CASE work[t].op = "google"
    BY <2>2, AtWork DEF OpenSession, Granted, NamedInv
  <2> QED BY <2>1, <2>2 DEF OpenSession
<1>3. users[n].epoch \in Nat
  BY <1>1, <1>2, AccountKinds DEF User
<1>4. /\ sessions' = sessions \cup {[user |-> n, epoch |-> users[n].epoch]}
      /\ failures' = F /\ Go(t, Idle) /\ UNCHANGED <<users, oauth, asked>>
  BY DEF OpenSession
<1>5. F \in [Names -> Nat] /\ \A m \in Names : F[m] <= failures[m]
  BY <1>1, <1>2
<1>6. Idle \in Works /\ Granted(users, Idle) /\ Idle.op # "login"
  BY IdleIsFine
<1> HIDE DEF F
<1>7. LimitInv(failures', work')
  BY <1>1, <1>4, <1>5, <1>6, LimitStays DEF Go
<1>8. sessions' \in SUBSET Session
  BY <1>1, <1>2, <1>3, <1>4 DEF Session
<1>9. SessionInv(users, sessions', oauth')
  BY <1>1, <1>2, <1>4 DEF SessionInv
<1> QED BY <1>1, <1>4, <1>5, <1>6, <1>7, <1>8, <1>9, WorkMoves

LEMMA SessionExpiresKeeps ==
  ASSUME AccountInv, NEW s \in sessions, SessionExpires(s)
  PROVE  AccountInv'
BY DEF AccountInv, SessionExpires, TypeOK, SessionInv

-----------------------------------------------------------------------------
(* Google.                                                                  *)

LEMMA GoogleStartKeeps ==
  ASSUME AccountInv, GoogleStart
  PROVE  AccountInv'
<1>1. PICK n \in {None} \cup {s.user : s \in {x \in sessions : Honoured(x)}} :
        oauth' = oauth \cup {n}
  BY DEF GoogleStart
<1>2. TypeOK /\ sessions \in SUBSET Session /\ SessionInv(users, sessions, oauth)
  BY Typed DEF AccountInv
<1>3. n = None \/ (n \in Names /\ users[n] # Nobody)
  BY <1>1, <1>2 DEF Session, SessionInv
<1>4. TypeOK'
  BY <1>1, <1>2, <1>3 DEF TypeOK, GoogleStart, Ask
<1>5. SessionInv(users, sessions, oauth')
  BY <1>1, <1>2, <1>3 DEF SessionInv
<1> QED BY <1>4, <1>5 DEF AccountInv, GoogleStart

LEMMA GoogleCallbackKeeps ==
  ASSUME AccountInv, NEW t \in Threads, NEW state \in oauth, GoogleCallback(t, state)
  PROVE  AccountInv'
<1> DEFINE w == [op |-> "google", at |-> "ask", name |-> state]
<1>1. state \in Names \cup {None} /\ (state # None => users[state] # Nobody)
  BY Typed DEF AccountInv, SessionInv
<1>2. /\ w \in WithGoogle /\ w \in Works /\ w.op = "google" /\ w.at = "ask"
      /\ w.name = state
  BY <1>1 DEF WithGoogle, Works
<1>3. Granted(users, w)
  BY <1>1, <1>2, Kinds DEF Granted, NamedInv, GrantInv
<1>4. /\ Go(t, w) /\ UNCHANGED <<users, sessions, failures, asked>> /\ asked \in Nat
      /\ oauth' \subseteq oauth
  BY Typed DEF GoogleCallback, AccountInv
<1> HIDE DEF w
<1> QED BY <1>2, <1>3, <1>4, OnlyWorkMoves

(* A step of a thread that is with Google.                                  *)
LEMMA WithGoogleMoves ==
  ASSUME AccountInv, NEW t \in Threads, NEW w \in WithGoogle, Go(t, w), NamedInv(users, w),
         UNCHANGED <<users, sessions, oauth, failures, asked>>
  PROVE  AccountInv'
<1>1. w \in Works /\ w.op = "google"
  BY DEF WithGoogle, Works
<1>2. Granted(users, w)
  BY <1>1, Kinds DEF Granted, GrantInv
<1>3. asked \in Nat
  BY Typed DEF AccountInv
<1> QED BY <1>1, <1>2, <1>3, OnlyWorkMoves

LEMMA GoogleAnswersKeeps ==
  ASSUME AccountInv, NEW t \in Threads, GoogleAnswers(t)
  PROVE  AccountInv'
<1> DEFINE at == IF work[t].name = None THEN "lookup" ELSE "link"
           w == [work[t] EXCEPT !.at = at]
<1>1. work[t] \in WithGoogle
  BY AtWork, Kinds DEF GoogleAnswers, At
<1>2. /\ w \in WithGoogle /\ w.op = "google" /\ w.name = work[t].name /\ w.at = at
      /\ work[t].name \in Names \cup {None}
  BY <1>1 DEF WithGoogle
<1>3. NamedInv(users, w)
  BY <1>2, AtWork DEF Granted, NamedInv, GoogleAnswers, At
<1>4. UNCHANGED <<users, sessions, oauth, failures, asked>> /\ asked \in Nat
  BY Typed DEF GoogleAnswers, AccountInv
<1>5. Go(t, w) \/ Go(t, Idle)
  BY DEF GoogleAnswers, To
<1> HIDE DEF w
<1> QED BY <1>2, <1>3, <1>4, <1>5, WithGoogleMoves, GoesIdle

LEMMA GoogleLookupKeeps ==
  ASSUME AccountInv, NEW t \in Threads, GoogleLookup(t)
  PROVE  AccountInv'
<1>1. work[t] \in WithGoogle
  BY AtWork, Kinds DEF GoogleLookup, At
<1>2. UNCHANGED <<users, sessions, oauth, failures, asked>> /\ asked \in Nat
  BY Typed DEF GoogleLookup, AccountInv
<1>3. CASE \E n \in Linked : Go(t, [work[t] EXCEPT !.at = "open", !.name = n])
  <2>1. PICK n \in Linked : Go(t, [work[t] EXCEPT !.at = "open", !.name = n])
    BY <1>3
  <2> DEFINE w == [work[t] EXCEPT !.at = "open", !.name = n]
  <2>2. n \in Names /\ users[n] # Nobody
    BY DEF Linked, Exists
  <2>3. w \in WithGoogle /\ w.op = "google" /\ w.at = "open" /\ w.name = n
    BY <1>1, <2>2 DEF WithGoogle
  <2>4. NamedInv(users, w)
    BY <2>2, <2>3 DEF NamedInv
  <2> QED BY <1>2, <2>1, <2>3, <2>4, WithGoogleMoves
<1>4. CASE \E i \in DOMAIN GoogleNames :
             Go(t, [work[t] EXCEPT !.at = "insert", !.name = GoogleNames[i]])
  <2>1. PICK i \in DOMAIN GoogleNames :
          Go(t, [work[t] EXCEPT !.at = "insert", !.name = GoogleNames[i]])
    BY <1>4
  <2> DEFINE w == [work[t] EXCEPT !.at = "insert", !.name = GoogleNames[i]]
  <2>2. GoogleNames[i] \in Names
    BY AccountsAssumption
  <2>3. w \in WithGoogle /\ w.op = "google" /\ w.at = "insert" /\ w.name = GoogleNames[i]
    BY <1>1, <2>2 DEF WithGoogle
  <2>4. NamedInv(users, w)
    BY <2>2, <2>3 DEF NamedInv
  <2> QED BY <1>2, <2>1, <2>3, <2>4, WithGoogleMoves
<1>5. CASE Go(t, Idle)
  BY <1>2, <1>5, GoesIdle
<1> QED BY <1>3, <1>4, <1>5 DEF GoogleLookup

LEMMA GoogleInsertKeeps ==
  ASSUME AccountInv, NEW t \in Threads, GoogleInsert(t)
  PROVE  AccountInv'
<1> DEFINE n == work[t].name
           u == NewUser("user", 0, None)
           w == [work[t] EXCEPT !.at = "link"]
<1>1. work[t] \in WithGoogle /\ n \in Names
  BY AtWork, Kinds DEF GoogleInsert, At, Granted, NamedInv
<1>2. w \in WithGoogle /\ w \in Works /\ w.op = "google" /\ w.at = "link" /\ w.name = n
  BY <1>1 DEF WithGoogle, Works
<1>3. UNCHANGED <<sessions, oauth, failures, asked>> /\ asked \in Nat /\ users \in Users
  BY Typed DEF GoogleInsert, AccountInv
<1>4. CASE Exists(n)
  BY <1>3, <1>4, GoesIdle DEF GoogleInsert
<1>5. CASE ~Exists(n)
  <2>1. u \in User /\ u.role = "user"
    BY NewUserIsUser DEF Roles
  <2>2. Earned(n, u)
    BY <2>1 DEF Earned
  <2>3. users[n] = Nobody /\ users' = [users EXCEPT ![n] = u] /\ Go(t, w)
    BY <1>5 DEF GoogleInsert, Exists, To
  <2>4. users' \in Users /\ users'[n] # Nobody
    BY <1>1, <1>3, <2>1, <2>3, AccountKinds DEF Users
  <2>5. Granted(users', w)
    BY <1>1, <1>2, <2>4, Kinds DEF Granted, NamedInv, GrantInv
  <2> HIDE DEF w, u, n
  <2> QED BY <1>1, <1>2, <1>3, <2>1, <2>2, <2>3, <2>5, AccountMoves
<1> QED BY <1>4, <1>5

LEMMA GoogleLinkKeeps ==
  ASSUME AccountInv, NEW t \in Threads, GoogleLink(t)
  PROVE  AccountInv'
<1> DEFINE n == work[t].name
           u == [users[n] EXCEPT !.google = TRUE]
           w == [work[t] EXCEPT !.at = "open"]
<1>1. work[t] \in WithGoogle /\ n \in Names /\ users[n] # Nobody
  BY AtWork, Kinds DEF GoogleLink, At, Granted, NamedInv
<1>2. w \in WithGoogle /\ w \in Works /\ w.op = "google" /\ w.at = "open" /\ w.name = n
  BY <1>1 DEF WithGoogle, Works
<1>3. /\ UNCHANGED <<sessions, oauth, failures, asked>> /\ asked \in Nat
      /\ users \in Users /\ RoleInv(users)
  BY Typed DEF GoogleLink, AccountInv
<1>4. CASE Linked \ {n} # {}
  BY <1>3, <1>4, GoesIdle DEF GoogleLink
<1>5. CASE ~(Linked \ {n} # {})
  <2>1. /\ users[n] \in User /\ u \in User /\ u.role = users[n].role /\ u.by = users[n].by
        /\ u.disabled = users[n].disabled /\ u.epoch = users[n].epoch
    <3>1. users[n] \in User
      BY <1>1, <1>3, AccountKinds
    <3> QED BY <3>1 DEF User
  <2>2. Earned(n, u)
    BY <1>1, <1>3, <2>1 DEF RoleInv, Earned
  <2>3. users' = [users EXCEPT ![n] = u] /\ Go(t, w)
    BY <1>5 DEF GoogleLink, To
  <2>4. users' \in Users /\ users'[n] # Nobody
    BY <1>1, <1>3, <2>1, <2>3, AccountKinds DEF Users
  <2>5. Granted(users', w)
    BY <1>1, <1>2, <2>4, Kinds DEF Granted, NamedInv, GrantInv
  <2> HIDE DEF w, u, n
  <2> QED BY <1>1, <1>2, <1>3, <2>1, <2>2, <2>3, <2>5, AccountMoves
<1> QED BY <1>4, <1>5

-----------------------------------------------------------------------------
(* Requests of one who is logged in.                                        *)

LEMMA DemandKeeps ==
  ASSUME AccountInv, NEW t \in Threads, NEW s \in sessions, NEW want \in Wants,
         Demand(t, s, want)
  PROVE  AccountInv'
<1> DEFINE u == users[s.user]
           at == IF want.op \in {"logout", "create"} THEN "write" ELSE "check"
           w == [op |-> want.op, want |-> want, session |-> s, actor |-> s.user, role |-> u.role,
                 at |-> at]
<1>1. s \in Session /\ s.user \in Names /\ u # Nobody /\ u \in User
  BY Typed, AccountKinds DEF AccountInv, SessionInv, Session
<1>2. u.role \in Roles /\ (u.role = "master" => s.user = "master")
  BY <1>1 DEF AccountInv, RoleInv, Earned, User
<1>3. w \in Asking /\ w \in Works
  BY <1>1, <1>2 DEF Asking, Works
<1>4. /\ w.op = want.op /\ w.want = want /\ w.actor = s.user /\ w.role = u.role
      /\ w.at = at
  OBVIOUS
<1>5. Go(t, w) /\ Allowed(u.role, want) /\ UNCHANGED <<users, sessions, oauth, failures>>
  BY DEF Demand
<1> HIDE DEF w
<1>6. GrantInv(users, w)
  BY <1>1, <1>2, <1>4, <1>5 DEF GrantInv, Allowed
<1>7. w.op \notin {"login", "google"}
  BY <1>3, Kinds
<1>8. Granted(users, w)
  BY <1>6, <1>7 DEF Granted, NamedInv
<1>9. asked' \in Nat
  BY Typed DEF AccountInv, Demand, Ask
<1> QED BY <1>3, <1>5, <1>7, <1>8, <1>9, OnlyWorkMoves

LEMMA CheckKeeps ==
  ASSUME AccountInv, NEW t \in Threads, Check(t)
  PROVE  AccountInv'
<1> DEFINE v == work[t]
           w == [v EXCEPT !.at = "write"]
<1>1. v \in Asking
  BY AtWork, Kinds DEF Check, Free
<1>2. /\ w \in Asking /\ w \in Works /\ w.op = v.op /\ w.want = v.want /\ w.actor = v.actor
      /\ w.role = v.role /\ v.role \in Roles /\ v.want \in Wants
  BY <1>1 DEF Asking, Works
<1>3. UNCHANGED <<users, sessions, oauth, failures, asked>> /\ asked \in Nat /\ users \in Users
  BY Typed DEF Check, AccountInv
<1>4. CASE Go(t, Idle)
  BY <1>3, <1>4, GoesIdle
<1>5. CASE Go(t, w) /\ (v.op # "password" => Exists(v.want.target) /\ MayManage(v.role, v.want))
  <2>1. v.op = v.want.op /\ GrantInv(users, v)
    BY <1>1, AtWork DEF Granted, GrantInv
  <2>2. ASSUME v.op \in {"role", "disabled", "permission"}
        PROVE  /\ users[v.want.target] # Nobody
               /\ users[v.want.target].role # "master"
               /\ v.op = "role" /\ v.want.role = "admin" => v.role = "master"
    <3>1. /\ v.want.target \in Names /\ users[v.want.target] # Nobody
          /\ (v.op = "role" => v.want.role \in Roles)
      BY <1>2, <1>5, <2>1, <2>2, WantKinds DEF Exists, Roles
    <3>2. users[v.want.target].role \in Roles
      BY <1>3, <3>1, AccountKinds DEF User
    <3>3. Rank(v.role) > Rank(users[v.want.target].role)
      BY <1>5, <2>2 DEF MayManage
    <3>4. v.op = "role" => Rank(v.role) > Rank(v.want.role)
      BY <1>5, <2>1 DEF MayManage
    <3> QED BY <1>2, <3>1, <3>2, <3>3, <3>4, Ranking
  <2> HIDE DEF w
  <2>3. GrantInv(users, w)
    BY <1>1, <1>2, <2>1, <2>2 DEF GrantInv
  <2>4. w.op \notin {"login", "google"}
    BY <1>2, Kinds
  <2>5. Granted(users, w)
    BY <2>3, <2>4 DEF Granted, NamedInv
  <2> QED BY <1>2, <1>3, <1>5, <2>4, <2>5, OnlyWorkMoves
<1> QED BY <1>4, <1>5 DEF Check, To

(* What a request writes of an account.                                     *)
LEMMA Aged ==
  ASSUME NEW u \in User
  PROVE  LET v == [u EXCEPT !.epoch = @ + 1] IN
         v \in User /\ v.role = u.role /\ v.by = u.by /\ v.disabled = u.disabled
BY DEF User

LEMMA PasswordUpdates ==
  ASSUME NEW u \in User, NEW pw \in Passwords
  PROVE  LET v == [[u EXCEPT !.pw = pw] EXCEPT !.epoch = @ + 1] IN
         v \in User /\ v.role = u.role /\ v.by = u.by /\ v.disabled = u.disabled
<1> DEFINE a == [u EXCEPT !.pw = pw]
<1>1. a \in User /\ a.role = u.role /\ a.by = u.by /\ a.disabled = u.disabled
  BY DEF User
<1> HIDE DEF a
<1> QED BY <1>1, Aged DEF a

LEMMA Disables ==
  ASSUME NEW u \in User
  PROVE  LET v == [[u EXCEPT !.disabled = TRUE] EXCEPT !.epoch = @ + 1] IN
         v \in User /\ v.role = u.role /\ v.by = u.by
<1> DEFINE a == [u EXCEPT !.disabled = TRUE]
<1>1. a \in User /\ a.role = u.role /\ a.by = u.by
  BY DEF User
<1> HIDE DEF a
<1> QED BY <1>1, Aged DEF a

LEMMA Enables ==
  ASSUME NEW u \in User
  PROVE  LET v == [u EXCEPT !.disabled = FALSE] IN
         v \in User /\ v.role = u.role /\ v.by = u.by /\ v.epoch = u.epoch
BY DEF User

LEMMA PermissionUpdates ==
  ASSUME NEW u \in User, NEW want \in Wants, want.op = "permission"
  PROVE  LET v == Override(u, want) IN
         v \in User /\ v.role = u.role /\ v.by = u.by /\ v.disabled = u.disabled
           /\ v.epoch = u.epoch
BY WantKinds DEF User, Override

LEMMA WriteKeeps ==
  ASSUME AccountInv, NEW t \in Threads, Write(t)
  PROVE  AccountInv'
<1> DEFINE w == work[t]
           n == w.want.target
<1>1. w \in Asking
  BY AtWork, Kinds DEF Write, Free
<1>2. /\ w.want \in Wants /\ w.op = w.want.op /\ w.at = "write" /\ GrantInv(users, w)
      /\ w.actor \in Names /\ w.role \in Roles
  BY <1>1, AtWork DEF Write, Asking, Granted, GrantInv
<1>3. /\ users \in Users /\ sessions \in SUBSET Session /\ RoleInv(users)
      /\ oauth \in SUBSET (Names \cup {None}) /\ SessionInv(users, sessions, oauth)
      /\ LimitInv(failures, work) /\ work \in [Threads -> Works] /\ failures \in [Names -> Nat]
      /\ asked \in Nat
  BY Typed DEF AccountInv
<1>4. Go(t, Idle) /\ UNCHANGED <<oauth, failures, asked>>
  BY DEF Write
<1>5. Idle \in Works /\ Idle.op # "login" /\ Granted(users', Idle)
  BY IdleIsFine
(* The account that is not new is one that may be written.                  *)
<1>6. ASSUME w.op \in {"role", "disabled", "permission"}
      PROVE  /\ n \in Names /\ users[n] # Nobody /\ users[n] \in User
             /\ users[n].role # "master" /\ Earned(n, users[n])
  <2>1. n \in Names /\ users[n] # Nobody /\ users[n].role # "master"
    BY <1>1, <1>2, <1>6, WantKinds DEF GrantInv
  <2> QED BY <1>3, <2>1, AccountKinds DEF RoleInv
<1>7. CASE w.op = "logout" /\ sessions' = sessions \ {w.session} /\ UNCHANGED users
  <2>1. Granted(users, Idle)
    BY IdleIsFine
  <2>2. SessionInv(users, sessions', oauth) /\ sessions' \in SUBSET Session
    BY <1>3, <1>7 DEF SessionInv
  <2>3. \A m \in Names : failures[m] <= failures[m]
    BY <1>3
  <2>4. LimitInv(failures', work')
    BY <1>3, <1>4, <1>5, <2>3, LimitStays DEF Go
  <2> QED BY <1>3, <1>4, <1>5, <1>7, <2>1, <2>2, <2>4, WorkMoves
<1>8. CASE w.op = "password" /\ End(w.actor, [users[w.actor] EXCEPT !.pw = w.want.new])
  <2> DEFINE m == w.actor
             u == [[users[m] EXCEPT !.pw = w.want.new] EXCEPT !.epoch = @ + 1]
  <2>1. m \in Names /\ users[m] # Nobody /\ users[m] \in User /\ Earned(m, users[m])
    BY <1>1, <1>2, <1>3, AccountKinds DEF GrantInv, RoleInv
  <2>2. w.want.new \in Passwords
    BY <1>2, <1>8, WantKinds
  <2>3. /\ u \in User /\ u.role = users[m].role /\ u.by = users[m].by
        /\ u.disabled = users[m].disabled
    BY <2>1, <2>2, PasswordUpdates
  <2>4. Earned(m, u)
    BY <2>1, <2>3 DEF Earned
  <2>5. users' = [users EXCEPT ![m] = u] /\ sessions' = {s \in sessions : s.user # m}
    BY <1>8 DEF End, SessionsOf
  <2> HIDE DEF u
  <2> QED BY <1>4, <1>5, <2>1, <2>3, <2>4, <2>5, AccountMoves
<1>9. CASE w.op = "create" /\ Exists(n) /\ UNCHANGED <<users, sessions>>
  BY <1>3, <1>4, <1>9, GoesIdle
<1>10. CASE /\ w.op = "create" /\ ~Exists(n)
            /\ Only(n, NewUser(w.want.role, 1, w.actor))
  <2> DEFINE u == NewUser(w.want.role, 1, w.actor)
  <2>1. n \in Names /\ w.want.role \in {"user", "admin"} /\ users[n] = Nobody
    BY <1>2, <1>10, WantKinds DEF Exists
  <2>2. u \in User /\ u.role = w.want.role /\ u.by = w.actor
    BY <1>2, <2>1, NewUserIsUser, AccountsAssumption DEF Roles
  <2>3. w.want.role = "admin" => w.actor = "master"
    BY <1>1, <1>2, <1>10 DEF GrantInv
  <2>4. Earned(n, u)
    BY <2>1, <2>2, <2>3 DEF Earned
  <2>5. users' = [users EXCEPT ![n] = u] /\ sessions' = sessions
    BY <1>10 DEF Only
  <2> HIDE DEF u
  <2> QED BY <1>4, <1>5, <2>1, <2>2, <2>4, <2>5, AccountMoves
<1>11. CASE /\ w.op = "role"
            /\ Only(n, [users[n] EXCEPT !.role = w.want.role, !.by = w.actor])
  <2> DEFINE u == [users[n] EXCEPT !.role = w.want.role, !.by = w.actor]
  <2>1. w.want.role \in {"user", "admin"} /\ w.want.role \in Roles
    BY <1>2, <1>11, WantKinds DEF Roles
  <2>2. /\ u \in User /\ u.role = w.want.role /\ u.by = w.actor
        /\ u.epoch = users[n].epoch
    <3>1. users[n] \in User /\ w.want.role \in Roles /\ w.actor \in Names
      BY <1>2, <1>6, <1>11, <2>1
    <3> HIDE DEF n, w
    <3> QED BY <3>1 DEF User
  <2>3. w.want.role = "admin" => w.actor = "master"
    BY <1>1, <1>2, <1>11 DEF GrantInv
  <2>4. Earned(n, u)
    BY <2>1, <2>2, <2>3 DEF Earned
  <2>5. users' = [users EXCEPT ![n] = u] /\ sessions' = sessions
    BY <1>11 DEF Only
  <2> HIDE DEF u
  <2> QED BY <1>4, <1>5, <1>6, <1>11, <2>1, <2>2, <2>4, <2>5, AccountMoves
<1>12. CASE w.op = "disabled" /\ End(n, [users[n] EXCEPT !.disabled = TRUE])
  <2> DEFINE u == [[users[n] EXCEPT !.disabled = TRUE] EXCEPT !.epoch = @ + 1]
  <2>1. u \in User /\ u.role = users[n].role /\ u.by = users[n].by
    BY <1>6, <1>12, Disables
  <2>2. Earned(n, u)
    BY <1>6, <1>12, <2>1 DEF Earned
  <2>3. users' = [users EXCEPT ![n] = u] /\ sessions' = {s \in sessions : s.user # n}
    BY <1>12 DEF End, SessionsOf
  <2> HIDE DEF u
  <2> QED BY <1>4, <1>5, <1>6, <1>12, <2>1, <2>2, <2>3, AccountMoves
<1>13. CASE w.op = "disabled" /\ Only(n, [users[n] EXCEPT !.disabled = FALSE])
  <2> DEFINE u == [users[n] EXCEPT !.disabled = FALSE]
  <2>1. /\ u \in User /\ u.role = users[n].role /\ u.by = users[n].by
        /\ u.epoch = users[n].epoch
    BY <1>6, <1>13, Enables
  <2>2. Earned(n, u)
    BY <1>6, <1>13, <2>1 DEF Earned
  <2>3. users' = [users EXCEPT ![n] = u] /\ sessions' = sessions
    BY <1>13 DEF Only
  <2> HIDE DEF u
  <2> QED BY <1>4, <1>5, <1>6, <1>13, <2>1, <2>2, <2>3, AccountMoves
<1>14. CASE w.op = "permission" /\ Only(n, Override(users[n], w.want))
  <2> DEFINE u == Override(users[n], w.want)
  <2>1. /\ u \in User /\ u.role = users[n].role /\ u.by = users[n].by
        /\ u.disabled = users[n].disabled /\ u.epoch = users[n].epoch
    BY <1>2, <1>6, <1>14, PermissionUpdates
  <2>2. Earned(n, u)
    BY <1>6, <1>14, <2>1 DEF Earned
  <2>3. users' = [users EXCEPT ![n] = u] /\ sessions' = sessions
    BY <1>14 DEF Only
  <2> HIDE DEF u
  <2> QED BY <1>4, <1>5, <1>6, <1>14, <2>1, <2>2, <2>3, AccountMoves
<1> QED
  BY <1>7, <1>8, <1>9, <1>10, <1>11, <1>12, <1>13, <1>14 DEF Write

-----------------------------------------------------------------------------
(* The theorems.                                                            *)

LEMMA AccountInvHolds == USpec => []AccountInv
<1>1. ASSUME UInit
      PROVE  AccountInv
  <2>1. TypeOK
    BY <1>1 DEF UInit, TypeOK
  <2>2. RoleInv(users) /\ SessionInv(users, sessions, oauth)
    BY <1>1 DEF UInit, RoleInv, SessionInv
  <2>3. WorkInv(users, work)
    BY <1>1, IdleIsFine DEF UInit, WorkInv
  <2>4. LimitInv(failures, work)
    <3> SUFFICES ASSUME NEW n \in Names
                 PROVE  failures[n] + Cardinality(Trying(work, n))
                          < MaxFailures + Cardinality(Threads)
      BY DEF LimitInv
    <3>1. failures[n] = 0
      BY <1>1 DEF UInit
    <3> QED BY <3>1, TryingCounts, AccountsAssumption
  <2> QED BY <2>1, <2>2, <2>3, <2>4 DEF AccountInv
<1>2. ASSUME AccountInv, [UNext]_uvars
      PROVE  AccountInv'
  <2>1. CASE UNCHANGED uvars
    BY <1>2, <2>1 DEF uvars, AccountInv, TypeOK, LimitInv, Trying, WorkInv
  <2>2. ASSUME NEW t \in Threads,
               \/ BootstrapAccounts(t) \/ BootstrapInsert(t)
               \/ \E n \in Names, pw \in Passwords : Login(t, n, pw)
               \/ Authenticate(t) \/ LoginFailed(t) \/ OpenSession(t)
        PROVE  AccountInv'
    BY <1>2, <2>2, BootstrapAccountsKeeps, BootstrapInsertKeeps, LoginKeeps, AuthenticateKeeps,
       LoginFailedKeeps, OpenSessionKeeps
  <2>3. ASSUME NEW t \in Threads,
               \/ \E state \in oauth : GoogleCallback(t, state)
               \/ GoogleAnswers(t) \/ GoogleLookup(t) \/ GoogleInsert(t) \/ GoogleLink(t)
        PROVE  AccountInv'
    BY <1>2, <2>3, GoogleCallbackKeeps, GoogleAnswersKeeps, GoogleLookupKeeps, GoogleInsertKeeps,
       GoogleLinkKeeps
  <2>4. ASSUME NEW t \in Threads,
               \/ \E s \in sessions, want \in Wants : Demand(t, s, want)
               \/ Check(t) \/ Write(t)
        PROVE  AccountInv'
    BY <1>2, <2>4, DemandKeeps, CheckKeeps, WriteKeeps
  <2>5. CASE GoogleStart
    BY <1>2, <2>5, GoogleStartKeeps
  <2>6. CASE \E n \in Names : FailureExpires(n)
    BY <1>2, <2>6, FailureExpiresKeeps
  <2>7. CASE \E s \in sessions : SessionExpires(s)
    BY <1>2, <2>7, SessionExpiresKeeps
  <2> QED BY <1>2, <2>1, <2>2, <2>3, <2>4, <2>5, <2>6, <2>7 DEF UNext
<1> QED BY <1>1, <1>2, PTL DEF USpec

(* What the tables of AuthService, the limiter and the threads that use     *)
(* them hold has its type, however requests overlap.                        *)
THEOREM AccountTypes == USpec => []TypeOK
BY AccountInvHolds, PTL DEF AccountInv

(* However requests overlap that create users, change their roles and       *)
(* disable them: nobody has a role but from who may give it, and the master *)
(* keeps the account; a session ends with what it was opened for; and the   *)
(* limiter lets through no more guesses than its limit and those that are   *)
(* under way.                                                               *)
THEOREM AccountsStay == USpec => []AccountsHold
<1>1. AccountInv => AccountsHold
  <2> SUFFICES ASSUME AccountInv PROVE AccountsHold
    OBVIOUS
  <2>1. RolesAreEarned
    BY DEF AccountInv, RoleInv, Earned, RolesAreEarned, Exists
  <2>2. SessionsEndTogether
    BY DEF AccountInv, SessionInv, SessionsEndTogether
  <2>3. LimiterHolds
    <3> SUFFICES ASSUME NEW n \in Names
                 PROVE  failures[n] < MaxFailures + Cardinality(Threads)
      BY DEF LimiterHolds
    <3>1. failures[n] + Cardinality(Trying(work, n)) < MaxFailures + Cardinality(Threads)
      BY DEF AccountInv, LimitInv
    <3>2. failures[n] \in Nat
      BY Typed DEF AccountInv
    <3> QED BY <3>1, <3>2, TryingCounts, AccountsAssumption
  <2> QED BY <2>1, <2>2, <2>3 DEF AccountsHold
<1> QED BY <1>1, AccountInvHolds, PTL

-----------------------------------------------------------------------------
(* The map.                                                                 *)

(* A node on which RDMA is known to be enabled is on the map.               *)
CtlInv == On(ctl) \subseteq nodes

MapInv == TopologyTypeOK /\ CtlInv /\ MapIsTrue

(* The loops run through the nodes they are looked for on.                  *)
LEMMA LoopsAreWithin ==
  ASSUME NEW V, NEW E, NEW S, NEW c \in BridgeCycles(V, E, S)
  PROVE  c \subseteq V \cap S
BY DEF BridgeCycles, CyclesOf, Range

LEMMA HeardTypes ==
  ASSUME TopologyTypeOK, NEW n \in Nodes, Heard(n)
  PROVE  /\ nodes' \subseteq Nodes /\ seen' \subseteq Nodes /\ instance' \subseteq Nodes
         /\ overdue' \subseteq Nodes /\ infos' \in Nat
         /\ flight' \in [Nodes -> Seq([what : {"created", "deleted"}, to : Nodes])]
<1>1. infos' \in Nat
  BY DEF TopologyTypeOK, Heard
<1>2. nodes' \subseteq Nodes /\ seen' \subseteq Nodes
  BY DEF TopologyTypeOK, Heard
<1> QED BY <1>1, <1>2 DEF TopologyTypeOK, Heard

(* Steps after which the links and the loops are what they were.            *)
LEMMA MapStays ==
  ASSUME MapInv, TopologyTypeOK', nodes \subseteq nodes', UNCHANGED <<rdma, ctl, bridge, cycles>>
  PROVE  MapInv'
BY DEF MapInv, CtlInv, MapIsTrue, RdmaNeedsBothEnds, LoopsAreOn, On

LEMMA DescribeKeeps ==
  ASSUME MapInv, NEW n \in Nodes, Describe(n)
  PROVE  MapInv'
<1>1. TopologyTypeOK'
  <2>1. /\ memory' \subseteq Nodes /\ network' \subseteq Nodes /\ idents' \subseteq Nodes
    BY DEF MapInv, TopologyTypeOK, Describe
  <2>2. UNCHANGED <<sockets, rdma, ctl, bridge, cycles>>
    BY DEF Describe
  <2> QED BY <2>1, <2>2, HeardTypes DEF MapInv, TopologyTypeOK, Describe
<1>2. nodes \subseteq nodes' /\ UNCHANGED <<rdma, ctl, bridge, cycles>>
  BY DEF Describe, Heard
<1> QED BY <1>1, <1>2, MapStays

LEMMA ThunderboltConnectionsKeeps ==
  ASSUME MapInv, NEW n \in Nodes, ThunderboltConnections(n)
  PROVE  MapInv'
<1>1. /\ nodes' = nodes \cup {n} /\ UNCHANGED <<ctl, bridge, cycles>>
      /\ rdma' = {e \in rdma : e[1] # n} \cup
                 {e \in Cabled : e[1] = n /\ {n, e[2]} \subseteq idents /\ {n, e[2]} \subseteq On(ctl)}
  BY DEF ThunderboltConnections, Heard
<1>2. TopologyTypeOK'
  <2>1. rdma' \subseteq Nodes \X Nodes
    BY <1>1, TopologyAssumption DEF MapInv, TopologyTypeOK
  <2>2. UNCHANGED <<sockets, memory, network, idents, ctl, bridge, cycles>>
    BY DEF ThunderboltConnections
  <2> QED BY <2>1, <2>2, HeardTypes DEF MapInv, TopologyTypeOK, ThunderboltConnections
<1>3. CtlInv'
  BY <1>1 DEF MapInv, CtlInv, On
<1>4. RdmaNeedsBothEnds'
  BY <1>1 DEF MapInv, CtlInv, MapIsTrue, RdmaNeedsBothEnds, On
<1>5. LoopsAreOn'
  BY <1>1 DEF MapInv, MapIsTrue, LoopsAreOn, On
<1> QED BY <1>2, <1>3, <1>4, <1>5 DEF MapInv, MapIsTrue

LEMMA RdmaCtlKeeps ==
  ASSUME MapInv, NEW n \in Nodes, NEW status \in {"on", "off"}, RdmaCtl(n, status)
  PROVE  MapInv'
<1>1. /\ nodes' = nodes \cup {n} /\ UNCHANGED <<bridge, cycles>>
      /\ ctl' = [ctl EXCEPT ![n] = status] /\ ctl \in [Nodes -> {"none", "on", "off"}]
      /\ rdma' = IF status = "off" THEN DropRdma(n) ELSE rdma
  BY DEF RdmaCtl, Heard, MapInv, TopologyTypeOK
<1>2. rdma' \subseteq rdma /\ (status = "off" => \A e \in rdma' : n \notin {e[1], e[2]})
  BY <1>1 DEF DropRdma, Touching
<1>3. TopologyTypeOK'
  <2>1. rdma' \subseteq Nodes \X Nodes /\ ctl' \in [Nodes -> {"none", "on", "off"}]
    BY <1>1, <1>2 DEF MapInv, TopologyTypeOK
  <2>2. UNCHANGED <<sockets, memory, network, idents, bridge, cycles>>
    BY DEF RdmaCtl
  <2> QED BY <2>1, <2>2, HeardTypes DEF MapInv, TopologyTypeOK, RdmaCtl
<1>4. CtlInv'
  BY <1>1 DEF MapInv, CtlInv, On
<1>5. RdmaNeedsBothEnds'
  BY <1>1, <1>2 DEF MapInv, MapIsTrue, RdmaNeedsBothEnds, On
<1>6. LoopsAreOn'
  BY <1>1 DEF MapInv, MapIsTrue, LoopsAreOn, On
<1> QED BY <1>3, <1>4, <1>5, <1>6 DEF MapInv, MapIsTrue

LEMMA BridgeStatusKeeps ==
  ASSUME MapInv, NEW n \in Nodes, NEW status \in {"on", "off"}, BridgeStatus(n, status)
  PROVE  MapInv'
<1>1. /\ nodes' = nodes \cup {n} /\ UNCHANGED <<rdma, ctl>>
      /\ bridge' = [bridge EXCEPT ![n] = status] /\ bridge \in [Nodes -> {"none", "on", "off"}]
      /\ cycles' = IF (bridge[n] = "on") = (status = "on") THEN cycles
                   ELSE BridgeCycles(nodes', Thunderbolt, On(bridge'))
      /\ cycles \subseteq SUBSET Nodes /\ nodes \subseteq Nodes
  BY DEF BridgeStatus, Heard, MapInv, TopologyTypeOK
<1>2. LoopsAreOn' /\ cycles' \subseteq SUBSET Nodes
  <2>1. CASE (bridge[n] = "on") = (status = "on")
    <3>1. On(bridge') = On(bridge)
      BY <1>1, <2>1 DEF On
    <3> QED BY <1>1, <2>1, <3>1 DEF MapInv, MapIsTrue, LoopsAreOn
  <2>2. CASE ~((bridge[n] = "on") = (status = "on"))
    <3>1. cycles' = BridgeCycles(nodes', Thunderbolt, On(bridge'))
      BY <1>1, <2>2
    <3>2. \A c \in cycles' : c \subseteq nodes' \cap On(bridge')
      BY <3>1, LoopsAreWithin
    <3>3. nodes' \subseteq Nodes
      BY <1>1
    <3> QED BY <3>2, <3>3 DEF LoopsAreOn, On
  <2> QED BY <2>1, <2>2
<1>3. TopologyTypeOK'
  <2>1. bridge' \in [Nodes -> {"none", "on", "off"}]
    BY <1>1
  <2>2. UNCHANGED <<sockets, rdma, memory, network, idents, ctl>>
    BY DEF BridgeStatus
  <2> QED BY <1>2, <2>1, <2>2, HeardTypes DEF MapInv, TopologyTypeOK, BridgeStatus
<1>4. CtlInv' /\ RdmaNeedsBothEnds'
  BY <1>1 DEF MapInv, CtlInv, MapIsTrue, RdmaNeedsBothEnds, On
<1> QED BY <1>2, <1>3, <1>4 DEF MapInv, MapIsTrue

LEMMA NodeTimedOutKeeps ==
  ASSUME MapInv, NEW n \in Nodes, NodeTimedOut(n)
  PROVE  MapInv'
<1>1. /\ nodes' = nodes \ {n} /\ rdma' = rdma \ Touching(rdma, n)
      /\ ctl' = [ctl EXCEPT ![n] = "none"] /\ bridge' = [bridge EXCEPT ![n] = "none"]
      /\ cycles' = LoopsWithout(n)
      /\ ctl \in [Nodes -> {"none", "on", "off"}] /\ bridge \in [Nodes -> {"none", "on", "off"}]
      /\ cycles \subseteq SUBSET Nodes /\ nodes \subseteq Nodes
  BY DEF NodeTimedOut, Without, MapInv, TopologyTypeOK
<1>2. rdma' \subseteq rdma /\ \A e \in rdma' : n \notin {e[1], e[2]}
  BY <1>1 DEF Touching
<1>3. LoopsAreOn' /\ cycles' \subseteq SUBSET Nodes
  <2>1. CASE bridge[n] = "on"
    <3>1. cycles' = BridgeCycles(nodes', Thunderbolt', On(bridge'))
      BY <1>1, <2>1 DEF LoopsWithout
    <3>2. \A c \in cycles' : c \subseteq nodes' \cap On(bridge')
      BY <3>1, LoopsAreWithin
    <3>3. nodes' \subseteq Nodes
      BY <1>1
    <3> QED BY <3>2, <3>3 DEF LoopsAreOn, On
  <2>2. CASE bridge[n] # "on"
    <3>1. cycles' = cycles /\ On(bridge') = On(bridge) /\ n \notin On(bridge)
      BY <1>1, <2>2 DEF LoopsWithout, On
    <3> QED BY <1>1, <3>1 DEF MapInv, MapIsTrue, LoopsAreOn
  <2> QED BY <2>1, <2>2
<1>4. TopologyTypeOK'
  BY <1>1, <1>2, <1>3 DEF MapInv, TopologyTypeOK, NodeTimedOut, Without
<1>5. CtlInv' /\ RdmaNeedsBothEnds'
  BY <1>1, <1>2 DEF MapInv, CtlInv, MapIsTrue, RdmaNeedsBothEnds, On
<1> QED BY <1>3, <1>4, <1>5 DEF MapInv, MapIsTrue

LEMMA ReportKeeps ==
  ASSUME MapInv, NEW w \in Nodes, NEW m \in Nodes, NEW what \in {"created", "deleted"},
         Report(w, what, m)
  PROVE  MapInv'
<1>1. TopologyTypeOK'
  BY DEF MapInv, TopologyTypeOK, Report, known
<1> QED BY <1>1, MapStays DEF Report, known

LEMMA FirstIsOne ==
  ASSUME NEW S, NEW s \in Seq(S), s # <<>>
  PROVE  Head(s) \in S
OBVIOUS

LEMMA ApplyEdgeKeeps ==
  ASSUME MapInv, NEW w \in Nodes, ApplyEdge(w)
  PROVE  MapInv'
<1> DEFINE event == Head(flight[w])
<1>1. /\ event.to \in Nodes
      /\ flight' \in [Nodes -> Seq([what : {"created", "deleted"}, to : Nodes])]
  <2>1. flight[w] \in Seq([what : {"created", "deleted"}, to : Nodes]) /\ flight[w] # <<>>
    BY DEF MapInv, TopologyTypeOK, ApplyEdge
  <2>2. event \in [what : {"created", "deleted"}, to : Nodes]
    BY <2>1, FirstIsOne
  <2>3. Tail(flight[w]) \in Seq([what : {"created", "deleted"}, to : Nodes])
    BY <2>1
  <2> QED BY <2>2, <2>3 DEF MapInv, TopologyTypeOK, ApplyEdge
<1>2. /\ nodes \subseteq nodes' /\ nodes' \subseteq Nodes
      /\ sockets' \subseteq Nodes \X Nodes
  <2> DEFINE e == <<w, event.to>>
  <2>1. e \in Nodes \X Nodes /\ e[1] \in Nodes /\ e[2] \in Nodes
    BY <1>1
  <2>2. AddConnection(e) \/ RemoveConnection(e)
    BY DEF ApplyEdge
  <2> HIDE DEF e
  <2> QED BY <2>1, <2>2 DEF MapInv, TopologyTypeOK, AddConnection, RemoveConnection
<1>3. TopologyTypeOK'
  BY <1>1, <1>2 DEF MapInv, TopologyTypeOK, ApplyEdge, known
<1> QED BY <1>2, <1>3, MapStays DEF ApplyEdge, known

(* The master's decisions that change neither links nor loops.              *)
LEMMA PlanKeeps ==
  ASSUME MapInv,
         \/ \E n \in Nodes : FindOverdue(n)
         \/ \E chosen \in SUBSET Nodes : Place(chosen)
         \/ KillBroken
  PROVE  MapInv'
<1>1. /\ overdue' \subseteq Nodes /\ instance' \subseteq Nodes
      /\ UNCHANGED <<nodes, sockets, rdma, known, bridge, cycles, flight, infos>>
  <2>1. CASE \E n \in Nodes : FindOverdue(n)
    BY <2>1 DEF MapInv, TopologyTypeOK, FindOverdue
  <2>2. CASE \E chosen \in SUBSET Nodes : Place(chosen)
    BY <2>2 DEF MapInv, TopologyTypeOK, Place
  <2>3. CASE KillBroken
    BY <2>3 DEF MapInv, TopologyTypeOK, KillBroken
  <2> QED BY <2>1, <2>2, <2>3
<1>2. TopologyTypeOK'
  BY <1>1 DEF MapInv, TopologyTypeOK, known
<1> QED BY <1>1, <1>2, MapStays DEF known

LEMMA MapInvHolds == TSpec => []MapInv
<1>1. TInit => MapInv
  BY DEF TInit, MapInv, TopologyTypeOK, CtlInv, MapIsTrue, RdmaNeedsBothEnds, LoopsAreOn, On
<1>2. ASSUME MapInv, [TNext]_tvars
      PROVE  MapInv'
  <2>1. CASE UNCHANGED tvars
    BY <1>2, <2>1 DEF tvars, MapInv, TopologyTypeOK, CtlInv, MapIsTrue, RdmaNeedsBothEnds,
                      LoopsAreOn, On
  <2>2. ASSUME NEW n \in Nodes,
               \/ Describe(n) \/ ThunderboltConnections(n)
               \/ \E status \in {"on", "off"} : RdmaCtl(n, status) \/ BridgeStatus(n, status)
        PROVE  MapInv'
    BY <1>2, <2>2, DescribeKeeps, ThunderboltConnectionsKeeps, RdmaCtlKeeps, BridgeStatusKeeps
  <2>3. ASSUME NEW n \in Nodes, NEW m \in Nodes, Discover(n, m) \/ Lose(n, m)
        PROVE  MapInv'
    BY <1>2, <2>3, ReportKeeps DEF Discover, Lose
  <2>4. ASSUME NEW n \in Nodes, ApplyEdge(n) \/ NodeTimedOut(n)
        PROVE  MapInv'
    BY <1>2, <2>4, ApplyEdgeKeeps, NodeTimedOutKeeps
  <2> QED BY <1>2, <2>1, <2>2, <2>3, <2>4, PlanKeeps DEF TNext
<1> QED BY <1>1, <1>2, PTL DEF TSpec

(* What the topology and the node_* mappings of State hold, and the events  *)
(* that concern them on their way, keeps its type.                          *)
THEOREM TopologyTypes == TSpec => []TopologyTypeOK
BY MapInvHolds, PTL DEF MapInv

(* In whatever order reports, links and time-outs are applied: no RDMA link *)
(* has an end that is gone or has RDMA not enabled, and every loop of       *)
(* bridges that State shows runs through nodes that are there, with their   *)
(* bridge on.                                                               *)
THEOREM MapStaysTrue == TSpec => []MapIsTrue
BY MapInvHolds, PTL DEF MapInv

-----------------------------------------------------------------------------
(* Links.                                                                   *)

(* A link that was sound and has not been dropped is sound.                 *)
SoundInv == \A l \in LinkIds : links[l].sound => links[l].prefill = {} \/ Sound(links[l])

LinkInv == LinksTypeOK /\ SoundInv

(* Events on their way are of one of their kinds.                           *)
LEMMA EventKinds ==
  ASSUME NEW e \in Events
  PROVE  \/ \E i \in Instances :
              e \in {<<"created", i>>, <<"deleted", i>>, <<"serving", i>>, <<"stopped", i>>}
         \/ \E l \in LinkIds, k \in Link : e = <<"link", l, k>>
         \/ \E l \in LinkIds : e = <<"unlink", l>>
         \/ \E i, s \in Instances : e = <<"task", i, s>>
  BY DEF Events

LEMMA NoLinkIsLink == NoLink \in Link
  BY DEF NoLink, Link

(* A command or a report only puts an event on its way.                     *)
LEMMA OrderKeeps ==
  ASSUME LinkInv, NEW e \in Events, Order(e), born' \in SUBSET Instances
  PROVE  LinkInv'
<1>1. /\ instances \in SUBSET Instances /\ links \in [LinkIds -> Link] /\ ports \in SUBSET Instances
      /\ tasks \in [Instances -> Nat] /\ underway \in Seq(Events) /\ issued \in 0 .. MaxCommands
      /\ SoundInv
  BY DEF LinkInv, LinksTypeOK
<1>2. /\ issued < MaxCommands /\ Len(underway) < MaxUnderway /\ issued' = issued + 1
      /\ underway' = Append(underway, e)
      /\ UNCHANGED <<instances, links, ports, tasks>>
  BY DEF Order
<1>3. issued' \in 0 .. MaxCommands
  BY <1>1, <1>2, LinksAssumption
<1>4. underway' \in Seq(Events) /\ Len(underway') <= MaxUnderway
  BY <1>1, <1>2, LinksAssumption
<1>5. LinksTypeOK'
  BY <1>1, <1>2, <1>3, <1>4 DEF LinksTypeOK
<1>6. SoundInv'
  BY <1>1, <1>2 DEF SoundInv, Sound
<1> QED
  BY <1>5, <1>6 DEF LinkInv

(* A link of which an instance is taken away is sound or dropped.           *)
LEMMA PrunedIsSound ==
  ASSUME NEW k \in Link, NEW i \in Instances, instances' = instances \ {i},
         k.sound => k.prefill = {} \/ Sound(k)
  PROVE  /\ Pruned(k, i) \in Link
         /\ Pruned(k, i).sound => Pruned(k, i).prefill = {} \/ Sound(Pruned(k, i))'
<1> DEFINE rest == [k EXCEPT !.prefill = @ \ {i}, !.decode = @ \ {i}]
<1>1. /\ rest \in Link /\ rest.sound = k.sound
      /\ rest.prefill = k.prefill \ {i} /\ rest.decode = k.decode \ {i}
  BY DEF Link
<1>2. CASE rest.prefill = {} \/ rest.decode = {}
  <2>1. Pruned(k, i) = NoLink
    BY <1>2 DEF Pruned
  <2> QED
    BY <2>1, NoLinkIsLink DEF NoLink
<1>3. CASE ~ (rest.prefill = {} \/ rest.decode = {})
  <2>1. Pruned(k, i) = rest
    BY <1>3 DEF Pruned
  <2>2. rest.sound => Sound(rest)'
    BY <1>1, <1>3 DEF Sound
  <2> QED
    BY <1>1, <2>1, <2>2
<1> QED
  BY <1>2, <1>3

LEMMA EventApplyKeeps == LinkInv /\ EventApply => LinkInv'
<1> SUFFICES ASSUME LinkInv, EventApply
             PROVE  LinkInv'
  OBVIOUS
<1> DEFINE e == Head(underway)
<1>1. /\ instances \in SUBSET Instances /\ links \in [LinkIds -> Link] /\ ports \in SUBSET Instances
      /\ tasks \in [Instances -> Nat] /\ underway \in Seq(Events) /\ Len(underway) <= MaxUnderway
      /\ born \in SUBSET Instances /\ issued \in 0 .. MaxCommands
      /\ SoundInv
  BY DEF LinkInv, LinksTypeOK
<1>2. /\ e \in Events /\ underway' \in Seq(Events) /\ Len(underway') <= MaxUnderway
      /\ UNCHANGED <<born, issued>>
  BY <1>1, LinksAssumption DEF EventApply
<1>3. ASSUME instances' \in SUBSET Instances, links' \in [LinkIds -> Link], ports' \in SUBSET Instances,
             tasks' \in [Instances -> Nat], SoundInv'
      PROVE  LinkInv'
  BY <1>1, <1>2, <1>3 DEF LinkInv, LinksTypeOK
<1>4. CASE \E i \in Instances : e = <<"created", i>>
  <2>1. PICK i \in Instances : e = <<"created", i>>
    BY <1>4
  <2>2. instances' = instances \cup {i} /\ UNCHANGED <<links, ports, tasks>>
    BY <2>1 DEF EventApply
  <2>3. SoundInv'
    BY <1>1, <2>2 DEF SoundInv, Sound
  <2> QED
    BY <1>1, <1>3, <2>2, <2>3
<1>5. CASE \E i \in Instances : e = <<"deleted", i>>
  <2>1. PICK i \in Instances : e = <<"deleted", i>>
    BY <1>5
  <2>2. ApplyInstanceDeleted(i)
    BY <2>1 DEF EventApply
  <2>3. /\ instances' = instances \ {i} /\ UNCHANGED <<ports, tasks>>
        /\ links' = [l \in LinkIds |-> Pruned(links[l], i)]
    BY <2>2 DEF ApplyInstanceDeleted
  <2>4. ASSUME NEW l \in LinkIds
        PROVE  /\ links'[l] \in Link
               /\ links'[l].sound => links'[l].prefill = {} \/ Sound(links[l])'
    <3>1. links[l] \in Link /\ (links[l].sound => links[l].prefill = {} \/ Sound(links[l]))
      BY <1>1 DEF SoundInv
    <3>2. links'[l] = Pruned(links[l], i)
      BY <2>3
    <3> QED
      BY <2>3, <3>1, <3>2, PrunedIsSound DEF Sound
  <2>5. links' \in [LinkIds -> Link]
    BY <2>3, <2>4
  <2> QED
    BY <1>1, <1>3, <2>3, <2>4, <2>5 DEF SoundInv
<1>6. CASE \E l \in LinkIds, k \in Link : e = <<"link", l, k>>
  <2>1. PICK l \in LinkIds, k \in Link : e = <<"link", l, k>>
    BY <1>6
  <2>2. ApplyLink(l, k)
    BY <2>1 DEF EventApply
  <2>3. /\ links' = [links EXCEPT ![l] = [k EXCEPT !.sound = Sound(k)]]
        /\ UNCHANGED <<instances, ports, tasks>>
    BY <2>2 DEF ApplyLink
  <2>4. Sound(k) \in BOOLEAN
    BY DEF Sound
  <2>5. links' \in [LinkIds -> Link]
    BY <1>1, <2>3, <2>4 DEF Link
  <2>6. ASSUME NEW m \in LinkIds, links'[m].sound
        PROVE  links'[m].prefill = {} \/ Sound(links[m])'
    BY <1>1, <2>3, <2>4, <2>6 DEF SoundInv, Sound, Link
  <2> QED
    BY <1>1, <1>3, <2>3, <2>5, <2>6 DEF SoundInv
<1>7. CASE \E l \in LinkIds : e = <<"unlink", l>>
  <2>1. PICK l \in LinkIds : e = <<"unlink", l>>
    BY <1>7
  <2>2. links' = [links EXCEPT ![l] = NoLink] /\ UNCHANGED <<instances, ports, tasks>>
    BY <2>1 DEF EventApply
  <2>3. links' \in [LinkIds -> Link]
    BY <1>1, <2>2, NoLinkIsLink
  <2>4. SoundInv'
    BY <1>1, <2>2 DEF SoundInv, Sound, NoLink
  <2> QED
    BY <1>1, <1>3, <2>2, <2>3, <2>4
<1>8. CASE \E i, s \in Instances : e = <<"task", i, s>>
  <2>1. PICK i, s \in Instances : e = <<"task", i, s>>
    BY <1>8
  <2>2. tasks' = [tasks EXCEPT ![i] = @ + 1] /\ UNCHANGED <<instances, links, ports>>
    BY <2>1 DEF EventApply
  <2>3. tasks' \in [Instances -> Nat]
    BY <1>1, <2>2
  <2>4. SoundInv'
    BY <1>1, <2>2 DEF SoundInv, Sound
  <2> QED
    BY <1>1, <1>3, <2>2, <2>3, <2>4
<1>9. CASE \E i \in Instances : e = <<"serving", i>> \/ e = <<"stopped", i>>
  <2>1. ports' \in SUBSET Instances /\ UNCHANGED <<instances, links, tasks>>
    BY <1>1, <1>9 DEF EventApply
  <2>2. SoundInv'
    BY <1>1, <2>1 DEF SoundInv, Sound
  <2> QED
    BY <1>1, <1>3, <2>1, <2>2
<1> QED
  BY <1>2, <1>4, <1>5, <1>6, <1>7, <1>8, <1>9, EventKinds

LEMMA LinkInvHolds == LSpec => []LinkInv
<1>1. LInit => LinkInv
  <2> SUFFICES ASSUME LInit
               PROVE  LinkInv
    OBVIOUS
  <2>1. LinksTypeOK
    BY NoLinkIsLink, LinksAssumption DEF LInit, LinksTypeOK
  <2>2. SoundInv
    BY DEF LInit, SoundInv, NoLink
  <2> QED
    BY <2>1, <2>2 DEF LinkInv
<1>2. LinkInv /\ [LNext]_lvars => LinkInv'
  <2> SUFFICES ASSUME LinkInv, [LNext]_lvars
               PROVE  LinkInv'
    OBVIOUS
  <2>0. born \in SUBSET Instances /\ instances \in SUBSET Instances /\ ports \in SUBSET Instances
    BY DEF LinkInv, LinksTypeOK
  <2>1. ASSUME NEW i \in Instances, CreateInstance(i)
        PROVE  LinkInv'
    BY <2>0, <2>1, OrderKeeps DEF CreateInstance, Events
  <2>2. ASSUME NEW i \in Instances,
               DeleteInstance(i) \/ ServePrefill(i) \/ StopServing(i)
        PROVE  LinkInv'
    <3>1. PICK e \in Events : Command(e)
      BY <2>2 DEF DeleteInstance, ServePrefill, StopServing, Events
    <3> QED
      BY <2>0, <3>1, OrderKeeps DEF Command
  <2>3. ASSUME NEW l \in LinkIds, NEW prefill \in SUBSET Instances, NEW decode \in SUBSET Instances,
               SetInstanceLink(l, prefill, decode)
        PROVE  LinkInv'
    <3>1. [prefill |-> prefill, decode |-> decode, sound |-> TRUE] \in Link
      BY DEF Link
    <3>2. <<"link", l, [prefill |-> prefill, decode |-> decode, sound |-> TRUE]>> \in Events
      BY <3>1 DEF Events
    <3> QED
      BY <2>0, <2>3, <3>2, OrderKeeps DEF SetInstanceLink, Command
  <2>4. ASSUME NEW l \in LinkIds, DeleteInstanceLink(l)
        PROVE  LinkInv'
    <3>1. PICK e \in Events : Command(e)
      BY <2>4 DEF DeleteInstanceLink, Events
    <3> QED
      BY <2>0, <3>1, OrderKeeps DEF Command
  <2>5. ASSUME NEW m \in {Model[i] : i \in Instances}, TextGeneration(m)
        PROVE  LinkInv'
    <3>1. PICK i \in LeastBusy(Available(m)) :
            \/ \E s \in PrefillEndpoints(i) : Command(<<"task", i, s>>)
            \/ PrefillEndpoints(i) = {} /\ Command(<<"task", i, i>>)
      BY <2>5 DEF TextGeneration
    <3>2. i \in Instances /\ PrefillEndpoints(i) \subseteq Instances
      BY <2>0, <3>1 DEF LeastBusy, Available, PrefillEndpoints
    <3>3. PICK s \in Instances : Command(<<"task", i, s>>)
      BY <3>1, <3>2
    <3>4. <<"task", i, s>> \in Events
      BY <3>2 DEF Events
    <3> QED
      BY <2>0, <3>3, <3>4, OrderKeeps DEF Command
  <2>6. CASE EventApply
    BY <2>6, EventApplyKeeps
  <2>7. CASE UNCHANGED lvars
    BY <2>7 DEF lvars, LinkInv, LinksTypeOK, SoundInv, Sound
  <2> QED
    BY <2>1, <2>2, <2>3, <2>4, <2>5, <2>6, <2>7 DEF LNext
<1> QED
  BY <1>1, <1>2, PTL DEF LSpec

(* The type of every variable of Links, whatever is commanded and reported. *)
THEOREM LinkTypes == LSpec => []LinksTypeOK
<1>1. LinkInv => LinksTypeOK
  BY DEF LinkInv
<1> QED
  BY <1>1, LinkInvHolds, PTL

(* As long as links are sound when they come, a model that has an instance  *)
(* has one that decodes (apply_instance_deleted): every link that has not   *)
(* been dropped has somebody to decode, who is there and of the same model. *)
THEOREM ModelsKeepADecoder == LSpec => []ModelsStayUsable
<1>1. LinkInv => ModelsStayUsable
  <2> SUFFICES ASSUME LinkInv, \A l \in LinkIds : links[l].sound, NEW i \in instances
               PROVE  Available(Model[i]) # {}
    BY DEF ModelsStayUsable
  <2>1. CASE i \notin PrefillOnly
    BY <2>1 DEF Available
  <2>2. CASE i \in PrefillOnly
    <3>1. PICK l \in LinkIds : i \in links[l].prefill
      BY <2>2 DEF PrefillOnly
    <3>2. Sound(links[l])
      BY <3>1 DEF LinkInv, SoundInv
    <3>3. PICK j \in links[l].decode : j \in instances /\ Model[j] = Model[i]
      BY <3>1, <3>2 DEF Sound
    <3>4. j \notin PrefillOnly
      BY <3>3 DEF PrefillOnly
    <3> QED
      BY <3>3, <3>4 DEF Available
  <2> QED
    BY <2>1, <2>2
<1> QED
  BY <1>1, LinkInvHolds, PTL

-----------------------------------------------------------------------------
(* Replicas.                                                                *)

(* A set of numbers has a least one.                                        *)
LEMMA LeastOfNumbers ==
  ASSUME NEW N \in SUBSET Nat, N # {}
  PROVE  \E x \in N : \A y \in N : x <= y
<1>1. PICK x \in N : \A y \in N : ~ (<<y, x>> \in OpToRel(<, Nat))
  BY NatLessThanWellFounded, WFMin
<1>2. \A y \in N : ~ (y < x)
  BY <1>1 DEF OpToRel
<1> QED
  BY <1>2

LEMMA MinOfNumbers ==
  ASSUME NEW N \in SUBSET Nat, N # {}
  PROVE  Min(N) \in N /\ \A y \in N : Min(N) <= y
BY LeastOfNumbers DEF Min

(* Shares of use, as fractions: a/b <= c/d and c/d <= e/f.                  *)
LEMMA SharesAreOrdered ==
  ASSUME NEW a \in Nat, NEW b \in Nat \ {0}, NEW c \in Nat, NEW d \in Nat \ {0},
         NEW e \in Nat, NEW f \in Nat \ {0}, a * d <= c * b, c * f <= e * d
  PROVE  a * f <= e * b /\ (a * f = e * b => a * d = c * b /\ c * f = e * d)
OBVIOUS

LEMMA SharesAreEqual ==
  ASSUME NEW a \in Nat, NEW b \in Nat \ {0}, NEW c \in Nat, NEW d \in Nat \ {0},
         NEW e \in Nat, NEW f \in Nat \ {0}, a * d = c * b, c * f = e * d
  PROVE  a * f = e * b
OBVIOUS

(* Replicas are ordered by their load, without ties.                        *)
LEMMA BeforeIsAnOrder ==
  ASSUME ReplicasTypeOK
  PROVE  /\ \A r, s \in Servers : r # s => Before(r, s) \/ Before(s, r)
         /\ \A r, s, t \in Servers : Before(r, s) /\ Before(s, t) => Before(r, t)
<1>1. /\ busy \in [Servers -> Nat] /\ completed \in [Servers -> Nat]
      /\ MaxConcurrency \in [Servers -> Nat \ {0}] /\ Servers \subseteq Nat
  BY ReplicasAssumption DEF ReplicasTypeOK
<1>2. \A r, s \in Servers :
        /\ busy[r] * MaxConcurrency[s] \in Nat
        /\ completed[r] \in Nat /\ r \in Nat
  BY <1>1
<1>3. \A r, s \in Servers : r # s => Before(r, s) \/ Before(s, r)
  <2> SUFFICES ASSUME NEW r \in Servers, NEW s \in Servers, r # s
               PROVE  Before(r, s) \/ Before(s, r)
    OBVIOUS
  <2> DEFINE x == busy[r] * MaxConcurrency[s]
             y == busy[s] * MaxConcurrency[r]
  <2>1. x \in Nat /\ y \in Nat /\ completed[r] \in Nat /\ completed[s] \in Nat /\ r \in Nat /\ s \in Nat
    BY <1>2
  <2>2. /\ Before(r, s) <=> x < y \/ (x = y /\ completed[r] < completed[s])
                                  \/ (x = y /\ completed[r] = completed[s] /\ r < s)
        /\ Before(s, r) <=> y < x \/ (y = x /\ completed[s] < completed[r])
                                  \/ (y = x /\ completed[s] = completed[r] /\ s < r)
    BY DEF Before
  <2> HIDE DEF x, y
  <2> QED
    BY <2>1, <2>2
<1>4. ASSUME NEW r \in Servers, NEW s \in Servers, NEW t \in Servers, Before(r, s), Before(s, t)
      PROVE  Before(r, t)
  <2> DEFINE rs == busy[r] * MaxConcurrency[s]
             sr == busy[s] * MaxConcurrency[r]
             st == busy[s] * MaxConcurrency[t]
             ts == busy[t] * MaxConcurrency[s]
             rt == busy[r] * MaxConcurrency[t]
             tr == busy[t] * MaxConcurrency[r]
  <2>1. rs \in Nat /\ sr \in Nat /\ st \in Nat /\ ts \in Nat /\ rt \in Nat /\ tr \in Nat
    BY <1>2
  <2>2. rs <= sr /\ st <= ts => rt <= tr /\ (rt = tr => rs = sr /\ st = ts)
    BY <1>1, SharesAreOrdered
  <2>3. /\ Before(r, s) <=> rs < sr \/ (rs = sr /\ completed[r] < completed[s])
                                    \/ (rs = sr /\ completed[r] = completed[s] /\ r < s)
        /\ Before(s, t) <=> st < ts \/ (st = ts /\ completed[s] < completed[t])
                                    \/ (st = ts /\ completed[s] = completed[t] /\ s < t)
        /\ Before(r, t) <=> rt < tr \/ (rt = tr /\ completed[r] < completed[t])
                                    \/ (rt = tr /\ completed[r] = completed[t] /\ r < t)
    BY DEF Before
  <2> HIDE DEF rs, sr, st, ts, rt, tr
  <2>4. rs = sr /\ st = ts => rt = tr
    BY <1>1, SharesAreEqual DEF rs, sr, st, ts, rt, tr
  <2> QED
    BY <1>2, <1>4, <2>1, <2>2, <2>3, <2>4
<1> QED
  BY <1>3, <1>4

(* There is a first one among finitely many replicas: the smallest set      *)
(* without one would have it.                                               *)
LEMMA FirstOfServers ==
  ASSUME ReplicasTypeOK, NEW C \in SUBSET Servers, C # {}
  PROVE  \E r \in C : \A s \in C \ {r} : Before(r, s)
<1> DEFINE HasFirst(T) == \E r \in T : \A s \in T \ {r} : Before(r, s)
           Bad == {T \in SUBSET Servers : T # {} /\ ~ HasFirst(T)}
           Sizes == {Cardinality(T) : T \in Bad}
<1> HIDE DEF HasFirst
<1>0. ASSUME NEW T \in SUBSET Servers
      PROVE  IsFiniteSet(T) /\ Cardinality(T) \in Nat
  BY FS_Subset, FS_CardinalityType, ReplicasAssumption
<1>1. SUFFICES ASSUME Bad # {} PROVE FALSE
  BY DEF HasFirst
<1>2. Sizes \in SUBSET Nat /\ Sizes # {}
  BY <1>0, <1>1
<1>3. PICK T \in Bad : \A U \in Bad : Cardinality(T) <= Cardinality(U)
  <2> HIDE DEF Bad
  <2>1. PICK n \in Sizes : \A k \in Sizes : n <= k
    <3> HIDE DEF Sizes
    <3> QED
      BY <1>2, LeastOfNumbers
  <2> QED
    BY <2>1
<1>4. PICK x : x \in T
  OBVIOUS
<1>5. T \ {x} \in SUBSET Servers /\ Cardinality(T \ {x}) = Cardinality(T) - 1
  BY <1>0, <1>4, FS_RemoveElement
<1>6. T \ {x} \notin Bad
  BY <1>0, <1>3, <1>5
<1>7. CASE T \ {x} = {}
  BY <1>4, <1>7 DEF HasFirst
<1>8. CASE HasFirst(T \ {x})
  <2>1. PICK r \in T \ {x} : \A s \in (T \ {x}) \ {r} : Before(r, s)
    BY <1>8 DEF HasFirst
  <2>2. CASE Before(r, x)
    <3>1. \A s \in T \ {r} : Before(r, s)
      BY <2>1, <2>2
    <3> QED
      BY <2>1, <3>1 DEF HasFirst
  <2>3. CASE Before(x, r)
    <3>1. \A s \in T \ {x} : Before(x, s)
      BY <1>4, <2>1, <2>3, BeforeIsAnOrder
    <3> QED
      BY <1>4, <3>1 DEF HasFirst
  <2> QED
    BY <1>4, <2>1, <2>2, <2>3, BeforeIsAnOrder
<1> QED
  BY <1>5, <1>6, <1>7, <1>8

(* What is selected is one of the candidates.                               *)
LEMMA SelectedIsCandidate ==
  ASSUME ReplicasTypeOK, NEW m, Candidates(m) # {}
  PROVE  Selected(m) \in Candidates(m)
<1>1. Candidates(m) \in SUBSET Servers
  BY DEF Candidates
<1> HIDE DEF Candidates
<1> QED
  BY <1>1, FirstOfServers DEF Selected

Holding == {"leased", "opened", "streaming", "lost"}

(* Those that hold a lease on r, and those that wait, when requests stand   *)
(* as R says.                                                               *)
Holders(R, r) == {q \in RequestIds : R[q].st \in Holding /\ R[q].on = r}

Sleepers(R) == {q \in RequestIds : R[q].st \in {"asleep", "woken"}}

(* Who holds a lease holds it on a replica, and each is counted once.       *)
LeaseInv ==
  /\ \A q \in RequestIds : request[q].st \in Holding => request[q].on \in Servers
  /\ \A r \in Servers :
       /\ IsFiniteSet(Holders(request, r)) /\ busy[r] = Cardinality(Holders(request, r))
       /\ busy[r] <= MaxConcurrency[r]

WaitInv == IsFiniteSet(Sleepers(request)) /\ waiting = Cardinality(Sleepers(request))

(* What keeps a sleeper from a replica of its model lasts until it looks    *)
(* again: the replica is full, or it is not back before that.               *)
SleepInv ==
  \A q \in Those("asleep") :
    /\ request[q].wake <= request[q].deadline
    /\ \A r \in Servers :
         request[q].model \in Serves[r] =>
           busy[r] = MaxConcurrency[r] \/ request[q].wake <= until[r]

ReplicaInv == ReplicasTypeOK /\ LeaseInv /\ WaitInv /\ SleepInv

LEMMA NewIsRequest ==
  /\ New \in Request
  /\ New.st = "new" /\ New.on = 0 /\ New.deadline = 0 /\ New.wake = 0
BY DEF New, Request

(* A sleeper looks again at its deadline or before, and when a replica that *)
(* cools down is back.                                                      *)
LEMMA WakeIsInTime ==
  ASSUME ReplicasTypeOK, NEW m, NEW deadline \in Nat
  PROVE  /\ WakeAt(m, deadline) \in Nat /\ WakeAt(m, deadline) <= deadline
         /\ \A r \in Servers : m \in Serves[r] /\ until[r] > now => WakeAt(m, deadline) <= until[r]
<1> DEFINE N == {deadline} \cup {until[r] : r \in {s \in Servers : m \in Serves[s] /\ until[s] > now}}
<1>1. N \in SUBSET Nat /\ N # {}
  BY DEF ReplicasTypeOK
<1>2. WakeAt(m, deadline) = Min(N)
  BY DEF WakeAt
<1>3. \A r \in Servers : m \in Serves[r] /\ until[r] > now => until[r] \in N
  OBVIOUS
<1>4. deadline \in N
  OBVIOUS
<1> HIDE DEF N
<1>5. Min(N) \in N /\ \A y \in N : Min(N) <= y
  BY <1>1, MinOfNumbers
<1>6. Min(N) \in Nat
  BY <1>1, <1>5
<1> QED
  BY <1>2, <1>3, <1>4, <1>5, <1>6

(* Who holds and who waits when one request has moved.                      *)
LEMMA OneMoves ==
  ASSUME ReplicasTypeOK, NEW q \in RequestIds, NEW new \in Request,
         request' = [request EXCEPT ![q] = new]
  PROVE  /\ request' \in [RequestIds -> Request]
         /\ request'[q] = new /\ \A p \in RequestIds \ {q} : request'[p] = request[p]
         /\ \A r \in Servers :
              Holders(request', r) = IF new.st \in Holding /\ new.on = r THEN Holders(request, r) \cup {q} ELSE Holders(request, r) \ {q}
         /\ Sleepers(request') = IF new.st \in {"asleep", "woken"} THEN Sleepers(request) \cup {q} ELSE Sleepers(request) \ {q}
BY DEF ReplicasTypeOK, Holders, Sleepers

(* A turn of the loop in _acquire, by a request that has just come or one   *)
(* of those that wait.                                                      *)
LEMMA LookKeeps ==
  ASSUME ReplicaInv, NEW q \in RequestIds, NEW m \in ModelsServed \cup {"none"}, NEW deadline \in Nat, NEW counted \in Nat,
         \/ request[q].st = "new" /\ counted = waiting + 1 /\ waiting < QueueSize
         \/ q \in Sleepers(request) /\ counted = waiting,
         Look(q, m, deadline, counted), UNCHANGED <<now, completed, until>>
  PROVE  ReplicaInv'
<1>1. /\ now \in Nat /\ request \in [RequestIds -> Request]
      /\ busy \in [Servers -> Nat] /\ completed \in [Servers -> Nat] /\ until \in [Servers -> Nat]
      /\ waiting \in Nat /\ waiting <= QueueSize /\ QueueSize \in Nat
      /\ ReplicasTypeOK /\ LeaseInv /\ WaitInv /\ SleepInv
  BY ReplicasAssumption DEF ReplicaInv, ReplicasTypeOK
<1>2. /\ request[q].st \in {"new", "asleep", "woken"}
      /\ q \in Sleepers(request) <=> request[q].st # "new"
  BY DEF Sleepers
<1>3. \A r \in Servers :
        /\ q \notin Holders(request, r) /\ Holders(request, r) \ {q} = Holders(request, r)
        /\ IsFiniteSet(Holders(request, r)) /\ busy[r] = Cardinality(Holders(request, r))
  BY <1>1, <1>2 DEF LeaseInv, Holders, Holding
<1>4. /\ IsFiniteSet(Sleepers(request) \ {q}) /\ Cardinality(Sleepers(request) \ {q}) = counted - 1
      /\ IsFiniteSet(Sleepers(request) \cup {q}) /\ Cardinality(Sleepers(request) \cup {q}) = counted
      /\ counted <= QueueSize /\ counted - 1 \in Nat
  <2>0. IsFiniteSet(Sleepers(request)) /\ waiting = Cardinality(Sleepers(request)) /\ waiting \in Nat
    BY <1>1 DEF WaitInv
  <2>1. CASE q \in Sleepers(request)
    <3>1. Sleepers(request) \cup {q} = Sleepers(request)
      BY <2>1
    <3>2. counted = waiting
      BY <1>2, <2>1
    <3>3. /\ IsFiniteSet(Sleepers(request) \ {q}) /\ Cardinality(Sleepers(request) \ {q}) = waiting - 1
          /\ Cardinality(Sleepers(request) \ {q}) \in Nat
      BY <2>0, <2>1, FS_RemoveElement, FS_CardinalityType
    <3> QED
      BY <1>1, <2>0, <3>1, <3>2, <3>3
  <2>2. CASE q \notin Sleepers(request)
    <3>1. Sleepers(request) \ {q} = Sleepers(request)
      BY <2>2
    <3>2. counted = waiting + 1 /\ waiting < QueueSize
      BY <1>2, <2>2
    <3>3. IsFiniteSet(Sleepers(request) \cup {q}) /\ Cardinality(Sleepers(request) \cup {q}) = waiting + 1
      BY <2>0, <2>2, FS_AddElement
    <3> QED
      BY <1>1, <2>0, <3>1, <3>2, <3>3
  <2> QED
    BY <2>1, <2>2
<1>5. CASE Candidates(m) # {}
  <2> DEFINE r == Selected(m)
             new == [New EXCEPT !.st = "leased", !.on = r]
  <2>1. r \in Servers /\ busy[r] < MaxConcurrency[r]
    BY <1>1, <1>5, SelectedIsCandidate DEF Candidates
  <2> HIDE DEF r
  <2>2. /\ request' = [request EXCEPT ![q] = new] /\ busy' = [busy EXCEPT ![r] = @ + 1]
        /\ waiting' = counted - 1
    BY <1>5 DEF Look, r
  <2>3. /\ new \in Request /\ new.st = "leased" /\ new.on = r
    BY <2>1 DEF New, Request
  <2> HIDE DEF new
  <2>4. /\ request' \in [RequestIds -> Request] /\ request'[q] = new
        /\ \A p \in RequestIds \ {q} : request'[p] = request[p]
        /\ Holders(request', r) = Holders(request, r) \cup {q}
        /\ \A s \in Servers \ {r} : Holders(request', s) = Holders(request, s)
        /\ Sleepers(request') = Sleepers(request) \ {q}
    <3>1. /\ request' \in [RequestIds -> Request] /\ request'[q] = new
          /\ \A p \in RequestIds \ {q} : request'[p] = request[p]
          /\ \A s \in Servers :
               Holders(request', s) = IF new.st \in Holding /\ new.on = s THEN Holders(request, s) \cup {q}
                                                                        ELSE Holders(request, s) \ {q}
          /\ Sleepers(request') = IF new.st \in {"asleep", "woken"} THEN Sleepers(request) \cup {q}
                                                                   ELSE Sleepers(request) \ {q}
      BY <1>1, <2>2, <2>3, OneMoves
    <3> QED
      BY <1>3, <2>1, <2>3, <3>1 DEF Holding
  <2>5. ReplicasTypeOK'
    BY <1>1, <1>4, <2>1, <2>2, <2>4 DEF ReplicasTypeOK
  <2>6. LeaseInv'
    <3>1. \A p \in RequestIds : request'[p].st \in Holding => request'[p].on \in Servers
      BY <1>1, <2>1, <2>3, <2>4 DEF LeaseInv
    <3>2. ASSUME NEW s \in Servers
          PROVE  /\ IsFiniteSet(Holders(request', s)) /\ busy'[s] = Cardinality(Holders(request', s))
                 /\ busy'[s] <= MaxConcurrency[s]
      <4>1. CASE s = r
        <5>1. busy'[r] = busy[r] + 1 /\ busy[r] + 1 <= MaxConcurrency[r]
          <6>1. busy[r] \in Nat /\ MaxConcurrency[r] \in Nat
            BY <1>1, <2>1, ReplicasAssumption
          <6>2. busy'[r] = busy[r] + 1
            BY <1>1, <2>1, <2>2
          <6> QED
            BY <2>1, <6>1, <6>2
        <5>2. /\ IsFiniteSet(Holders(request, r) \cup {q})
              /\ Cardinality(Holders(request, r) \cup {q}) = busy[r] + 1
          BY <1>3, <2>1, FS_AddElement
        <5> QED
          BY <2>4, <4>1, <5>1, <5>2
      <4>2. CASE s # r
        BY <1>1, <2>2, <2>4, <4>2 DEF LeaseInv
      <4> QED
        BY <4>1, <4>2
    <3> QED
      BY <3>1, <3>2 DEF LeaseInv
  <2>7. WaitInv'
    BY <1>4, <2>2, <2>4 DEF WaitInv
  <2>8. SleepInv'
    <3>1. SUFFICES ASSUME NEW p \in Those("asleep")'
                   PROVE  /\ request'[p].wake <= request'[p].deadline
                          /\ \A s \in Servers :
                               request'[p].model \in Serves[s] =>
                                 busy'[s] = MaxConcurrency[s] \/ request'[p].wake <= until[s]
      BY DEF SleepInv
    <3>2. p \in Those("asleep") /\ request'[p] = request[p]
      BY <2>3, <2>4, <3>1 DEF Those
    <3>3. \A s \in Servers : busy[s] = MaxConcurrency[s] => busy'[s] = MaxConcurrency[s]
      BY <1>1, <2>1, <2>2
    <3> QED
      BY <1>1, <3>2, <3>3 DEF SleepInv
  <2> QED
    BY <2>5, <2>6, <2>7, <2>8 DEF ReplicaInv
<1>6. ASSUME NEW new \in Request, request' = [request EXCEPT ![q] = new], UNCHANGED busy,
             new.st \in {"timed out", "asleep"}, waiting' = IF new.st = "asleep" THEN counted ELSE counted - 1,
             new.st = "asleep" =>
               /\ new.wake <= new.deadline
               /\ \A s \in Servers :
                    new.model \in Serves[s] => busy[s] = MaxConcurrency[s] \/ new.wake <= until[s]
      PROVE  ReplicaInv'
  <2>1. /\ request' \in [RequestIds -> Request] /\ request'[q] = new
        /\ \A p \in RequestIds \ {q} : request'[p] = request[p]
        /\ \A s \in Servers : Holders(request', s) = Holders(request, s)
        /\ Sleepers(request') = IF new.st = "asleep" THEN Sleepers(request) \cup {q} ELSE Sleepers(request) \ {q}
    <3>1. /\ request' \in [RequestIds -> Request] /\ request'[q] = new
          /\ \A p \in RequestIds \ {q} : request'[p] = request[p]
          /\ \A s \in Servers :
               Holders(request', s) = IF new.st \in Holding /\ new.on = s THEN Holders(request, s) \cup {q}
                                                                        ELSE Holders(request, s) \ {q}
          /\ Sleepers(request') = IF new.st \in {"asleep", "woken"} THEN Sleepers(request) \cup {q}
                                                                   ELSE Sleepers(request) \ {q}
      BY <1>1, <1>6, OneMoves
    <3> QED
      BY <1>3, <1>6, <3>1 DEF Holding
  <2>2. ReplicasTypeOK'
    <3>1. waiting' \in 0 .. QueueSize
      <4>1. waiting' \in {counted, counted - 1}
        BY <1>6
      <4>2. counted \in 0 .. QueueSize /\ counted - 1 \in 0 .. QueueSize
        BY <1>1, <1>4
      <4> QED
        BY <4>1, <4>2
    <3> QED
      BY <1>1, <1>6, <2>1, <3>1 DEF ReplicasTypeOK
  <2>3. LeaseInv'
    BY <1>1, <1>6, <2>1 DEF LeaseInv, Holding
  <2>4. WaitInv'
    BY <1>4, <1>6, <2>1 DEF WaitInv
  <2>5. SleepInv'
    <3>1. SUFFICES ASSUME NEW p \in Those("asleep")'
                   PROVE  /\ request'[p].wake <= request'[p].deadline
                          /\ \A s \in Servers :
                               request'[p].model \in Serves[s] =>
                                 busy[s] = MaxConcurrency[s] \/ request'[p].wake <= until[s]
      BY <1>6 DEF SleepInv
    <3>2. CASE p = q
      BY <1>6, <2>1, <3>1, <3>2 DEF Those
    <3>3. CASE p # q
      BY <1>1, <2>1, <3>1, <3>3 DEF Those, SleepInv
    <3> QED
      BY <3>2, <3>3
  <2> QED
    BY <2>2, <2>3, <2>4, <2>5 DEF ReplicaInv
<1>7. CASE Candidates(m) = {} /\ deadline <= now
  <2> DEFINE new == [New EXCEPT !.st = "timed out"]
  <2>1. new \in Request /\ new.st = "timed out"
    BY DEF New, Request
  <2>2. request' = [request EXCEPT ![q] = new] /\ waiting' = counted - 1 /\ UNCHANGED busy
    <3>1. ~ (deadline > now)
      BY <1>1, <1>7
    <3> QED
      BY <1>7, <3>1 DEF Look
  <2> HIDE DEF new
  <2> QED
    BY <1>6, <2>1, <2>2
<1>8. CASE Candidates(m) = {} /\ deadline > now
  <2> DEFINE wake == WakeAt(m, deadline)
             new == [New EXCEPT !.st = "asleep", !.model = m, !.deadline = deadline, !.wake = wake]
  <2>1. /\ wake \in Nat /\ wake <= deadline
        /\ \A s \in Servers : m \in Serves[s] /\ until[s] > now => wake <= until[s]
    BY <1>1, WakeIsInTime
  <2>2. request' = [request EXCEPT ![q] = new] /\ waiting' = counted /\ UNCHANGED busy
    <3>1. ~ (deadline <= now)
      BY <1>1, <1>8
    <3> QED
      BY <1>8, <3>1 DEF Look
  <2>3. /\ new \in Request /\ new.st = "asleep" /\ new.model = m /\ new.deadline = deadline
        /\ new.wake = wake
    BY <2>1 DEF New, Request
  <2> HIDE DEF new, wake
  <2>4. \A s \in Servers : m \in Serves[s] => busy[s] = MaxConcurrency[s] \/ wake <= until[s]
    <3>1. ASSUME NEW s \in Servers, m \in Serves[s]
          PROVE  until[s] > now \/ busy[s] = MaxConcurrency[s]
      <4>1. until[s] > now \/ busy[s] >= MaxConcurrency[s]
        BY <1>1, <1>8, <3>1, ReplicasAssumption DEF Candidates
      <4> QED
        BY <1>1, <4>1, ReplicasAssumption DEF LeaseInv
    <3> QED
      BY <2>1, <3>1
  <2> QED
    BY <1>6, <2>1, <2>2, <2>3, <2>4
<1> QED
  BY <1>1, <1>5, <1>7, <1>8

(* A lease is given back: whoever sleeps is woken.                          *)
LEMMA ReleaseKeeps ==
  ASSUME ReplicaInv, NEW q \in RequestIds, NEW failed \in BOOLEAN,
         request[q].st \in {"leased", "streaming"}, Release(q, failed)
  PROVE  ReplicaInv'
<1> DEFINE r == request[q].on
           R == [request EXCEPT ![q] = [New EXCEPT !.st = "done"]]
<1>1. /\ now \in Nat /\ request \in [RequestIds -> Request]
      /\ busy \in [Servers -> Nat] /\ completed \in [Servers -> Nat] /\ until \in [Servers -> Nat]
      /\ waiting \in 0 .. QueueSize /\ LeaseInv /\ WaitInv
  BY DEF ReplicaInv, ReplicasTypeOK
<1>2. r \in Servers /\ q \in Holders(request, r)
  BY <1>1 DEF LeaseInv, Holding, Holders
<1>3. /\ IsFiniteSet(Holders(request, r) \ {q})
      /\ Cardinality(Holders(request, r) \ {q}) = busy[r] - 1
      /\ busy[r] - 1 \in Nat
  <2>1. IsFiniteSet(Holders(request, r)) /\ busy[r] = Cardinality(Holders(request, r))
    BY <1>1, <1>2 DEF LeaseInv
  <2> DEFINE H == Holders(request, r)
  <2> HIDE DEF r
  <2>2. /\ IsFiniteSet(Holders(request, r) \ {q})
        /\ Cardinality(Holders(request, r) \ {q}) = busy[r] - 1
    <3>1. IsFiniteSet(H) /\ q \in H /\ busy[r] = Cardinality(H)
      BY <1>2, <2>1
    <3> HIDE DEF H
    <3>2. IsFiniteSet(H \ {q}) /\ Cardinality(H \ {q}) = Cardinality(H) - 1
      BY <3>1, FS_RemoveElement
    <3> QED
      BY <3>1, <3>2 DEF H
  <2> QED
    BY <2>2, FS_CardinalityType
<1>4. /\ R \in [RequestIds -> Request] /\ R[q].st = "done"
      /\ \A p \in RequestIds \ {q} : R[p] = request[p]
  BY <1>1 DEF New, Request
<1>5. request' = Notified(R) /\ waiting' = waiting /\ now' = now /\ busy' = [busy EXCEPT ![r] = @ - 1]
  BY DEF Release
<1>6. /\ completed' \in [Servers -> Nat] /\ until' \in [Servers -> Nat]
  <2>1. CASE failed
    <3>1. until' = [until EXCEPT ![r] = now + Cooldown] /\ completed' = completed
      BY <2>1 DEF Release
    <3>2. now + Cooldown \in Nat
      BY <1>1, ReplicasAssumption
    <3> QED
      BY <1>1, <1>2, <3>1, <3>2
  <2>2. CASE ~ failed
    <3>1. completed' = [completed EXCEPT ![r] = @ + 1] /\ until' = until
      BY <2>2 DEF Release
    <3> QED
      BY <1>1, <1>2, <3>1
  <2> QED
    BY <2>1, <2>2
<1> HIDE DEF R
<1>7. /\ request' \in [RequestIds -> Request]
      /\ \A p \in RequestIds :
           /\ R[p].st = "asleep" => request'[p].st = "woken"
           /\ R[p].st # "asleep" => request'[p] = R[p]
  BY <1>4, <1>5 DEF Notified, Request
<1>8. /\ Sleepers(request') = Sleepers(request)
      /\ Holders(request', r) = Holders(request, r) \ {q}
      /\ \A s \in Servers \ {r} : Holders(request', s) = Holders(request, s)
      /\ \A p \in RequestIds : request'[p].st # "asleep"
      /\ \A p \in RequestIds : request'[p].st \in Holding => p # q /\ request'[p] = request[p]
  <2>1. ASSUME NEW p \in RequestIds
        PROVE  /\ p = q => request'[p].st = "done"
               /\ p # q /\ request[p].st = "asleep" => request'[p].st = "woken"
               /\ p # q /\ request[p].st # "asleep" => request'[p] = request[p]
    BY <1>4, <1>7
  <2>2. Sleepers(request') = Sleepers(request)
    BY <1>2, <2>1 DEF Sleepers, Holders, Holding
  <2>3. \A p \in RequestIds : request'[p].st \in Holding => p # q /\ request'[p] = request[p]
    BY <2>1 DEF Holding
  <2>4. \A p \in RequestIds : request[p].st \in Holding /\ p # q => request'[p] = request[p]
    BY <2>1 DEF Holding
  <2>5. \A p \in RequestIds : request'[p].st # "asleep"
    BY <2>1
  <2>6. Holders(request', r) = Holders(request, r) \ {q}
    BY <2>3, <2>4 DEF Holders
  <2>7. ASSUME NEW s \in Servers \ {r}
        PROVE  Holders(request', s) = Holders(request, s)
    BY <2>3, <2>4, <2>7 DEF Holders
  <2> QED
    BY <2>2, <2>3, <2>5, <2>6, <2>7
<1> HIDE DEF r
<1>9. ReplicasTypeOK'
  BY <1>1, <1>2, <1>3, <1>5, <1>6, <1>7 DEF ReplicasTypeOK
<1>10. LeaseInv'
  <2>1. ASSUME NEW s \in Servers
        PROVE  /\ IsFiniteSet(Holders(request', s)) /\ busy'[s] = Cardinality(Holders(request', s))
               /\ busy'[s] <= MaxConcurrency[s]
    <3>1. CASE s = r
      <4>1. busy'[r] = busy[r] - 1 /\ busy[r] <= MaxConcurrency[r] /\ MaxConcurrency[r] \in Nat
        BY <1>1, <1>2, <1>5, ReplicasAssumption DEF LeaseInv
      <4>2. busy[r] \in Nat
        BY <1>1, <1>2
      <4>3. /\ IsFiniteSet(Holders(request', r)) /\ busy'[r] = Cardinality(Holders(request', r))
            /\ busy'[r] <= MaxConcurrency[r]
        BY <1>3, <1>8, <4>1, <4>2
      <4> QED
        BY <3>1, <4>3
    <3>2. CASE s # r
      BY <1>1, <1>5, <1>8, <3>2 DEF LeaseInv
    <3> QED
      BY <3>1, <3>2
  <2>2. \A p \in RequestIds : request'[p].st \in Holding => request'[p].on \in Servers
    BY <1>1, <1>8 DEF LeaseInv
  <2> QED
    BY <2>1, <2>2 DEF LeaseInv
<1>11. WaitInv'
  BY <1>1, <1>5, <1>8 DEF WaitInv
<1>12. SleepInv'
  BY <1>8 DEF SleepInv, Those
<1> QED
  BY <1>9, <1>10, <1>11, <1>12 DEF ReplicaInv

(* The queue is full.                                                       *)
LEMMA RefusedKeeps ==
  ASSUME ReplicaInv, NEW q \in RequestIds, request[q].st = "new",
         request' = [request EXCEPT ![q] = [New EXCEPT !.st = "refused"]],
         UNCHANGED <<now, busy, completed, until, waiting>>
  PROVE  ReplicaInv'
<1> DEFINE new == [New EXCEPT !.st = "refused"]
<1>1. request \in [RequestIds -> Request] /\ ReplicasTypeOK /\ LeaseInv /\ WaitInv /\ SleepInv
  BY DEF ReplicaInv, ReplicasTypeOK
<1>2. new \in Request /\ new.st = "refused"
  BY DEF New, Request
<1> HIDE DEF new
<1>3. /\ request' \in [RequestIds -> Request] /\ request'[q].st = "refused"
      /\ \A p \in RequestIds \ {q} : request'[p] = request[p]
  BY <1>1, <1>2 DEF new
<1>4. /\ Sleepers(request') = Sleepers(request)
      /\ \A s \in Servers : Holders(request', s) = Holders(request, s)
  BY <1>3 DEF Sleepers, Holders, Holding
<1>5. ReplicasTypeOK'
  BY <1>1, <1>3 DEF ReplicasTypeOK
<1>6. LeaseInv'
  <2>1. \A p \in RequestIds : request'[p].st \in Holding => request'[p].on \in Servers
    BY <1>1, <1>3 DEF LeaseInv, Holding
  <2> QED
    BY <1>1, <1>4, <2>1 DEF LeaseInv
<1>7. WaitInv'
  BY <1>1, <1>4 DEF WaitInv
<1>8. SleepInv'
  <2>1. \A p \in Those("asleep")' : p \in Those("asleep") /\ request'[p] = request[p]
    BY <1>3 DEF Those
  <2> QED
    BY <1>1, <2>1 DEF SleepInv
<1> QED
  BY <1>5, <1>6, <1>7, <1>8 DEF ReplicaInv

(* A lease stays one.                                                       *)
LEMMA StreamKeeps ==
  ASSUME ReplicaInv, NEW q \in RequestIds, Opened(q) \/ Begun(q) \/ (Lost(q) /\ request[q].st \in Holding)
  PROVE  ReplicaInv'
<1>1. /\ request \in [RequestIds -> Request] /\ ReplicasTypeOK /\ LeaseInv /\ WaitInv /\ SleepInv
  BY DEF ReplicaInv, ReplicasTypeOK
<1>2. UNCHANGED <<now, busy, completed, until, waiting>> /\ request[q].st \in Holding
  BY DEF Opened, Begun, Lost, Those, Holding
<1>3. PICK st \in Holding, bad \in BOOLEAN : request' = [request EXCEPT ![q].st = st, ![q].bad = bad]
  <2>1. request[q].bad \in BOOLEAN
    BY <1>1 DEF Request
  <2>2. CASE Opened(q)
    BY <2>2 DEF Opened, Holding
  <2>3. CASE ~ Opened(q)
    <3>1. PICK st \in {"streaming", "lost"} : request' = [request EXCEPT ![q].st = st]
      BY <2>3 DEF Begun, Lost
    <3>2. request' = [request EXCEPT ![q].st = st, ![q].bad = request[q].bad]
      BY <1>1, <3>1 DEF Request
    <3> QED
      BY <2>1, <3>1, <3>2 DEF Holding
  <2> QED
    BY <2>2, <2>3
<1>4. /\ request' \in [RequestIds -> Request]
      /\ request'[q].st = st /\ request'[q].on = request[q].on
      /\ \A p \in RequestIds \ {q} : request'[p] = request[p]
  BY <1>1, <1>3 DEF Request, Holding
<1>5. /\ Sleepers(request') = Sleepers(request)
      /\ \A s \in Servers : Holders(request', s) = Holders(request, s)
  BY <1>2, <1>3, <1>4 DEF Sleepers, Holders, Holding
<1>6. ReplicasTypeOK'
  BY <1>1, <1>2, <1>4 DEF ReplicasTypeOK
<1>7. LeaseInv'
  <2>1. \A p \in RequestIds : request'[p].st \in Holding => request'[p].on \in Servers
    BY <1>1, <1>2, <1>4 DEF LeaseInv
  <2> QED
    BY <1>1, <1>2, <1>5, <2>1 DEF LeaseInv
<1>8. WaitInv'
  BY <1>1, <1>2, <1>5 DEF WaitInv
<1>9. SleepInv'
  <2>1. \A p \in Those("asleep")' : p \in Those("asleep") /\ request'[p] = request[p]
    BY <1>3, <1>4 DEF Those, Holding
  <2> QED
    BY <1>1, <1>2, <2>1 DEF SleepInv
<1> QED
  BY <1>6, <1>7, <1>8, <1>9 DEF ReplicaInv

LEMMA ReplicaInvHolds == QSpec => []ReplicaInv
<1>1. QInit => ReplicaInv
  <2> SUFFICES ASSUME QInit PROVE ReplicaInv
    OBVIOUS
  <2>1. /\ request \in [RequestIds -> Request] /\ \A q \in RequestIds : request[q].st = "new"
    BY NewIsRequest DEF QInit
  <2>2. Sleepers(request) = {} /\ \A r \in Servers : Holders(request, r) = {}
    BY <2>1 DEF Sleepers, Holders, Holding
  <2>3. ReplicasTypeOK
    BY <2>1, ReplicasAssumption DEF QInit, ReplicasTypeOK
  <2>4. LeaseInv
    <3>1. \A r \in Servers : busy[r] = 0 /\ busy[r] <= MaxConcurrency[r]
      BY ReplicasAssumption DEF QInit
    <3>2. IsFiniteSet({}) /\ Cardinality({}) = 0
      BY FS_EmptySet
    <3> QED
      BY <2>1, <2>2, <3>1, <3>2 DEF LeaseInv, Holding
  <2>5. WaitInv
    BY <2>2, FS_EmptySet DEF QInit, WaitInv
  <2>6. SleepInv
    BY <2>1 DEF SleepInv, Those
  <2> QED
    BY <2>3, <2>4, <2>5, <2>6 DEF ReplicaInv
<1>2. ReplicaInv /\ [QNext]_qvars => ReplicaInv'
  <2> SUFFICES ASSUME ReplicaInv, [QNext]_qvars
               PROVE  ReplicaInv'
    OBVIOUS
  <2>0. /\ request \in [RequestIds -> Request] /\ now \in Nat /\ waiting \in Nat
        /\ QueueTimeout \in Nat
    BY ReplicasAssumption DEF ReplicaInv, ReplicasTypeOK
  <2>1. ASSUME NEW q \in RequestIds, NEW m \in ModelsServed, Acquire(q, m)
        PROVE  ReplicaInv'
    <3>1. request[q].st = "new" /\ UNCHANGED <<now, completed, until>>
      BY <2>1 DEF Acquire, Those
    <3>2. CASE waiting < QueueSize /\ Look(q, m, now + QueueTimeout, waiting + 1)
      <4>1. now + QueueTimeout \in Nat /\ waiting + 1 \in Nat
        BY <2>0
      <4> QED
        BY <3>1, <3>2, <4>1, LookKeeps
    <3>3. CASE request' = [request EXCEPT ![q] = [New EXCEPT !.st = "refused"]] /\ UNCHANGED <<busy, waiting>>
      BY <2>0, <3>1, <3>3, RefusedKeeps
    <3> QED
      BY <2>1, <3>2, <3>3 DEF Acquire
  <2>2. ASSUME NEW q \in RequestIds, Resume(q)
        PROVE  ReplicaInv'
    <3>1. q \in Sleepers(request)
      BY <2>2 DEF Resume, Rousable, Those, Sleepers
    <3>2. request[q].model \in ModelsServed \cup {"none"} /\ request[q].deadline \in Nat
      BY <2>0 DEF Request
    <3>3. Look(q, request[q].model, request[q].deadline, waiting) /\ UNCHANGED <<now, completed, until>>
      BY <2>2 DEF Resume
    <3> QED
      BY <2>0, <3>1, <3>2, <3>3, LookKeeps
  <2>3. ASSUME NEW q \in RequestIds, Answered(q) \/ Ended(q) \/ Left(q)
        PROVE  ReplicaInv'
    <3>1. CASE \E failed \in BOOLEAN : Release(q, failed) /\ request[q].st \in {"leased", "streaming"}
      BY <3>1, ReleaseKeeps
    <3>2. CASE Lost(q) /\ request[q].st \in Holding
      BY <3>2, StreamKeeps
    <3>3. request[q].bad \in BOOLEAN
      BY <2>0 DEF Request
    <3> QED
      BY <2>3, <3>1, <3>2, <3>3 DEF Answered, Ended, Left, Those, Holding
  <2>4. ASSUME NEW q \in RequestIds, Opened(q) \/ Begun(q)
        PROVE  ReplicaInv'
    BY <2>4, StreamKeeps
  <2>5. CASE Tick \/ UNCHANGED qvars
    <3>1. UNCHANGED <<request, busy, completed, until, waiting>> /\ now' \in Nat
      BY <2>0, <2>5 DEF Tick, qvars
    <3> QED
      BY <3>1 DEF ReplicaInv, ReplicasTypeOK, LeaseInv, WaitInv, SleepInv, Those
  <2> QED
    BY <2>1, <2>2, <2>3, <2>4, <2>5 DEF QNext
<1> QED
  BY <1>1, <1>2, PTL DEF QSpec

(* The type of every variable of Replicas, whatever requests come.          *)
THEOREM ReplicaTypes == QSpec => []ReplicasTypeOK
<1>1. ReplicaInv => ReplicasTypeOK
  BY DEF ReplicaInv
<1> QED
  BY <1>1, ReplicaInvHolds, PTL

(* No replica has more requests than it takes, and leases and waiters are   *)
(* counted, each once (_acquire, release_runtime), for any replicas, limits *)
(* and requests.                                                            *)
THEOREM LeasesStayCounted == QSpec => []LeasesAreCounted
<1>1. ReplicaInv => LeasesAreCounted
  <2> SUFFICES ASSUME ReplicaInv PROVE LeasesAreCounted
    OBVIOUS
  <2>1. \A r \in Servers : Leases(r) = Holders(request, r)
    BY DEF Leases, Holders, Holding
  <2>2. Those("asleep") \cup Those("woken") = Sleepers(request)
    BY DEF Those, Sleepers
  <2>3. waiting <= QueueSize
    BY ReplicasAssumption DEF ReplicaInv, ReplicasTypeOK
  <2> QED
    BY <2>1, <2>2, <2>3 DEF ReplicaInv, LeaseInv, WaitInv, LeasesAreCounted
<1> QED
  BY <1>1, ReplicaInvHolds, PTL

(* Nobody sleeps past its deadline, or while a replica of its model is free *)
(* (_acquire's wait_seconds, release_runtime's notify_all).                 *)
THEOREM WaitersAreSeen == QSpec => []NobodyIsOverlooked
<1>1. ReplicaInv => NobodyIsOverlooked
  <2> SUFFICES ASSUME ReplicaInv, NEW q \in Those("asleep")
               PROVE  /\ request[q].wake > now => Candidates(request[q].model) = {}
                      /\ request[q].wake <= request[q].deadline
    BY DEF NobodyIsOverlooked
  <2>1. /\ now \in Nat /\ busy \in [Servers -> Nat] /\ until \in [Servers -> Nat]
        /\ request[q].wake \in Nat
    BY DEF ReplicaInv, ReplicasTypeOK, Those, Request
  <2>2. ASSUME request[q].wake > now, NEW r \in Candidates(request[q].model)
        PROVE  FALSE
    <3>1. /\ r \in Servers /\ request[q].model \in Serves[r] /\ until[r] <= now
          /\ busy[r] < MaxConcurrency[r]
      BY <2>2 DEF Candidates
    <3>2. busy[r] = MaxConcurrency[r] \/ request[q].wake <= until[r]
      BY <3>1 DEF ReplicaInv, SleepInv
    <3>3. busy[r] \in Nat /\ until[r] \in Nat
      BY <2>1, <3>1
    <3> QED
      BY <2>1, <2>2, <3>1, <3>2, <3>3
  <2> QED
    BY <2>2 DEF ReplicaInv, SleepInv
<1> QED
  BY <1>1, ReplicaInvHolds, PTL

-----------------------------------------------------------------------------
(* ModelCards.                                                              *)

(* What is in memory has a file, or is known not to have one, or is being   *)
(* removed.                                                                 *)
Backed(c, d, l, p) ==
  \A m \in Models : c[m] = "custom" /\ m \notin d => m \in l \/ (p.at = "forget" /\ p.model = m)

(* A card that pop cannot find.                                             *)
Stuck(c, d, l, m) == c[m] = "custom" => m \in l /\ m \notin d

(* How far an undisturbed pass has come.                                    *)
Progress(T, c, d, l, p) ==
  /\ p.at = "rest" =>
       /\ \A m \in T : c[m] = "custom"
       /\ \A m \in Models \ T : Stuck(c, d, l, m)
  /\ p.at # "rest" => p.target = T
  /\ p.at \in {"save", "write"} => \A m \in T \ p.left : c[m] = "custom"
  /\ p.at \in {"pop", "forget"} =>
       /\ T \cap p.left = {} /\ \A m \in T : c[m] = "custom"
       /\ \A m \in Models \ (T \cup p.left) : (p.at = "forget" /\ p.model = m) \/ Stuck(c, d, l, m)
  /\ p.at = "forget" => p.model \notin T

NodeInv(n) ==
  /\ Backed(cards[n], disk[n], loose[n], pass[n])
  /\ n \in quiet => Progress(Target(n), cards[n], disk[n], loose[n], pass[n])

CardInv == CardsTypeOK /\ \A n \in Followed : NodeInv(n)

LEMMA PassKinds ==
  /\ Rest.at = "rest"
  /\ \A p \in Pass : p.at \in {"save", "write", "pop", "forget"} /\ p # Rest
  /\ NoLoad.at = "none"
  /\ \A p \in Loading : p.at \in {"scan", "read"}
BY DEF Rest, Pass, NoLoad, Loading

LEMMA TargetIsModels == \A n : Target(n) \subseteq Models
BY DEF Target

(* What is appended to the log has not been applied.                        *)
LEMMA TargetStays ==
  ASSUME CardsTypeOK, NEW n \in Followed, applied'[n] = applied[n],
         \/ log' = log
         \/ \E e \in Event : log' = Append(log, e)
  PROVE  Target(n)' = Target(n)
<1>1. /\ applied[n] \in Nat /\ applied[n] <= Len(log) /\ log \in Seq(Event)
  BY DEF CardsTypeOK
<1>2. \A i \in 1 .. applied[n] : log'[i] = log[i]
  BY <1>1
<1>3. ASSUME NEW i \in 1 .. applied[n]
      PROVE  /\ log'[i] = log[i]
             /\ \A j \in i + 1 .. applied[n] : log'[j] = log[j]
  BY <1>1, <1>2
<1>4. \A m, i :
        i \in 1 .. applied[n] =>
          ((log'[i] = <<"add", m>> /\ \A j \in i + 1 .. applied[n] : log'[j][2] # m)
             <=> (log[i] = <<"add", m>> /\ \A j \in i + 1 .. applied[n] : log[j][2] # m))
  BY <1>3
<1> DEFINE a == applied[n]
           Added(f, m) == \E i \in 1 .. a : f[i] = <<"add", m>> /\ \A j \in i + 1 .. a : f[j][2] # m
<1>5. Target(n) = {m \in Models : Added(log, m)} /\ Target(n)' = {m \in Models : Added(log', m)}
  BY DEF Target
<1>6. \A m : Added(log', m) <=> Added(log, m)
  BY <1>4
<1> HIDE DEF Added
<1> QED
  BY <1>5, <1>6

(* A step of one node.                                                      *)
LEMMA OnlyNode ==
  ASSUME CardInv, NEW n \in Followed, CardsTypeOK',
         \A k \in Followed \ {n} :
           /\ cards'[k] = cards[k] /\ disk'[k] = disk[k] /\ loose'[k] = loose[k]
           /\ pass'[k] = pass[k] /\ applied'[k] = applied[k]
           /\ k \in quiet' => k \in quiet,
         log' = log,
         NodeInv(n)'
  PROVE  CardInv'
<1>1. ASSUME NEW k \in Followed, k # n
      PROVE  NodeInv(k)'
  <2>1. Target(k)' = Target(k)
    BY <1>1, TargetStays DEF CardInv
  <2> QED
    BY <1>1, <2>1 DEF CardInv, NodeInv
<1> QED
  BY <1>1 DEF CardInv

(* A step that changes neither caches nor files nor the loop.               *)
LEMMA NothingChanges ==
  ASSUME CardInv, CardsTypeOK', UNCHANGED <<cards, disk, loose, pass>>, quiet' \subseteq quiet,
         \A n \in quiet' : Target(n)' = Target(n)
  PROVE  CardInv'
<1>1. ASSUME NEW n \in Followed
      PROVE  NodeInv(n)'
  BY DEF CardInv, NodeInv
<1> QED
  BY <1>1 DEF CardInv

LEMMA Counted ==
  ASSUME CardsTypeOK, NEW what \in {"commands", "loads", "faults"}, Count(what),
         what = "commands" => counts.commands < MaxWishes,
         what = "loads" => counts.loads < MaxLoads,
         what = "faults" => counts.faults < MaxFaults
  PROVE  counts' \in [commands : 0 .. MaxWishes, loads : 0 .. MaxLoads, faults : 0 .. MaxFaults]
<1>1. counts \in [commands : 0 .. MaxWishes, loads : 0 .. MaxLoads, faults : 0 .. MaxFaults]
  BY DEF CardsTypeOK
<1>2. /\ counts' = [counts EXCEPT ![what] = counts[what] + 1]
      /\ MaxWishes \in Nat /\ MaxLoads \in Nat /\ MaxFaults \in Nat
  BY ModelCardsAssumption DEF Count
<1>3. CASE what = "commands"
  <2>1. counts.commands + 1 \in 0 .. MaxWishes
    BY <1>1, <1>2, <1>3
  <2>2. counts' = [counts EXCEPT !.commands = counts.commands + 1]
    BY <1>2, <1>3
  <2> QED
    BY <1>1, <2>1, <2>2
<1>4. CASE what = "loads"
  <2>1. counts.loads + 1 \in 0 .. MaxLoads
    BY <1>1, <1>2, <1>4
  <2>2. counts' = [counts EXCEPT !.loads = counts.loads + 1]
    BY <1>2, <1>4
  <2> QED
    BY <1>1, <2>1, <2>2
<1>5. CASE what = "faults"
  <2>1. counts.faults + 1 \in 0 .. MaxFaults
    BY <1>1, <1>2, <1>5
  <2>2. counts' = [counts EXCEPT !.faults = counts.faults + 1]
    BY <1>2, <1>5
  <2> QED
    BY <1>1, <2>1, <2>2
<1> QED
  BY <1>3, <1>4, <1>5

LEMMA CommandTypes ==
  ASSUME CardsTypeOK, NEW op \in {"add", "delete"}, NEW m \in Models
  PROVE  commands \cup {<<op, m, counts.commands>>} \in SUBSET ({"add", "delete"} \X Models \X Nat)
<1>1. counts.commands \in Nat
  <2>1. counts.commands \in 0 .. MaxWishes /\ MaxWishes \in Nat
    BY ModelCardsAssumption DEF CardsTypeOK
  <2> QED
    BY <2>1
<1>2. <<op, m, counts.commands>> \in {"add", "delete"} \X Models \X Nat
  BY <1>1
<1> QED
  BY <1>2 DEF CardsTypeOK

LEMMA CardAdded ==
  ASSUME CardInv, NEW n \in Followed, NEW m \in Models, AddCustomModel(n, m)
  PROVE  CardInv'
<1>1. CardsTypeOK'
  <2>1. commands' \in SUBSET ({"add", "delete"} \X Models \X Nat)
    BY CommandTypes DEF CardInv, AddCustomModel
  <2>2. counts' \in [commands : 0 .. MaxWishes, loads : 0 .. MaxLoads, faults : 0 .. MaxFaults]
    BY Counted DEF CardInv, AddCustomModel
  <2> QED
    BY <2>1, <2>2 DEF CardInv, CardsTypeOK, AddCustomModel, SetCard, Disturb
<1>2. NodeInv(n)'
  <2>1. /\ cards'[n] = [cards[n] EXCEPT ![m] = "custom"] /\ loose'[n] = loose[n] \cup {m}
        /\ cards[n] \in [Models -> {"none", "builtin", "custom"}]
        /\ disk'[n] = disk[n] /\ pass'[n] = pass[n] /\ n \notin quiet'
    BY DEF CardInv, CardsTypeOK, AddCustomModel, SetCard, Disturb
  <2>2. Backed(cards[n], disk[n], loose[n], pass[n])
    BY DEF CardInv, NodeInv
  <2> QED
    BY <2>1, <2>2 DEF NodeInv, Backed
<1> QED
  BY <1>1, <1>2, OnlyNode DEF AddCustomModel, SetCard, Disturb, CardInv, CardsTypeOK

LEMMA CommandSent ==
  ASSUME CardInv, NEW op \in {"add", "delete"}, NEW m \in Models, Count("commands"),
         counts.commands < MaxWishes, commands' = commands \cup {<<op, m, counts.commands>>},
         UNCHANGED <<log, applied, cards, disk, pass, load, quiet, loose>>
  PROVE  CardInv'
<1>1. CardsTypeOK'
  <2>1. commands' \in SUBSET ({"add", "delete"} \X Models \X Nat)
    BY CommandTypes DEF CardInv
  <2>2. counts' \in [commands : 0 .. MaxWishes, loads : 0 .. MaxLoads, faults : 0 .. MaxFaults]
    BY Counted DEF CardInv
  <2> QED
    BY <2>1, <2>2 DEF CardInv, CardsTypeOK
<1>2. \A n : Target(n)' = Target(n)
  BY DEF Target
<1> QED
  BY <1>1, <1>2, NothingChanges

LEMMA Indexed ==
  ASSUME CardInv, NEW c \in commands, Index(c)
  PROVE  CardInv'
<1>1. <<c[1], c[2]>> \in Event
  BY DEF CardInv, CardsTypeOK, Event
<1>2. log' \in Seq(Event) /\ Len(log') = Len(log) + 1
  BY <1>1 DEF CardInv, CardsTypeOK, Index
<1>3. CardsTypeOK'
  <2>1. Len(log) \in Nat
    BY DEF CardInv, CardsTypeOK
  <2>2. \A n \in Followed : applied'[n] <= Len(log')
    BY <1>2, <2>1 DEF CardInv, CardsTypeOK, Index
  <2> QED
    BY <1>2, <2>2 DEF CardInv, CardsTypeOK, Index
<1>4. \A n \in quiet' : Target(n)' = Target(n)
  BY <1>1, TargetStays DEF CardInv, CardsTypeOK, Index
<1> QED
  BY <1>3, <1>4, NothingChanges DEF Index

LEMMA CommandLost ==
  ASSUME CardInv, NEW c \in commands, LoseCommand(c)
  PROVE  CardInv'
<1>1. CardsTypeOK'
  <2>1. counts' \in [commands : 0 .. MaxWishes, loads : 0 .. MaxLoads, faults : 0 .. MaxFaults]
    BY Counted DEF CardInv, LoseCommand
  <2> QED
    BY <2>1 DEF CardInv, CardsTypeOK, LoseCommand
<1>2. \A n : Target(n)' = Target(n)
  BY DEF Target, LoseCommand
<1> QED
  BY <1>1, <1>2, NothingChanges DEF LoseCommand

LEMMA Applied ==
  ASSUME CardInv, NEW n \in Followed, Apply(n)
  PROVE  CardInv'
<1>1. CardsTypeOK'
  <2>1. applied[n] \in Nat /\ Len(log) \in Nat /\ applied[n] < Len(log)
    BY DEF CardInv, CardsTypeOK, Apply
  <2>2. applied[n] + 1 \in Nat /\ applied[n] + 1 <= Len(log)
    BY <2>1
  <2>3. /\ applied' \in [Followed -> Nat] /\ applied'[n] = applied[n] + 1
        /\ \A k \in Followed \ {n} : applied'[k] = applied[k]
    BY <2>2 DEF CardInv, CardsTypeOK, Apply
  <2>4. log' = log
    BY DEF Apply
  <2>5. \A k \in Followed : applied'[k] <= Len(log')
    BY <2>2, <2>3, <2>4 DEF CardInv, CardsTypeOK
  <2> QED
    BY <2>3, <2>5 DEF CardInv, CardsTypeOK, Apply, Disturb
<1>2. NodeInv(n)'
  BY DEF Apply, Disturb, CardInv, NodeInv
<1> QED
  BY <1>1, <1>2, OnlyNode DEF Apply, Disturb, CardInv, CardsTypeOK

LEMMA LoadStarted ==
  ASSUME CardInv, NEW n \in Followed, NEW m \in Models, StartLoad(n, m)
  PROVE  CardInv'
<1>1. KnowBuiltin(n) \in [Models -> {"none", "builtin", "custom"}]
  BY DEF CardInv, CardsTypeOK, KnowBuiltin
<1>2. [at |-> "scan", model |-> m, left |-> disk[n], file |-> m] \in Loading
  BY DEF CardInv, CardsTypeOK, Loading
<1>3. CardsTypeOK'
  <2>1. counts' \in [commands : 0 .. MaxWishes, loads : 0 .. MaxLoads, faults : 0 .. MaxFaults]
    BY Counted DEF CardInv, StartLoad
  <2> QED
    BY <1>1, <1>2, <2>1 DEF CardInv, CardsTypeOK, StartLoad, Disturb
<1>4. NodeInv(n)'
  <2>1. /\ cards'[n] = KnowBuiltin(n) /\ disk' = disk /\ loose' = loose /\ pass' = pass
        /\ n \notin quiet'
    BY DEF CardInv, CardsTypeOK, StartLoad, Disturb
  <2>2. \A k \in Models : cards'[n][k] = "custom" => cards[n][k] = "custom"
    BY <2>1 DEF KnowBuiltin
  <2> QED
    BY <2>1, <2>2 DEF CardInv, NodeInv, Backed
<1> QED
  BY <1>3, <1>4, OnlyNode DEF StartLoad, Disturb, CardInv, CardsTypeOK

LEMMA FileRead ==
  ASSUME CardInv, NEW n \in Followed, NEW m \in Models, ReadFile(n, m)
  PROVE  CardInv'
<1>1. load[n] \in Loading
  BY PassKinds DEF CardInv, CardsTypeOK, ReadFile
<1> DEFINE q == [load[n] EXCEPT !.at = IF m \in disk[n] THEN "read" ELSE "scan",
                                !.left = @ \ {m}, !.file = m]
<1>2. q \in Loading
  BY <1>1 DEF Loading
<1>3. load' = [load EXCEPT ![n] = q]
  BY DEF ReadFile
<1> HIDE DEF q
<1>4. CardsTypeOK'
  BY <1>2, <1>3 DEF CardInv, CardsTypeOK, ReadFile, Disturb
<1>5. NodeInv(n)'
  BY DEF ReadFile, Disturb, CardInv, NodeInv
<1> QED
  BY <1>4, <1>5, OnlyNode DEF ReadFile, Disturb, CardInv, CardsTypeOK

LEMMA FileKept ==
  ASSUME CardInv, NEW n \in Followed, KeepFile(n)
  PROVE  CardInv'
<1> DEFINE m == load[n].file
<1>1. load[n] \in Loading /\ m \in Models
  BY PassKinds DEF CardInv, CardsTypeOK, KeepFile, Loading
<1>2. load'[n] \in Loading /\ \A k \in Followed \ {n} : load'[k] = load[k]
  BY <1>1 DEF CardInv, CardsTypeOK, KeepFile, Loading
<1>3. CASE cards[n][m] # "none"
  <2>1. UNCHANGED <<cards, loose>>
    BY <1>3 DEF KeepFile
  <2>2. CardsTypeOK'
    BY <1>2, <2>1 DEF CardInv, CardsTypeOK, KeepFile, Disturb
  <2>3. NodeInv(n)'
    BY <2>1 DEF KeepFile, Disturb, CardInv, NodeInv
  <2> QED
    BY <2>1, <2>2, <2>3, OnlyNode DEF KeepFile, Disturb, CardInv, CardsTypeOK
<1>4. CASE cards[n][m] = "none"
  <2>1. /\ SetCard(n, m, "custom")
        /\ loose' = [loose EXCEPT ![n] = IF m \in disk[n] THEN @ ELSE @ \cup {m}]
    BY <1>4 DEF KeepFile
  <2>2. CardsTypeOK'
    BY <1>1, <1>2, <2>1 DEF CardInv, CardsTypeOK, KeepFile, Disturb, SetCard
  <2>3. NodeInv(n)'
    <3>1. /\ cards'[n] = [cards[n] EXCEPT ![m] = "custom"]
          /\ loose'[n] = IF m \in disk[n] THEN loose[n] ELSE loose[n] \cup {m}
          /\ cards[n] \in [Models -> {"none", "builtin", "custom"}]
          /\ disk'[n] = disk[n] /\ pass'[n] = pass[n] /\ n \notin quiet'
      BY <2>1 DEF CardInv, CardsTypeOK, KeepFile, SetCard, Disturb
    <3>2. Backed(cards[n], disk[n], loose[n], pass[n])
      BY DEF CardInv, NodeInv
    <3> QED
      BY <3>1, <3>2 DEF NodeInv, Backed
  <2> QED
    BY <2>1, <2>2, <2>3, OnlyNode DEF KeepFile, Disturb, SetCard, CardInv, CardsTypeOK
<1> QED
  BY <1>3, <1>4

LEMMA LoadEnded ==
  ASSUME CardInv, NEW n \in Followed, EndLoad(n)
  PROVE  CardInv'
<1>1. load[n] \in Loading /\ load[n].model \in Models
  BY PassKinds DEF CardInv, CardsTypeOK, EndLoad, Loading
<1>2. /\ disk' \in [Followed -> SUBSET Models] /\ disk[n] \subseteq disk'[n]
      /\ \A k \in Followed \ {n} : disk'[k] = disk[k]
  BY <1>1 DEF CardInv, CardsTypeOK, EndLoad
<1>3. CardsTypeOK'
  BY <1>2 DEF CardInv, CardsTypeOK, EndLoad, Disturb
<1>4. NodeInv(n)'
  BY <1>2 DEF EndLoad, Disturb, CardInv, NodeInv, Backed
<1> QED
  BY <1>2, <1>3, <1>4, OnlyNode DEF EndLoad, Disturb, CardInv, CardsTypeOK

LEMMA PassStarted ==
  ASSUME CardInv, NEW n \in Followed, StartPass(n)
  PROVE  CardInv'
<1> DEFINE p == [at |-> "save", target |-> Target(n), left |-> Target(n), model |-> "none"]
<1>1. p \in Pass
  BY TargetIsModels DEF Pass
<1>2. CardsTypeOK'
  BY <1>1 DEF CardInv, CardsTypeOK, StartPass
<1>3. Target(n)' = Target(n)
  BY DEF StartPass, Target
<1>4. NodeInv(n)'
  <2>1. pass'[n] = p /\ UNCHANGED <<cards, disk, loose>>
    BY DEF CardInv, CardsTypeOK, StartPass
  <2>2. Backed(cards[n], disk[n], loose[n], pass[n]) /\ pass[n].at = "rest"
    BY DEF CardInv, NodeInv, StartPass, Rest
  <2>3. Backed(cards[n], disk[n], loose[n], p)
    BY <2>2 DEF Backed
  <2>4. Progress(Target(n), cards[n], disk[n], loose[n], p)
    BY DEF Progress
  <2> QED
    BY <1>3, <2>1, <2>3, <2>4 DEF NodeInv
<1> QED
  BY <1>2, <1>4, OnlyNode DEF StartPass, CardInv, CardsTypeOK

(* Where the loop is, and what a step within a pass changes.                *)
LEMMA InPass ==
  ASSUME CardInv, NEW n \in Followed, NEW at, PassAt(n, at)
  PROVE  /\ pass[n] \in Pass /\ pass[n].at = at /\ at # "rest"
         /\ Target(n) \subseteq Models
         /\ cards[n] \in [Models -> {"none", "builtin", "custom"}]
         /\ disk[n] \subseteq Models /\ loose[n] \subseteq Models
         /\ Backed(cards[n], disk[n], loose[n], pass[n])
         /\ n \in quiet => Progress(Target(n), cards[n], disk[n], loose[n], pass[n])
BY PassKinds, TargetIsModels DEF CardInv, CardsTypeOK, NodeInv, PassAt

LEMMA PassStep ==
  ASSUME CardInv, NEW n \in Followed,
         NEW c \in [Models -> {"none", "builtin", "custom"}], NEW d \in SUBSET Models,
         NEW l \in SUBSET Models, NEW p \in Pass \cup {Rest},
         cards' = [cards EXCEPT ![n] = c], disk' = [disk EXCEPT ![n] = d],
         loose' = [loose EXCEPT ![n] = l], pass' = [pass EXCEPT ![n] = p],
         UNCHANGED <<commands, log, applied, load, quiet>>,
         counts' \in [commands : 0 .. MaxWishes, loads : 0 .. MaxLoads, faults : 0 .. MaxFaults],
         Backed(c, d, l, p), n \in quiet => Progress(Target(n), c, d, l, p)
  PROVE  CardInv'
<1>1. CardsTypeOK'
  BY DEF CardInv, CardsTypeOK
<1>2. Target(n)' = Target(n)
  BY DEF Target
<1>3. cards'[n] = c /\ disk'[n] = d /\ loose'[n] = l /\ pass'[n] = p
  BY DEF CardInv, CardsTypeOK
<1>4. NodeInv(n)'
  BY <1>2, <1>3 DEF NodeInv
<1> QED
  BY <1>1, <1>4, OnlyNode DEF CardInv, CardsTypeOK

(* A part of the state of a node that stays is its own update.              *)
LEMMA Stays ==
  ASSUME CardInv, NEW n \in Followed
  PROVE  /\ cards = [cards EXCEPT ![n] = cards[n]] /\ disk = [disk EXCEPT ![n] = disk[n]]
         /\ loose = [loose EXCEPT ![n] = loose[n]] /\ pass = [pass EXCEPT ![n] = pass[n]]
BY DEF CardInv, CardsTypeOK

LEMMA CardSaved ==
  ASSUME CardInv, NEW n \in Followed, NEW m \in Models, SaveCard(n, m)
  PROVE  CardInv'
<1>1. PassAt(n, "save") /\ m \in pass[n].left
  BY DEF SaveCard
<1>2. counts' \in [commands : 0 .. MaxWishes, loads : 0 .. MaxLoads, faults : 0 .. MaxFaults]
  BY DEF CardInv, CardsTypeOK, SaveCard
<1>3. CASE cards[n][m] = "custom"
  <2> DEFINE p == [pass[n] EXCEPT !.left = @ \ {m}]
  <2>1. p \in Pass /\ p.at = "save" /\ p.target = pass[n].target /\ p.left = pass[n].left \ {m}
    BY <1>1, InPass DEF Pass
  <2>2. pass' = [pass EXCEPT ![n] = p] /\ UNCHANGED <<cards, loose, disk>>
    BY <1>3 DEF SaveCard
  <2>3. Backed(cards[n], disk[n], loose[n], p)
    BY <1>1, InPass, <2>1 DEF Backed
  <2>4. n \in quiet => Progress(Target(n), cards[n], disk[n], loose[n], p)
    BY <1>1, <1>3, InPass, <2>1 DEF Progress
  <2> HIDE DEF p
  <2>5. /\ cards' = [cards EXCEPT ![n] = cards[n]] /\ disk' = [disk EXCEPT ![n] = disk[n]]
        /\ loose' = [loose EXCEPT ![n] = loose[n]]
    BY <2>2, Stays
  <2>6. UNCHANGED <<commands, log, applied, load, quiet>>
    BY DEF SaveCard
  <2> QED
    BY <1>1, <1>2, InPass, <2>1, <2>2, <2>3, <2>4, <2>5, <2>6, PassStep
<1>4. CASE cards[n][m] # "custom"
  <2> DEFINE p == [pass[n] EXCEPT !.at = "write", !.left = @ \ {m}, !.model = m]
             c == [cards[n] EXCEPT ![m] = "custom"]
             l == loose[n] \cup {m}
  <2>1. /\ p \in Pass /\ p.at = "write" /\ p.target = pass[n].target
        /\ p.left = pass[n].left \ {m} /\ p.model = m
    BY <1>1, InPass DEF Pass
  <2>2. /\ pass' = [pass EXCEPT ![n] = p] /\ SetCard(n, m, "custom")
        /\ loose' = [loose EXCEPT ![n] = l] /\ UNCHANGED disk
    BY <1>4 DEF SaveCard
  <2>3. c \in [Models -> {"none", "builtin", "custom"}] /\ l \in SUBSET Models
    BY <1>1, InPass
  <2>4. Backed(c, disk[n], l, p)
    BY <1>1, InPass, <2>1 DEF Backed
  <2>5. n \in quiet => Progress(Target(n), c, disk[n], l, p)
    BY <1>1, InPass, <2>1 DEF Progress
  <2>6. cards' = [cards EXCEPT ![n] = c] /\ disk' = [disk EXCEPT ![n] = disk[n]]
    BY <2>2, Stays DEF SetCard
  <2>7. UNCHANGED <<commands, log, applied, load, quiet>>
    BY DEF SaveCard
  <2> HIDE DEF p, c, l
  <2> QED
    BY <1>1, <1>2, InPass, <2>1, <2>2, <2>3, <2>4, <2>5, <2>6, <2>7, PassStep
<1> QED
  BY <1>3, <1>4

LEMMA FileWritten ==
  ASSUME CardInv, NEW n \in Followed, WriteFile(n)
  PROVE  CardInv'
<1> DEFINE m == pass[n].model
           p == [pass[n] EXCEPT !.at = "save"]
<1>1. PassAt(n, "write")
  BY DEF WriteFile
<1>2. m \in Models
  BY <1>1, InPass DEF Pass
<1>3. /\ p \in Pass /\ p.at = "save" /\ p.target = pass[n].target /\ p.left = pass[n].left
  BY <1>1, InPass DEF Pass
<1>4. /\ pass' = [pass EXCEPT ![n] = p] /\ UNCHANGED <<commands, log, applied, cards, load, quiet>>
  BY DEF WriteFile
<1>5. n \in quiet => \A d, l : Progress(Target(n), cards[n], d, l, p)
  BY <1>1, InPass, <1>3 DEF Progress
<1>6. cards' = [cards EXCEPT ![n] = cards[n]]
  BY <1>4, Stays
<1>7. CASE /\ disk' = [disk EXCEPT ![n] = @ \cup {m}]
           /\ loose' = [loose EXCEPT ![n] = @ \ {m}]
           /\ UNCHANGED counts
  <2>1. Backed(cards[n], disk[n] \cup {m}, loose[n] \ {m}, p)
    BY <1>1, InPass, <1>3 DEF Backed
  <2>2. counts' \in [commands : 0 .. MaxWishes, loads : 0 .. MaxLoads, faults : 0 .. MaxFaults]
    BY <1>7 DEF CardInv, CardsTypeOK
  <2>3. disk[n] \cup {m} \in SUBSET Models /\ loose[n] \ {m} \in SUBSET Models
    BY <1>1, <1>2, InPass
  <2> HIDE DEF m, p
  <2> QED
    BY <1>1, InPass, <1>3, <1>4, <1>5, <1>6, <1>7, <2>1, <2>2, <2>3, PassStep
<1>8. CASE counts.faults < MaxFaults /\ Count("faults") /\ UNCHANGED <<disk, loose>>
  <2>1. Backed(cards[n], disk[n], loose[n], p)
    BY <1>1, InPass, <1>3 DEF Backed
  <2>2. counts' \in [commands : 0 .. MaxWishes, loads : 0 .. MaxLoads, faults : 0 .. MaxFaults]
    BY <1>8, Counted DEF CardInv
  <2>3. disk' = [disk EXCEPT ![n] = disk[n]] /\ loose' = [loose EXCEPT ![n] = loose[n]]
    BY <1>8, Stays
  <2> HIDE DEF p
  <2> QED
    BY <1>1, InPass, <1>3, <1>4, <1>5, <1>6, <2>1, <2>2, <2>3, PassStep
<1> QED
  BY <1>7, <1>8 DEF WriteFile

LEMMA AllListed ==
  ASSUME CardInv, NEW n \in Followed, ListAll(n)
  PROVE  CardInv'
<1> DEFINE T == pass[n].target
           all == IF \A m \in Models : cards[n][m] = "none"
                  THEN [m \in Models |-> IF m \in Builtin THEN "builtin"
                                         ELSE IF m \in disk[n] THEN "custom" ELSE "none"]
                  ELSE cards[n]
           p == [at |-> "pop", target |-> T, left |-> {m \in Models : all[m] # "none"} \ T,
                 model |-> "none"]
<1>1. PassAt(n, "save") /\ pass[n].left = {}
  BY DEF ListAll
<1>2. all \in [Models -> {"none", "builtin", "custom"}]
  BY <1>1, InPass
<1>3. p \in Pass
  BY <1>1, InPass DEF Pass
<1>4. cards' = [cards EXCEPT ![n] = all] /\ pass' = [pass EXCEPT ![n] = p]
  BY DEF ListAll
<1>5. Backed(all, disk[n], loose[n], p)
  BY <1>1, InPass DEF Backed
<1>6. ASSUME n \in quiet
      PROVE  Progress(Target(n), all, disk[n], loose[n], p)
  <2>1. T = Target(n) /\ \A m \in T : cards[n][m] = "custom"
    BY <1>1, <1>6, InPass DEF Progress
  <2>2. T \subseteq Models
    BY <2>1, TargetIsModels
  <2>3. \A m \in T : all[m] = "custom"
    BY <2>1, <2>2
  <2>4. \A m \in Models \ (T \cup p.left) : all[m] = "none"
    OBVIOUS
  <2>5. T \cap p.left = {} /\ p.at = "pop" /\ p.target = T
    OBVIOUS
  <2> HIDE DEF all, p
  <2> QED
    BY <2>1, <2>3, <2>4, <2>5 DEF Progress, Stuck
<1>7. /\ disk' = [disk EXCEPT ![n] = disk[n]] /\ loose' = [loose EXCEPT ![n] = loose[n]]
      /\ UNCHANGED <<commands, log, applied, load, quiet>>
  BY Stays DEF ListAll
<1>8. counts' \in [commands : 0 .. MaxWishes, loads : 0 .. MaxLoads, faults : 0 .. MaxFaults]
  BY DEF CardInv, CardsTypeOK, ListAll
<1> HIDE DEF all, p
<1> QED
  BY <1>1, InPass, <1>2, <1>3, <1>4, <1>5, <1>6, <1>7, <1>8, PassStep

LEMMA FilePopped ==
  ASSUME CardInv, NEW n \in Followed, NEW m \in Models, Pop(n, m)
  PROVE  CardInv'
<1> DEFINE p == [pass[n] EXCEPT !.at = IF m \in disk[n] THEN "forget" ELSE "pop",
                                !.left = @ \ {m}, !.model = m]
           d == disk[n] \ {m}
<1>1. PassAt(n, "pop") /\ m \in pass[n].left
  BY DEF Pop
<1>2. /\ p \in Pass /\ p.target = pass[n].target /\ p.left = pass[n].left \ {m} /\ p.model = m
      /\ p.at = IF m \in disk[n] THEN "forget" ELSE "pop"
  BY <1>1, InPass DEF Pass
<1>3. d \in SUBSET Models
  BY <1>1, InPass
<1>4. Backed(cards[n], d, loose[n], p)
  BY <1>1, InPass, <1>2 DEF Backed
<1>5. ASSUME n \in quiet
      PROVE  Progress(Target(n), cards[n], d, loose[n], p)
  <2>1. /\ Target(n) = pass[n].target /\ Target(n) \cap pass[n].left = {}
        /\ \A k \in Target(n) : cards[n][k] = "custom"
        /\ \A k \in Models \ (Target(n) \cup pass[n].left) : Stuck(cards[n], disk[n], loose[n], k)
    BY <1>1, <1>5, InPass DEF Progress
  <2>2. \A k \in Models \ (Target(n) \cup p.left) :
          (p.at = "forget" /\ p.model = k) \/ Stuck(cards[n], d, loose[n], k)
    BY <1>1, <1>2, <2>1, InPass DEF Stuck, Backed
  <2>3. m \notin Target(n)
    BY <1>1, <2>1
  <2> HIDE DEF p, d
  <2> QED
    BY <1>2, <2>1, <2>2, <2>3 DEF Progress
<1>6. /\ pass' = [pass EXCEPT ![n] = p] /\ disk' = [disk EXCEPT ![n] = d]
      /\ cards' = [cards EXCEPT ![n] = cards[n]] /\ loose' = [loose EXCEPT ![n] = loose[n]]
      /\ UNCHANGED <<commands, log, applied, load, quiet>>
  BY Stays DEF Pop
<1>7. counts' \in [commands : 0 .. MaxWishes, loads : 0 .. MaxLoads, faults : 0 .. MaxFaults]
  BY DEF CardInv, CardsTypeOK, Pop
<1> HIDE DEF p, d
<1> QED
  BY <1>1, InPass, <1>2, <1>3, <1>4, <1>5, <1>6, <1>7, PassStep

LEMMA CardForgotten ==
  ASSUME CardInv, NEW n \in Followed, Forget(n)
  PROVE  CardInv'
<1> DEFINE m == pass[n].model
           p == [pass[n] EXCEPT !.at = "pop"]
           c == [cards[n] EXCEPT ![m] = "none"]
           l == loose[n] \ {m}
<1>1. PassAt(n, "forget")
  BY DEF Forget
<1>2. /\ p \in Pass /\ p.at = "pop" /\ p.target = pass[n].target /\ p.left = pass[n].left
  BY <1>1, InPass DEF Pass
<1>3. /\ c \in [Models -> {"none", "builtin", "custom"}] /\ l \in SUBSET Models
      /\ \A k \in Models \ {m} : c[k] = cards[n][k]
      /\ m \in Models => c[m] = "none"
  BY <1>1, InPass
<1>4. Backed(c, disk[n], l, p)
  BY <1>1, InPass, <1>2, <1>3 DEF Backed
<1>5. ASSUME n \in quiet
      PROVE  Progress(Target(n), c, disk[n], l, p)
  <2>1. /\ Target(n) = pass[n].target /\ Target(n) \cap pass[n].left = {}
        /\ \A k \in Target(n) : cards[n][k] = "custom"
        /\ m \notin Target(n)
        /\ \A k \in Models \ (Target(n) \cup pass[n].left) :
             m = k \/ Stuck(cards[n], disk[n], loose[n], k)
    BY <1>1, <1>5, InPass DEF Progress
  <2>2. \A k \in Models \ (Target(n) \cup p.left) : Stuck(c, disk[n], l, k)
    BY <1>2, <1>3, <2>1 DEF Stuck
  <2>3. \A k \in Target(n) : c[k] = "custom"
    BY <1>3, <2>1, TargetIsModels
  <2> HIDE DEF p, c, l
  <2> QED
    BY <1>2, <2>1, <2>2, <2>3 DEF Progress
<1>6. /\ pass' = [pass EXCEPT ![n] = p] /\ cards' = [cards EXCEPT ![n] = c]
      /\ loose' = [loose EXCEPT ![n] = l] /\ disk' = [disk EXCEPT ![n] = disk[n]]
      /\ UNCHANGED <<commands, log, applied, load, quiet>>
  BY Stays DEF Forget, Forgotten
<1>7. counts' \in [commands : 0 .. MaxWishes, loads : 0 .. MaxLoads, faults : 0 .. MaxFaults]
  BY DEF CardInv, CardsTypeOK, Forget
<1> HIDE DEF m, p, c, l
<1> QED
  BY <1>1, InPass, <1>2, <1>3, <1>4, <1>5, <1>6, <1>7, PassStep

LEMMA PassEnded ==
  ASSUME CardInv, NEW n \in Followed, EndPass(n)
  PROVE  CardInv'
<1>1. PassAt(n, "pop") /\ pass[n].left = {}
  BY DEF EndPass
<1>2. Rest.at = "rest"
  BY DEF Rest
<1>3. Backed(cards[n], disk[n], loose[n], Rest)
  BY <1>1, InPass DEF Backed
<1>4. n \in quiet => Progress(Target(n), cards[n], disk[n], loose[n], Rest)
  BY <1>1, <1>2, InPass DEF Progress
<1>5. /\ pass' = [pass EXCEPT ![n] = Rest] /\ cards' = [cards EXCEPT ![n] = cards[n]]
      /\ loose' = [loose EXCEPT ![n] = loose[n]] /\ disk' = [disk EXCEPT ![n] = disk[n]]
      /\ UNCHANGED <<commands, log, applied, load, quiet>>
  BY Stays DEF EndPass
<1>6. counts' \in [commands : 0 .. MaxWishes, loads : 0 .. MaxLoads, faults : 0 .. MaxFaults]
  BY DEF CardInv, CardsTypeOK, EndPass
<1> QED
  BY <1>1, InPass, <1>3, <1>4, <1>5, <1>6, PassStep

LEMMA Elected ==
  ASSUME CardInv, Elect
  PROVE  CardInv'
<1>1. CardsTypeOK'
  <2>1. counts' \in [commands : 0 .. MaxWishes, loads : 0 .. MaxLoads, faults : 0 .. MaxFaults]
    BY Counted DEF CardInv, Elect
  <2>2. log' \in Seq(Event) /\ Len(log') = 0
    BY DEF Elect
  <2> QED
    BY <2>1, <2>2 DEF CardInv, CardsTypeOK, Elect
<1>2. ASSUME NEW n \in Followed
      PROVE  NodeInv(n)'
  <2>1. n \notin quiet' /\ pass'[n] = Rest /\ UNCHANGED <<cards, disk, loose>>
    BY DEF Elect
  <2>2. pass[n].at # "forget"
    BY DEF Elect, PassAt, Rest
  <2> QED
    BY <2>1, <2>2 DEF CardInv, NodeInv, Backed
<1> QED
  BY <1>1, <1>2 DEF CardInv

LEMMA NodeRestarted ==
  ASSUME CardInv, NEW n \in Followed, Restart(n)
  PROVE  CardInv'
<1>1. CardsTypeOK'
  <2>1. counts' \in [commands : 0 .. MaxWishes, loads : 0 .. MaxLoads, faults : 0 .. MaxFaults]
    BY Counted DEF CardInv, Restart
  <2>2. applied' \in [Followed -> Nat] /\ \A k \in Followed : applied'[k] <= Len(log')
    BY DEF CardInv, CardsTypeOK, Restart
  <2>3. /\ cards' \in [Followed -> [Models -> {"none", "builtin", "custom"}]]
        /\ loose' \in [Followed -> SUBSET Models]
    BY DEF CardInv, CardsTypeOK, Restart
  <2> QED
    BY <2>1, <2>2, <2>3 DEF CardInv, CardsTypeOK, Restart, Disturb
<1>2. NodeInv(n)'
  <2>1. cards'[n] = [m \in Models |-> "none"] /\ n \notin quiet'
    BY DEF CardInv, CardsTypeOK, Restart, Disturb
  <2> QED
    BY <2>1 DEF NodeInv, Backed
<1> QED
  BY <1>1, <1>2, OnlyNode DEF Restart, Disturb, CardInv, CardsTypeOK

LEMMA CardsInit == MInit => CardInv
<1> SUFFICES ASSUME MInit
             PROVE  CardInv
  OBVIOUS
<1>1. /\ log \in Seq(Event) /\ Len(log) = 0 /\ 0 \in 0 .. MaxWishes /\ 0 \in 0 .. MaxLoads
      /\ 0 \in 0 .. MaxFaults
  BY ModelCardsAssumption DEF MInit
<1>2. CardsTypeOK
  BY <1>1 DEF MInit, CardsTypeOK
<1>3. \A n \in Followed : NodeInv(n)
  BY DEF MInit, NodeInv, Backed
<1> QED
  BY <1>2, <1>3 DEF CardInv

LEMMA CardsStep == CardInv /\ [MNext]_mvars => CardInv'
<1> SUFFICES ASSUME CardInv, [MNext]_mvars
             PROVE  CardInv'
  OBVIOUS
<1>1. ASSUME NEW n \in Followed, NEW m \in Models,
             \/ AddCustomModel(n, m) \/ DeleteCustomModel(n, m) \/ StartLoad(n, m)
             \/ ReadFile(n, m) \/ SaveCard(n, m) \/ Pop(n, m)
      PROVE  CardInv'
  <2>1. CASE DeleteCustomModel(n, m)
    BY <2>1, CommandSent DEF DeleteCustomModel
  <2> QED
    BY <1>1, <2>1, CardAdded, LoadStarted, FileRead, CardSaved, FilePopped
<1>2. ASSUME NEW m \in Models, NEW op \in {"add", "delete"}, Elsewhere(op, m)
      PROVE  CardInv'
  BY <1>2, CommandSent DEF Elsewhere
<1>3. ASSUME NEW n \in Followed,
             \/ Apply(n) \/ KeepFile(n) \/ EndLoad(n) \/ StartPass(n) \/ WriteFile(n)
             \/ ListAll(n) \/ Forget(n) \/ EndPass(n) \/ Restart(n)
      PROVE  CardInv'
  BY <1>3, Applied, FileKept, LoadEnded, PassStarted, FileWritten, AllListed, CardForgotten,
     PassEnded, NodeRestarted
<1>4. ASSUME NEW c \in commands, Index(c) \/ LoseCommand(c)
      PROVE  CardInv'
  BY <1>4, Indexed, CommandLost
<1>5. CASE UNCHANGED mvars
  <2>1. CardsTypeOK'
    BY <1>5 DEF mvars, CardInv, CardsTypeOK
  <2>2. \A n : Target(n)' = Target(n)
    BY <1>5 DEF mvars, Target
  <2> QED
    BY <1>5, <2>1, <2>2, NothingChanges DEF mvars
<1> QED
  BY <1>1, <1>2, <1>3, <1>4, <1>5, Elected DEF MNext

(* Everything about cards keeps its type, and a loop only writes and        *)
(* forgets models (ModelCards).                                             *)
THEOREM CardTypes == MSpec => []CardsTypeOK
<1>1. CardInv => CardsTypeOK
  BY DEF CardInv
<1> QED
  BY <1>1, CardsInit, CardsStep, PTL DEF MSpec

(* _reconcile_custom_cards: after a pass that nothing disturbed, the cache  *)
(* of a node has the custom models of its State, and of others only those   *)
(* that pop cannot find.                                                    *)
THEOREM CardsAreReconciled == MSpec => []CardsReconciled
<1>1. CardInv => CardsReconciled
  BY DEF CardInv, NodeInv, Progress, Stuck, CardsReconciled, Rest
<1> QED
  BY <1>1, CardsInit, CardsStep, PTL DEF MSpec

-----------------------------------------------------------------------------
(* Discovery.                                                               *)

(* What the first k items of a queue tell Python of a peer.                 *)
Waits(s, k, what, p) == {i \in 1 .. k : s[i][1] = what /\ s[i][2][1] = p}

Net(s, k, p) == Cardinality(Waits(s, k, "established", p)) - Cardinality(Waits(s, k, "closed", p))

By(e, p) ==
  IF e[1] = "established" /\ e[2][1] = p THEN 1
  ELSE IF e[1] = "closed" /\ e[2][1] = p THEN -1 ELSE 0

(* t begins like s; and like s without its first item.                      *)
Alike(s, t, k) == \A i \in 1 .. k : s[i] = t[i]

Shifted(s, t, k) == \A i \in 1 .. k : t[i] = s[i + 1]

LEMMA WaitsAreFinite ==
  ASSUME NEW s, NEW k \in Nat, NEW what, NEW p
  PROVE  IsFiniteSet(Waits(s, k, what, p)) /\ Cardinality(Waits(s, k, what, p)) \in Nat
<1>1. IsFiniteSet(1 .. k)
  BY FS_Interval
<1>2. Waits(s, k, what, p) \in SUBSET (1 .. k)
  BY DEF Waits
<1>3. IsFiniteSet(Waits(s, k, what, p))
  BY <1>1, <1>2, FS_Subset
<1> QED
  BY <1>3, FS_CardinalityType

LEMMA NetIsInt ==
  ASSUME NEW s, NEW k \in Nat, NEW p
  PROVE  Net(s, k, p) \in Int
BY WaitsAreFinite DEF Net

LEMMA NetOfNone ==
  ASSUME NEW s, NEW p
  PROVE  Net(s, 0, p) = 0
<1>1. \A what : Waits(s, 0, what, p) = {}
  BY DEF Waits
<1>2. Cardinality({}) = 0
  BY FS_EmptySet
<1> QED
  BY <1>1, <1>2 DEF Net

LEMMA NetIsLocal ==
  ASSUME NEW s, NEW t, NEW k \in Nat, NEW p, Alike(s, t, k)
  PROVE  Net(s, k, p) = Net(t, k, p)
<1>1. \A what : Waits(s, k, what, p) = Waits(t, k, what, p)
  BY DEF Waits, Alike
<1> QED
  BY <1>1 DEF Net

LEMMA NetOfQuiet ==
  ASSUME NEW s, NEW m \in Nat, NEW k \in Nat, m <= k, NEW p,
         \A i \in m + 1 .. k : s[i][1] \notin {"established", "closed"}
  PROVE  Net(s, k, p) = Net(s, m, p)
<1>1. \A what \in {"established", "closed"} : Waits(s, k, what, p) = Waits(s, m, what, p)
  BY DEF Waits
<1> QED
  BY <1>1 DEF Net

LEMMA CountOfNext ==
  ASSUME NEW s, NEW k \in Nat, NEW what, NEW p
  PROVE  Cardinality(Waits(s, k + 1, what, p)) =
           Cardinality(Waits(s, k, what, p))
             + (IF s[k + 1][1] = what /\ s[k + 1][2][1] = p THEN 1 ELSE 0)
<1>1. IsFiniteSet(Waits(s, k, what, p)) /\ Cardinality(Waits(s, k, what, p)) \in Nat
  BY WaitsAreFinite
<1>2. k + 1 \notin Waits(s, k, what, p)
  BY DEF Waits
<1>3. CASE s[k + 1][1] = what /\ s[k + 1][2][1] = p
  <2>1. Waits(s, k + 1, what, p) = Waits(s, k, what, p) \cup {k + 1}
    BY <1>3 DEF Waits
  <2> QED
    BY <1>1, <1>2, <1>3, <2>1, FS_AddElement
<1>4. CASE ~(s[k + 1][1] = what /\ s[k + 1][2][1] = p)
  <2>1. Waits(s, k + 1, what, p) = Waits(s, k, what, p)
    BY <1>4 DEF Waits
  <2> QED
    BY <1>1, <1>4, <2>1
<1> QED
  BY <1>3, <1>4

LEMMA NetOfNext ==
  ASSUME NEW s, NEW k \in Nat, NEW p
  PROVE  Net(s, k + 1, p) = Net(s, k, p) + By(s[k + 1], p)
<1>1. Cardinality(Waits(s, k, "established", p)) \in Nat
  BY WaitsAreFinite
<1>2. Cardinality(Waits(s, k, "closed", p)) \in Nat
  BY WaitsAreFinite
<1>3. Cardinality(Waits(s, k + 1, "established", p)) =
        Cardinality(Waits(s, k, "established", p))
          + (IF s[k + 1][1] = "established" /\ s[k + 1][2][1] = p THEN 1 ELSE 0)
  BY CountOfNext
<1>4. Cardinality(Waits(s, k + 1, "closed", p)) =
        Cardinality(Waits(s, k, "closed", p))
          + (IF s[k + 1][1] = "closed" /\ s[k + 1][2][1] = p THEN 1 ELSE 0)
  BY CountOfNext
<1> QED
  BY <1>1, <1>2, <1>3, <1>4 DEF Net, By

LEMMA CountOfTail ==
  ASSUME NEW s, NEW t, NEW k \in Nat, NEW what, NEW p, Shifted(s, t, k)
  PROVE  Cardinality(Waits(s, k + 1, what, p)) =
           Cardinality(Waits(t, k, what, p))
             + (IF s[1][1] = what /\ s[1][2][1] = p THEN 1 ELSE 0)
<1> DEFINE W == Waits(t, k, what, p)
           V == {i \in 2 .. k + 1 : s[i][1] = what /\ s[i][2][1] = p}
           f == [i \in W |-> i + 1]
<1>1. IsFiniteSet(W) /\ Cardinality(W) \in Nat
  BY WaitsAreFinite
<1>2. W \subseteq 1 .. k
  BY DEF Waits
<1>3. f \in [W -> V]
  <2>1. ASSUME NEW i \in W
        PROVE  i + 1 \in V
    <3>1. i \in 1 .. k /\ t[i][1] = what /\ t[i][2][1] = p /\ t[i] = s[i + 1]
      BY DEF Waits, Shifted
    <3> QED
      BY <3>1
  <2> QED
    BY <2>1
<1>4. \A v \in V : v - 1 \in W /\ f[v - 1] = v
  <2>1. ASSUME NEW v \in V
        PROVE  v - 1 \in W
    <3>1. v - 1 \in 1 .. k /\ (v - 1) + 1 = v
      OBVIOUS
    <3>2. t[v - 1] = s[v]
      BY <3>1 DEF Shifted
    <3> QED
      BY <3>1, <3>2 DEF Waits
  <2>2. \A v \in V : (v - 1) + 1 = v
    OBVIOUS
  <2> QED
    BY <2>1, <2>2
<1>5. \A a, b \in W : f[a] = f[b] => a = b
  BY <1>2
<1>6. f \in Bijection(W, V)
  <2>1. \A v \in V : \E a \in W : f[a] = v
    BY <1>4
  <2> QED
    BY <1>3, <1>5, <2>1 DEF Bijection, Injection, Surjection, IsInjective
<1>7. /\ IsFiniteSet(V) /\ Cardinality(V) = Cardinality(Waits(t, k, what, p))
      /\ Cardinality(V) \in Nat
  BY <1>1, <1>6, FS_Bijection DEF ExistsBijection
<1>8. 1 \notin V
  OBVIOUS
<1>9. CASE s[1][1] = what /\ s[1][2][1] = p
  <2>1. Waits(s, k + 1, what, p) = V \cup {1}
    BY <1>9 DEF Waits
  <2> HIDE DEF V
  <2> QED
    BY <1>7, <1>8, <1>9, <2>1, FS_AddElement
<1>10. CASE ~(s[1][1] = what /\ s[1][2][1] = p)
  <2>1. Waits(s, k + 1, what, p) = V
    BY <1>10 DEF Waits
  <2> HIDE DEF V
  <2> QED
    BY <1>7, <1>10, <2>1
<1> QED
  BY <1>9, <1>10

LEMMA NetOfTail ==
  ASSUME NEW s, NEW t, NEW k \in Nat, NEW p, Shifted(s, t, k)
  PROVE  Net(s, k + 1, p) = Net(t, k, p) + By(s[1], p)
<1>1. Cardinality(Waits(t, k, "established", p)) \in Nat
  BY WaitsAreFinite
<1>2. Cardinality(Waits(t, k, "closed", p)) \in Nat
  BY WaitsAreFinite
<1>3. Cardinality(Waits(s, k + 1, "established", p)) =
        Cardinality(Waits(t, k, "established", p))
          + (IF s[1][1] = "established" /\ s[1][2][1] = p THEN 1 ELSE 0)
  BY CountOfTail
<1>4. Cardinality(Waits(s, k + 1, "closed", p)) =
        Cardinality(Waits(t, k, "closed", p))
          + (IF s[1][1] = "closed" /\ s[1][2][1] = p THEN 1 ELSE 0)
  BY CountOfTail
<1> QED
  BY <1>1, <1>2, <1>3, <1>4 DEF Net, By

-----------------------------------------------------------------------------
(* Python was told d of a peer that has n connections, and will be told the *)
(* queue s.                                                                 *)
Truthful(s, d, n, p) ==
  /\ d \in Int /\ n \in Nat
  /\ \A k \in 0 .. Len(s) : d + Net(s, k, p) >= 0
  /\ d + Net(s, Len(s), p) = n

LEMMA TruthfulAppend ==
  ASSUME NEW s \in Seq(Item), NEW d, NEW n, NEW p, NEW e \in Item, Truthful(s, d, n, p),
         n + By(e, p) \in Nat
  PROVE  Truthful(Append(s, e), d, n + By(e, p), p)
<1> DEFINE t == Append(s, e)
<1>1. Len(s) \in Nat /\ Len(t) = Len(s) + 1 /\ t[Len(s) + 1] = e
  OBVIOUS
<1>2. \A k \in 0 .. Len(s) : Net(t, k, p) = Net(s, k, p)
  <2>1. ASSUME NEW k \in 0 .. Len(s)
        PROVE  k \in Nat /\ Alike(t, s, k)
    BY DEF Alike
  <2> QED
    BY <2>1, NetIsLocal
<1>3. Net(t, Len(s) + 1, p) = Net(s, Len(s), p) + By(e, p)
  <2>1. Net(t, Len(s) + 1, p) = Net(t, Len(s), p) + By(t[Len(s) + 1], p)
    BY <1>1, NetOfNext
  <2> QED
    BY <1>1, <1>2, <2>1
<1>4. d \in Int /\ n \in Nat /\ d + Net(s, Len(s), p) = n /\ Net(s, Len(s), p) \in Int
      /\ By(e, p) \in Int /\ \A k \in 0 .. Len(s) : d + Net(s, k, p) >= 0
  BY <1>1, NetIsInt DEF Truthful, By
<1> HIDE DEF t
<1>5. d + Net(t, Len(t), p) = n + By(e, p)
  BY <1>1, <1>3, <1>4
<1>6. \A k \in 0 .. Len(t) : d + Net(t, k, p) >= 0
  <2>1. ASSUME NEW k \in 0 .. Len(t)
        PROVE  d + Net(t, k, p) >= 0
    <3>1. k \in 0 .. Len(s) \/ k = Len(t)
      BY <1>1
    <3>2. CASE k \in 0 .. Len(s)
      BY <1>2, <1>4, <3>2
    <3>3. CASE k = Len(t)
      BY <1>5, <3>3
    <3> QED
      BY <3>1, <3>2, <3>3
  <2> QED
    BY <2>1
<1>7. Truthful(t, d, n + By(e, p), p)
  BY <1>4, <1>5, <1>6 DEF Truthful
<1> QED
  BY <1>7 DEF t

LEMMA TruthfulTail ==
  ASSUME NEW s \in Seq(Item), s # <<>>, NEW d, NEW n, NEW p, Truthful(s, d, n, p)
  PROVE  Truthful(Tail(s), d + By(Head(s), p), n, p)
<1> DEFINE t == Tail(s)
<1>1. Len(t) \in Nat /\ Len(s) = Len(t) + 1 /\ \A i \in 1 .. Len(t) : t[i] = s[i + 1]
  OBVIOUS
<1>2. \A k \in 0 .. Len(t) : Net(s, k + 1, p) = Net(t, k, p) + By(Head(s), p)
  <2>1. \A k \in 0 .. Len(t) : k \in Nat /\ Shifted(s, t, k)
    BY <1>1 DEF Shifted
  <2>2. Head(s) = s[1]
    OBVIOUS
  <2> HIDE DEF t
  <2> QED
    BY <2>1, <2>2, NetOfTail
<1>3. \A k \in 0 .. Len(t) : k + 1 \in 0 .. Len(s) /\ Net(t, k, p) \in Int
  BY <1>1, NetIsInt
<1>4. By(Head(s), p) \in Int
  BY DEF By
<1> HIDE DEF t
<1>5. d + By(Head(s), p) \in Int /\ n \in Nat
  BY <1>4 DEF Truthful
<1>6. \A k \in 0 .. Len(t) : d + By(Head(s), p) + Net(t, k, p) >= 0
  BY <1>2, <1>3, <1>4 DEF Truthful
<1>7. d + By(Head(s), p) + Net(t, Len(t), p) = n
  <2>1. Len(t) \in 0 .. Len(t)
    BY <1>1
  <2> QED
    BY <1>1, <1>2, <1>3, <1>4, <2>1 DEF Truthful
<1>8. Truthful(t, d + By(Head(s), p), n, p)
  BY <1>5, <1>6, <1>7 DEF Truthful
<1> QED
  BY <1>8 DEF t

(* What is pushed to the front tells nothing.                               *)
LEMMA TruthfulFront ==
  ASSUME NEW s \in Seq(Item), NEW d, NEW n, NEW p, NEW e \in Item, e[1] = "close",
         Truthful(s, d, n, p)
  PROVE  Truthful(<<e>> \o s, d, n, p)
<1> DEFINE t == <<e>> \o s
<1>1. Len(s) \in Nat /\ Len(t) = Len(s) + 1 /\ t[1] = e /\ \A i \in 1 .. Len(s) : t[i + 1] = s[i]
  OBVIOUS
<1>2. \A k \in 0 .. Len(s) : Net(t, k + 1, p) = Net(s, k, p)
  <2>1. \A k \in 0 .. Len(s) : k \in Nat /\ Shifted(t, s, k)
    BY <1>1 DEF Shifted
  <2>2. By(t[1], p) = 0
    BY <1>1 DEF By
  <2> HIDE DEF t
  <2>3. \A k \in 0 .. Len(s) : Net(t, k + 1, p) = Net(s, k, p) + By(t[1], p)
    BY <2>1, NetOfTail
  <2>4. \A k \in 0 .. Len(s) : Net(s, k, p) \in Int
    BY <2>1, NetIsInt
  <2> QED
    BY <2>2, <2>3, <2>4
<1> HIDE DEF t
<1>3. \A k \in 0 .. Len(t) : k = 0 \/ (k - 1 \in 0 .. Len(s) /\ k = (k - 1) + 1)
  BY <1>1
<1>4. d \in Int /\ n \in Nat /\ d + Net(s, Len(s), p) = n /\ \A k \in 0 .. Len(s) : d + Net(s, k, p) >= 0
  BY DEF Truthful
<1>5. d >= 0
  <2>1. d + Net(s, 0, p) >= 0
    BY <1>1, <1>4
  <2> QED
    BY <1>4, <2>1, NetOfNone
<1>6. \A k \in 0 .. Len(t) : d + Net(t, k, p) >= 0
  <2>1. ASSUME NEW k \in 0 .. Len(t)
        PROVE  d + Net(t, k, p) >= 0
    <3>1. CASE k = 0
      BY <1>4, <1>5, <3>1, NetOfNone
    <3>2. CASE k # 0
      <4>1. k - 1 \in 0 .. Len(s) /\ k = (k - 1) + 1
        BY <1>3, <3>2
      <4>2. Net(t, k, p) = Net(s, k - 1, p)
        BY <1>2, <4>1
      <4> QED
        BY <1>4, <4>1, <4>2
    <3> QED
      BY <3>1, <3>2
  <2> QED
    BY <2>1
<1>7. d + Net(t, Len(t), p) = n
  BY <1>1, <1>2, <1>4
<1>8. Truthful(t, d, n, p)
  BY <1>4, <1>6, <1>7 DEF Truthful
<1> QED
  BY <1>8 DEF t

(* Dials tell nothing.                                                      *)
LEMMA TruthfulDials ==
  ASSUME NEW s \in Seq(Item), NEW d, NEW n, NEW p, NEW u \in Seq(Item),
         \A i \in 1 .. Len(u) : u[i][1] = "dial", Truthful(s, d, n, p)
  PROVE  Truthful(s \o u, d, n, p)
<1> DEFINE t == s \o u
<1>1. /\ Len(s) \in Nat /\ Len(u) \in Nat /\ Len(t) = Len(s) + Len(u)
      /\ \A i \in 1 .. Len(s) : t[i] = s[i]
      /\ \A i \in Len(s) + 1 .. Len(t) : t[i] = u[i - Len(s)]
  OBVIOUS
<1>2. \A i \in Len(s) + 1 .. Len(t) : t[i][1] = "dial"
  <2>1. \A i \in Len(s) + 1 .. Len(t) : i - Len(s) \in 1 .. Len(u)
    BY <1>1
  <2> QED
    BY <1>1, <2>1
<1> HIDE DEF t
<1>3. \A k \in 0 .. Len(s) : Net(t, k, p) = Net(s, k, p)
  <2>1. \A k \in 0 .. Len(s) : k \in Nat /\ Alike(t, s, k)
    BY <1>1 DEF Alike
  <2> QED
    BY <2>1, NetIsLocal
<1>4. \A k \in Len(s) .. Len(t) : Net(t, k, p) = Net(s, Len(s), p)
  <2>1. ASSUME NEW k \in Len(s) .. Len(t)
        PROVE  Net(t, k, p) = Net(s, Len(s), p)
    <3>1. k \in Nat /\ Len(s) <= k /\ \A i \in Len(s) + 1 .. k : t[i][1] \notin {"established", "closed"}
      BY <1>1, <1>2
    <3>2. Net(t, k, p) = Net(t, Len(s), p)
      BY <1>1, <3>1, NetOfQuiet
    <3>3. Len(s) \in 0 .. Len(s)
      BY <1>1
    <3> QED
      BY <1>3, <3>2, <3>3
  <2> QED
    BY <2>1
<1>5. d \in Int /\ n \in Nat /\ d + Net(s, Len(s), p) = n /\ \A k \in 0 .. Len(s) : d + Net(s, k, p) >= 0
  BY DEF Truthful
<1>6. \A k \in 0 .. Len(t) : d + Net(t, k, p) >= 0
  <2>1. \A k \in 0 .. Len(t) : k \in 0 .. Len(s) \/ k \in Len(s) .. Len(t)
    BY <1>1
  <2> QED
    BY <1>3, <1>4, <1>5, <2>1
<1>7. d + Net(t, Len(t), p) = n
  BY <1>1, <1>4, <1>5
<1>8. Truthful(t, d, n, p)
  BY <1>5, <1>6, <1>7 DEF Truthful
<1> QED
  BY <1>8 DEF t

-----------------------------------------------------------------------------
ToldInv == \A p \in Peers : Truthful(pending, told[p], Cardinality(ConnsOf(p)), p)

DiscoveryInv ==
  DiscoveryTypeOK /\ (\A p \in Peers : IsFiniteSet(ConnsOf(p))) /\ ToldInv

LEMMA SizeOfInterval ==
  ASSUME NEW n \in Nat
  PROVE  IsFiniteSet(1 .. n) /\ Cardinality(1 .. n) = n
<1>1. IsFiniteSet(1 .. n) /\ Cardinality(1 .. n) = IF 1 > n THEN 0 ELSE n - 1 + 1
  BY FS_Interval
<1> QED
  BY <1>1

LEMMA Joined ==
  ASSUME NEW S, NEW a \in Seq(S), NEW b \in Seq(S)
  PROVE  /\ a \o b \in Seq(S) /\ Len(a \o b) = Len(a) + Len(b)
         /\ \A i \in 1 .. Len(a) : (a \o b)[i] = a[i]
         /\ \A i \in Len(a) + 1 .. Len(a) + Len(b) : (a \o b)[i] = b[i - Len(a)]
OBVIOUS

LEMMA SeqOfSet ==
  ASSUME NEW S, IsFiniteSet(S)
  PROVE  Cardinality(S) \in Nat /\ SetToSeq(S) \in [1 .. Cardinality(S) -> S]
<1>1. Cardinality(S) \in Nat /\ ExistsBijection(1 .. Cardinality(S), S)
  BY FS_CardinalityType
<1>2. \E f \in [1 .. Cardinality(S) -> S] : IsInjective(f)
  BY <1>1 DEF ExistsBijection, Bijection, Injection
<1> QED
  BY <1>1, <1>2 DEF SetToSeq

LEMMA RetriesAreDials ==
  ASSUME DiscoveryTypeOK
  PROVE  Retries \in Seq(Item) /\ \A i \in 1 .. Len(Retries) : Retries[i][1] = "dial"
<1> DEFINE S == {pair \in Peers \X Addrs : pair[2] \in discovered[pair[1]]}
           all == SetToSeq(S)
           n == Cardinality(S)
           m == Cardinality(Bootstrap)
           a == [i \in 1 .. n |-> Dial(all[i][1], "peer")]
           b == [i \in 1 .. m |-> Dial(SetToSeq(Bootstrap)[i], "address")]
<1>1. IsFiniteSet(S)
  <2>1. IsFiniteSet(Peers \X Addrs)
    BY DiscoveryAssumption, FS_Product
  <2> QED
    BY <2>1, FS_Subset
<1>2. n \in Nat /\ all \in [1 .. n -> S]
  BY <1>1, SeqOfSet
<1>3. m \in Nat /\ SetToSeq(Bootstrap) \in [1 .. m -> Bootstrap]
  BY DiscoveryAssumption, FS_Subset, SeqOfSet
<1>4. \A i \in 1 .. n : all[i][1] \in Peers
  BY <1>2
<1>5. \A i \in 1 .. m : SetToSeq(Bootstrap)[i] \in Peers
  BY <1>3, DiscoveryAssumption
<1>6. \A p \in Peers, how \in {"peer", "address"} : Dial(p, how) \in Item /\ Dial(p, how)[1] = "dial"
  BY DEF Dial, Item
<1>7. Retries = a \o b
  <2>1. DOMAIN all = 1 .. n
    BY <1>2
  <2> HIDE DEF n
  <2> QED
    BY <2>1 DEF Retries, DialBootstrap
<1> HIDE DEF n, m, all
<1>8. a \in Seq(Item) /\ Len(a) = n /\ \A i \in 1 .. n : a[i][1] = "dial"
  BY <1>2, <1>4, <1>6
<1>9. b \in Seq(Item) /\ Len(b) = m /\ \A i \in 1 .. m : b[i][1] = "dial"
  BY <1>3, <1>5, <1>6
<1> HIDE DEF a, b
<1>10. /\ a \o b \in Seq(Item) /\ Len(a \o b) = n + m
       /\ \A i \in 1 .. n : (a \o b)[i] = a[i]
       /\ \A i \in n + 1 .. n + m : (a \o b)[i] = b[i - n]
  BY <1>8, <1>9, Joined
<1>11. ASSUME NEW i \in 1 .. n + m
       PROVE  (a \o b)[i][1] = "dial"
  <2>1. CASE i \in 1 .. n
    BY <1>8, <1>10, <2>1
  <2>2. CASE i \notin 1 .. n
    <3>1. i \in n + 1 .. n + m /\ i - n \in 1 .. m
      BY <1>2, <1>3, <2>2
    <3> QED
      BY <1>9, <1>10, <3>1
  <2> QED
    BY <2>1, <2>2
<1> QED
  BY <1>7, <1>10, <1>11

(* A new connection has a number that no other has, be it open or waiting   *)
(* to be told.                                                              *)
LEMMA NewConnIsNew ==
  ASSUME DiscoveryInv, NEW p \in Peers, Cardinality(ConnsOf(p)) < MaxConns, Room(1)
  PROVE  NewConn(p) \in Conn /\ NewConn(p)[1] = p /\ NewConn(p) \notin conns
<1> DEFINE N == MaxConns + MaxPending
           S == {p} \X (1 .. N)
           k == Len(pending)
           named == [i \in 1 .. k |-> pending[i][2]]
           T == {pending[i][2] : i \in 1 .. k}
<1>1. k \in Nat /\ k + 1 <= MaxPending /\ MaxConns \in Nat /\ MaxPending \in Nat /\ N \in Nat
  BY DiscoveryAssumption DEF DiscoveryInv, DiscoveryTypeOK, Room
<1>2. IsFiniteSet(S) /\ Cardinality(S) = N
  <2> DEFINE f == [i \in 1 .. N |-> <<p, i>>]
  <2>1. f \in Bijection(1 .. N, S)
    <3>1. f \in [1 .. N -> S]
      OBVIOUS
    <3>2. \A i, j \in 1 .. N : f[i] = f[j] => i = j
      OBVIOUS
    <3>3. \A s \in S : \E i \in 1 .. N : f[i] = s
      OBVIOUS
    <3> QED
      BY <3>1, <3>2, <3>3 DEF Bijection, Injection, Surjection, IsInjective
  <2>2. IsFiniteSet(1 .. N) /\ Cardinality(1 .. N) = N
    BY <1>1, SizeOfInterval
  <2> QED
    BY <2>1, <2>2, FS_Bijection DEF ExistsBijection
<1>3. IsFiniteSet(T) /\ Cardinality(T) <= k /\ Cardinality(T) \in Nat
  <2>1. named \in Surjection(1 .. k, T)
    BY DEF Surjection
  <2>2. IsFiniteSet(1 .. k) /\ Cardinality(1 .. k) = k
    BY <1>1, SizeOfInterval
  <2>3. IsFiniteSet(T) /\ Cardinality(T) <= k
    BY <2>1, <2>2, FS_Surjection
  <2> QED
    BY <2>3, FS_CardinalityType
<1>4. IsFiniteSet(ConnsOf(p)) /\ Cardinality(ConnsOf(p)) \in Nat
  BY FS_CardinalityType DEF DiscoveryInv
<1>5. IsFiniteSet(ConnsOf(p) \cup T) /\ Cardinality(ConnsOf(p) \cup T) < N
  <2>1. /\ IsFiniteSet(ConnsOf(p) \cup T)
        /\ Cardinality(ConnsOf(p) \cup T) =
             Cardinality(ConnsOf(p)) + Cardinality(T) - Cardinality(ConnsOf(p) \cap T)
    BY <1>3, <1>4, FS_Union
  <2>2. Cardinality(ConnsOf(p) \cap T) \in Nat
    <3>1. IsFiniteSet(ConnsOf(p) \cap T)
      BY <1>4, FS_Subset
    <3> QED
      BY <3>1, FS_CardinalityType
  <2> HIDE DEF T, k
  <2> QED
    BY <1>1, <1>3, <1>4, <2>1, <2>2
<1>6. PICK c \in S : c \notin ConnsOf(p) \cup T
  <2>1. ~(S \subseteq ConnsOf(p) \cup T)
    <3> SUFFICES ASSUME S \subseteq ConnsOf(p) \cup T
                 PROVE  FALSE
      OBVIOUS
    <3>1. Cardinality(S) <= Cardinality(ConnsOf(p) \cup T)
      BY <1>5, FS_Subset
    <3>2. Cardinality(ConnsOf(p) \cup T) \in Nat
      BY <1>5, FS_CardinalityType
    <3> HIDE DEF S, T
    <3> QED
      BY <1>1, <1>2, <1>5, <3>1, <3>2
  <2> QED
    BY <2>1
<1>7. c \notin conns /\ \A i \in DOMAIN pending : pending[i][1] # "dial" => pending[i][2] # c
  <2>1. c[1] = p /\ c \notin conns
    BY <1>6 DEF ConnsOf
  <2>2. DOMAIN pending = 1 .. k
    BY DEF DiscoveryInv, DiscoveryTypeOK
  <2> QED
    BY <1>6, <2>1, <2>2
<1>8. /\ NewConn(p) \in S
      /\ NewConn(p) \notin conns
  BY <1>6, <1>7 DEF NewConn
<1>9. \A s \in S : s \in Conn /\ s[1] = p
  BY <1>1 DEF Conn
<1> QED
  BY <1>8, <1>9

(* What a step does to the connections of each peer.                        *)
LEMMA ConnAdded ==
  ASSUME DiscoveryInv, NEW c \in Conn, c \notin conns, conns' = conns \cup {c}, NEW p \in Peers
  PROVE  /\ IsFiniteSet(ConnsOf(p)') /\ Cardinality(ConnsOf(p)) \in Nat
         /\ Cardinality(ConnsOf(p)') = Cardinality(ConnsOf(p)) + By(<<"established", c>>, p)
<1>1. IsFiniteSet(ConnsOf(p)) /\ Cardinality(ConnsOf(p)) \in Nat /\ c \notin ConnsOf(p)
  BY FS_CardinalityType DEF DiscoveryInv, ConnsOf
<1>2. CASE c[1] = p
  <2>1. ConnsOf(p)' = ConnsOf(p) \cup {c} /\ By(<<"established", c>>, p) = 1
    BY <1>2 DEF ConnsOf, By
  <2> QED
    BY <1>1, <2>1, FS_AddElement
<1>3. CASE c[1] # p
  <2>1. ConnsOf(p)' = ConnsOf(p) /\ By(<<"established", c>>, p) = 0
    BY <1>3 DEF ConnsOf, By
  <2> QED
    BY <1>1, <2>1
<1> QED
  BY <1>2, <1>3

LEMMA ConnRemoved ==
  ASSUME DiscoveryInv, NEW c \in conns, conns' = conns \ {c}, NEW p \in Peers
  PROVE  /\ IsFiniteSet(ConnsOf(p)') /\ Cardinality(ConnsOf(p)') \in Nat
         /\ Cardinality(ConnsOf(p)') = Cardinality(ConnsOf(p)) + By(<<"closed", c>>, p)
<1>1. IsFiniteSet(ConnsOf(p)) /\ Cardinality(ConnsOf(p)) \in Nat
  BY FS_CardinalityType DEF DiscoveryInv
<1>2. CASE c[1] = p
  <2>1. ConnsOf(p)' = ConnsOf(p) \ {c} /\ By(<<"closed", c>>, p) = -1 /\ c \in ConnsOf(p)
    BY <1>2 DEF ConnsOf, By
  <2>2. IsFiniteSet(ConnsOf(p)') /\ Cardinality(ConnsOf(p)') = Cardinality(ConnsOf(p)) - 1
    BY <1>1, <2>1, FS_RemoveElement
  <2> QED
    BY <1>1, <2>1, <2>2, FS_CardinalityType
<1>3. CASE c[1] # p
  <2>1. ConnsOf(p)' = ConnsOf(p) /\ By(<<"closed", c>>, p) = 0
    BY <1>3 DEF ConnsOf, By
  <2> QED
    BY <1>1, <2>1
<1> QED
  BY <1>2, <1>3

LEMMA ConnsStay ==
  ASSUME DiscoveryInv, conns' = conns, NEW p \in Peers
  PROVE  IsFiniteSet(ConnsOf(p)') /\ ConnsOf(p)' = ConnsOf(p)
BY DEF DiscoveryInv, ConnsOf

(* A step that leaves the queue, the connections and what was told alone.   *)
LEMMA NothingTold ==
  ASSUME DiscoveryInv, DiscoveryTypeOK', UNCHANGED <<pending, conns, told>>
  PROVE  DiscoveryInv'
<1>1. \A p \in Peers : ConnsOf(p)' = ConnsOf(p)
  BY DEF ConnsOf
<1> QED
  BY <1>1 DEF DiscoveryInv, ToldInv

LEMMA Changed ==
  ASSUME DiscoveryTypeOK, Change
  PROVE  changes' \in 0 .. MaxChanges
<1>1. changes \in 0 .. MaxChanges /\ MaxChanges \in Nat
  BY DiscoveryAssumption DEF DiscoveryTypeOK
<1> QED
  BY <1>1 DEF Change

LEMMA HandleMdnsDiscoveredKeeps ==
  ASSUME DiscoveryInv, NEW p \in Peers, NEW a \in Addrs, HandleMdnsDiscovered(p, a)
  PROVE  DiscoveryInv'
<1> DEFINE e == Dial(p, "peer")
<1>1. e \in Item /\ e[1] = "dial" /\ \A q : By(e, q) = 0
  BY DEF Dial, Item, By
<1>2. pending \in Seq(Item) /\ Len(pending) + 1 <= MaxPending
  BY DEF DiscoveryInv, DiscoveryTypeOK, HandleMdnsDiscovered, Room
<1>3. pending' = pending \o <<e>> /\ UNCHANGED <<up, dialing, conns, told>>
  BY DEF HandleMdnsDiscovered, PushBack
<1>4. <<e>> \in Seq(Item) /\ Len(<<e>>) = 1 /\ <<e>>[1] = e
  BY <1>1
<1> HIDE DEF e
<1>5. pending' \in Seq(Item) /\ Len(pending') <= MaxPending
  BY <1>2, <1>3, <1>4, Joined
<1>6. DiscoveryTypeOK'
  <2>1. changes' \in 0 .. MaxChanges
    BY Changed DEF DiscoveryInv, HandleMdnsDiscovered
  <2>2. discovered' \in [Peers -> SUBSET Addrs]
    BY DEF DiscoveryInv, DiscoveryTypeOK, HandleMdnsDiscovered
  <2> QED
    BY <1>3, <1>5, <2>1, <2>2 DEF DiscoveryInv, DiscoveryTypeOK
<1>7. ASSUME NEW q \in Peers
      PROVE  IsFiniteSet(ConnsOf(q)') /\ Truthful(pending', told'[q], Cardinality(ConnsOf(q)'), q)
  <2>1. Truthful(pending, told[q], Cardinality(ConnsOf(q)), q)
    BY DEF DiscoveryInv, ToldInv
  <2>2. \A i \in 1 .. Len(<<e>>) : <<e>>[i][1] = "dial"
    BY <1>1, <1>4
  <2>3. Truthful(pending \o <<e>>, told[q], Cardinality(ConnsOf(q)), q)
    BY <1>2, <1>4, <2>1, <2>2, TruthfulDials
  <2> QED
    BY <1>3, <2>3, ConnsStay
<1> QED
  BY <1>6, <1>7 DEF DiscoveryInv, ToldInv

LEMMA RetryKeeps ==
  ASSUME DiscoveryInv, Retry
  PROVE  DiscoveryInv'
<1>1. Retries \in Seq(Item) /\ \A i \in 1 .. Len(Retries) : Retries[i][1] = "dial"
  BY RetriesAreDials DEF DiscoveryInv
<1>2. /\ pending \in Seq(Item) /\ Len(pending) + Len(Retries) <= MaxPending
      /\ pending' = pending \o Retries /\ UNCHANGED <<up, discovered, dialing, conns, told, changes>>
  BY DEF DiscoveryInv, DiscoveryTypeOK, Retry, Room, PushBack
<1>3. pending' \in Seq(Item) /\ Len(pending') <= MaxPending
  BY <1>1, <1>2, Joined
<1>4. DiscoveryTypeOK'
  BY <1>2, <1>3 DEF DiscoveryInv, DiscoveryTypeOK
<1>5. ASSUME NEW q \in Peers
      PROVE  IsFiniteSet(ConnsOf(q)') /\ Truthful(pending', told'[q], Cardinality(ConnsOf(q)'), q)
  <2>1. Truthful(pending, told[q], Cardinality(ConnsOf(q)), q)
    BY DEF DiscoveryInv, ToldInv
  <2>2. Truthful(pending \o Retries, told[q], Cardinality(ConnsOf(q)), q)
    BY <1>1, <1>2, <2>1, TruthfulDials
  <2> QED
    BY <1>2, <2>2, ConnsStay
<1> QED
  BY <1>4, <1>5 DEF DiscoveryInv, ToldInv

LEMMA PingFailsKeeps ==
  ASSUME DiscoveryInv, NEW c \in conns, PingFails(c)
  PROVE  DiscoveryInv'
<1> DEFINE e == <<"close", c>>
<1>1. e \in Item /\ e[1] = "close"
  BY DEF DiscoveryInv, DiscoveryTypeOK, Item
<1>2. /\ pending \in Seq(Item) /\ Len(pending) + 1 <= MaxPending
      /\ pending' = <<e>> \o pending /\ UNCHANGED <<up, discovered, dialing, conns, told, changes>>
  BY DEF DiscoveryInv, DiscoveryTypeOK, PingFails, Room, CloseConnection
<1> HIDE DEF e
<1>3. pending' \in Seq(Item) /\ Len(pending') <= MaxPending
  <2>1. <<e>> \in Seq(Item) /\ Len(<<e>>) = 1 /\ Len(pending) \in Nat
    BY <1>1, <1>2
  <2> QED
    BY <1>2, <2>1, Joined
<1>4. DiscoveryTypeOK'
  BY <1>2, <1>3 DEF DiscoveryInv, DiscoveryTypeOK
<1>5. ASSUME NEW q \in Peers
      PROVE  IsFiniteSet(ConnsOf(q)') /\ Truthful(pending', told'[q], Cardinality(ConnsOf(q)'), q)
  <2>1. Truthful(pending, told[q], Cardinality(ConnsOf(q)), q)
    BY DEF DiscoveryInv, ToldInv
  <2>2. Truthful(<<e>> \o pending, told[q], Cardinality(ConnsOf(q)), q)
    BY <1>1, <1>2, <2>1, TruthfulFront
  <2> QED
    BY <1>2, <2>2, ConnsStay
<1> QED
  BY <1>4, <1>5 DEF DiscoveryInv, ToldInv

LEMMA EstablishedKeeps ==
  ASSUME DiscoveryInv, NEW p \in Peers, Established(p), UNCHANGED <<up, discovered, told>>,
         dialing' \subseteq dialing, changes' \in 0 .. MaxChanges
  PROVE  DiscoveryInv'
<1> DEFINE c == NewConn(p)
           e == <<"established", c>>
<1>1. c \in Conn /\ c[1] = p /\ c \notin conns
  BY NewConnIsNew DEF Established
<1>2. e \in Item
  BY <1>1 DEF Item
<1>3. /\ pending \in Seq(Item) /\ Len(pending) + 1 <= MaxPending
      /\ pending' = pending \o <<e>> /\ conns' = conns \cup {c}
  BY DEF DiscoveryInv, DiscoveryTypeOK, Established, OnConnectionEstablished, PushBack, Room
<1> HIDE DEF c
<1>4. pending' = Append(pending, e)
  BY <1>2, <1>3
<1>5. pending' \in Seq(Item) /\ Len(pending') <= MaxPending
  BY <1>2, <1>3, <1>4
<1>6. DiscoveryTypeOK'
  BY <1>1, <1>3, <1>5 DEF DiscoveryInv, DiscoveryTypeOK
<1>7. ASSUME NEW q \in Peers
      PROVE  IsFiniteSet(ConnsOf(q)') /\ Truthful(pending', told'[q], Cardinality(ConnsOf(q)'), q)
  <2>1. Truthful(pending, told[q], Cardinality(ConnsOf(q)), q)
    BY DEF DiscoveryInv, ToldInv
  <2>2. /\ IsFiniteSet(ConnsOf(q)') /\ Cardinality(ConnsOf(q)) \in Nat
        /\ Cardinality(ConnsOf(q)') = Cardinality(ConnsOf(q)) + By(e, q)
    BY <1>1, <1>3, ConnAdded
  <2>3. Cardinality(ConnsOf(q)') \in Nat
    BY <2>2, FS_CardinalityType
  <2>4. Truthful(Append(pending, e), told[q], Cardinality(ConnsOf(q)'), q)
    BY <1>2, <1>3, <2>1, <2>2, <2>3, TruthfulAppend
  <2> QED
    BY <1>4, <2>2, <2>4
<1> QED
  BY <1>6, <1>7 DEF DiscoveryInv, ToldInv

LEMMA BreaksKeeps ==
  ASSUME DiscoveryInv, NEW c \in conns, Breaks(c)
  PROVE  DiscoveryInv'
<1> DEFINE e == <<"closed", c>>
<1>1. e \in Item /\ c \in Conn
  BY DEF DiscoveryInv, DiscoveryTypeOK, Item
<1>2. /\ pending \in Seq(Item) /\ Len(pending) + 1 <= MaxPending
      /\ pending' = Append(pending, e) /\ conns' = conns \ {c}
      /\ UNCHANGED <<up, discovered, dialing, told>>
  BY DEF DiscoveryInv, DiscoveryTypeOK, Breaks, OnConnectionClosed, Room
<1>3. pending' \in Seq(Item) /\ Len(pending') <= MaxPending
  BY <1>1, <1>2
<1>4. DiscoveryTypeOK'
  <2>1. changes' \in 0 .. MaxChanges
    BY Changed DEF DiscoveryInv, Breaks
  <2> QED
    BY <1>2, <1>3, <2>1 DEF DiscoveryInv, DiscoveryTypeOK
<1>5. ASSUME NEW q \in Peers
      PROVE  IsFiniteSet(ConnsOf(q)') /\ Truthful(pending', told'[q], Cardinality(ConnsOf(q)'), q)
  <2>1. Truthful(pending, told[q], Cardinality(ConnsOf(q)), q)
    BY DEF DiscoveryInv, ToldInv
  <2>2. /\ IsFiniteSet(ConnsOf(q)') /\ Cardinality(ConnsOf(q)') \in Nat
        /\ Cardinality(ConnsOf(q)') = Cardinality(ConnsOf(q)) + By(e, q)
    BY <1>2, ConnRemoved
  <2>3. Truthful(Append(pending, e), told[q], Cardinality(ConnsOf(q)'), q)
    BY <1>1, <1>2, <2>1, <2>2, TruthfulAppend
  <2> QED
    BY <1>2, <2>2, <2>3
<1> QED
  BY <1>4, <1>5 DEF DiscoveryInv, ToldInv

(* The first item of the queue goes, and n peers were told of it.           *)
LEMMA PollKeeps ==
  ASSUME DiscoveryInv, Poll
  PROVE  DiscoveryInv'
<1> DEFINE e == Head(pending)
           rest == Tail(pending)
<1>1. /\ pending \in Seq(Item) /\ pending # <<>> /\ Len(pending) <= MaxPending
      /\ Len(pending) \in Nat /\ UNCHANGED <<up, discovered, changes>>
  BY DEF DiscoveryInv, DiscoveryTypeOK, Poll
<1>2. e \in Item /\ rest \in Seq(Item) /\ Len(rest) + 1 = Len(pending) /\ Len(rest) <= MaxPending
  <2>1. Len(rest) \in Nat /\ Len(rest) + 1 = Len(pending) /\ MaxPending \in Nat
    BY <1>1, DiscoveryAssumption
  <2>2. Len(rest) <= MaxPending
    BY <1>1, <2>1
  <2> QED
    BY <1>1, <2>1, <2>2
<1>3. \A q \in Peers :
        /\ Truthful(rest, told[q] + By(e, q), Cardinality(ConnsOf(q)), q)
        /\ IsFiniteSet(ConnsOf(q))
  BY <1>1, TruthfulTail DEF DiscoveryInv, ToldInv
<1>4. told \in [Peers -> Int]
  BY DEF DiscoveryInv, DiscoveryTypeOK
<1> HIDE DEF rest
<1>5. CASE e[1] = "dial"
  <2>1. /\ e[2] \in Peers /\ e[3] \in {"peer", "address"} /\ \A q : By(e, q) = 0
    BY <1>2, <1>5 DEF Item, By
  <2>2. PollDial(e[2], e[3])
    BY <1>5 DEF Poll
  <2>3. pending' = rest /\ UNCHANGED <<conns, told>> /\ dialing' \subseteq dialing \cup {<<e[2], e[3]>>}
    BY <2>2 DEF PollDial, rest
  <2>4. DiscoveryTypeOK'
    BY <1>1, <1>2, <2>1, <2>3 DEF DiscoveryInv, DiscoveryTypeOK, Reach
  <2>5. \A q \in Peers : told[q] + By(e, q) = told[q]
    BY <1>4, <2>1
  <2>6. \A q \in Peers : ConnsOf(q)' = ConnsOf(q)
    BY <2>3 DEF ConnsOf
  <2> QED
    BY <1>3, <2>3, <2>4, <2>5, <2>6 DEF DiscoveryInv, ToldInv
<1>6. CASE e[1] = "close"
  <2>1. \A q : By(e, q) = 0
    BY <1>6 DEF By
  <2>2. PollClose(e[2]) /\ e[2] \in Conn
    BY <1>2, <1>6 DEF Poll, Item
  <2>3. \A q \in Peers : Truthful(rest, told[q], Cardinality(ConnsOf(q)), q)
    BY <1>3, <1>4, <2>1
  <2>4. CASE e[2] \notin conns
    <3>1. pending' = rest /\ UNCHANGED <<conns, told, dialing>>
      BY <2>2, <2>4 DEF PollClose, rest
    <3>2. DiscoveryTypeOK'
      BY <1>1, <1>2, <3>1 DEF DiscoveryInv, DiscoveryTypeOK
    <3>3. \A q \in Peers : ConnsOf(q)' = ConnsOf(q)
      BY <3>1 DEF ConnsOf
    <3> QED
      BY <1>3, <2>3, <3>1, <3>2, <3>3 DEF DiscoveryInv, ToldInv
  <2>5. CASE e[2] \in conns
    <3> DEFINE c == e[2]
               f == <<"closed", c>>
    <3>1. pending' = Append(rest, f) /\ conns' = conns \ {c} /\ UNCHANGED <<told, dialing>>
      BY <2>2, <2>5 DEF PollClose, OnConnectionClosed, rest
    <3>2. f \in Item
      BY <2>2 DEF Item
    <3>3. pending' \in Seq(Item) /\ Len(pending') <= MaxPending
      BY <1>1, <1>2, <3>1, <3>2
    <3>4. DiscoveryTypeOK'
      BY <1>1, <3>1, <3>3 DEF DiscoveryInv, DiscoveryTypeOK
    <3>5. ASSUME NEW q \in Peers
          PROVE  IsFiniteSet(ConnsOf(q)') /\ Truthful(pending', told'[q], Cardinality(ConnsOf(q)'), q)
      <4>1. /\ IsFiniteSet(ConnsOf(q)') /\ Cardinality(ConnsOf(q)') \in Nat
            /\ Cardinality(ConnsOf(q)') = Cardinality(ConnsOf(q)) + By(f, q)
        BY <2>5, <3>1, ConnRemoved
      <4>2. Truthful(Append(rest, f), told[q], Cardinality(ConnsOf(q)'), q)
        BY <1>2, <2>3, <3>2, <4>1, TruthfulAppend
      <4> QED
        BY <3>1, <4>1, <4>2
    <3> QED
      BY <3>4, <3>5 DEF DiscoveryInv, ToldInv
  <2> QED
    BY <2>4, <2>5
<1>7. ASSUME NEW d \in {-1, 1}, e[1] \in {"established", "closed"}, PollTell(e[2], d),
             d = IF e[1] = "established" THEN 1 ELSE -1
      PROVE  DiscoveryInv'
  <2>1. e[2] \in Conn /\ e[2][1] \in Peers
    BY <1>2, <1>7 DEF Item, Conn
  <2>2. pending' = rest /\ UNCHANGED <<conns, dialing>> /\ told' = [told EXCEPT ![e[2][1]] = @ + d]
    BY <1>7 DEF PollTell, rest
  <2>3. \A q \in Peers : told'[q] = told[q] + By(e, q)
    BY <1>4, <1>7, <2>1, <2>2 DEF By
  <2>4. told' \in [Peers -> Int]
    BY <1>4, <2>1, <2>2
  <2>5. DiscoveryTypeOK'
    BY <1>1, <1>2, <2>2, <2>4 DEF DiscoveryInv, DiscoveryTypeOK
  <2>6. \A q \in Peers : ConnsOf(q)' = ConnsOf(q)
    BY <2>2 DEF ConnsOf
  <2> QED
    BY <1>3, <2>2, <2>3, <2>5, <2>6 DEF DiscoveryInv, ToldInv
<1>8. e[1] \in {"dial", "close", "established", "closed"}
  BY <1>2 DEF Item
<1>9. CASE e[1] = "established"
  <2>1. PollTell(e[2], 1)
    BY <1>9 DEF Poll
  <2> QED
    BY <1>7, <1>9, <2>1
<1>10. CASE e[1] = "closed"
  <2>1. PollTell(e[2], -1)
    BY <1>10 DEF Poll
  <2> QED
    BY <1>7, <1>10, <2>1
<1> QED
  BY <1>5, <1>6, <1>8, <1>9, <1>10

LEMMA DiscoveryInvHolds == DSpec => []DiscoveryInv
<1>1. DInit => DiscoveryInv
  <2> SUFFICES ASSUME DInit
               PROVE  DiscoveryInv
    OBVIOUS
  <2>1. pending = <<>> /\ Len(pending) = 0 /\ pending \in Seq(Item) /\ 0 \in 0 .. MaxChanges
    BY DiscoveryAssumption DEF DInit
  <2>2. DiscoveryTypeOK
    BY <2>1, DiscoveryAssumption DEF DInit, DiscoveryTypeOK
  <2>3. \A p \in Peers : ConnsOf(p) = {} /\ told[p] = 0
    BY DEF DInit, ConnsOf
  <2>4. IsFiniteSet({}) /\ Cardinality({}) = 0
    BY FS_EmptySet
  <2>5. \A p \in Peers : Truthful(pending, 0, 0, p)
    BY <2>1, NetOfNone DEF Truthful
  <2> QED
    BY <2>2, <2>3, <2>4, <2>5 DEF DiscoveryInv, ToldInv
<1>2. DiscoveryInv /\ [DNext]_dvars => DiscoveryInv'
  <2> SUFFICES ASSUME DiscoveryInv, [DNext]_dvars
               PROVE  DiscoveryInv'
    OBVIOUS
  <2>1. ASSUME NEW p \in Peers, NEW a \in Addrs, HandleMdnsExpired(p, a)
        PROVE  DiscoveryInv'
    <3>1. changes' \in 0 .. MaxChanges
      BY <2>1, Changed DEF DiscoveryInv, HandleMdnsExpired
    <3>2. DiscoveryTypeOK'
      BY <2>1, <3>1 DEF DiscoveryInv, DiscoveryTypeOK, HandleMdnsExpired
    <3> QED
      BY <2>1, <3>2, NothingTold DEF HandleMdnsExpired
  <2>2. ASSUME NEW d \in dialing, DialSucceeds(d) \/ DialFails(d)
        PROVE  DiscoveryInv'
    <3>1. CASE DialSucceeds(d)
      <4>1. d[1] \in Peers /\ changes' \in 0 .. MaxChanges
        BY <3>1 DEF DiscoveryInv, DiscoveryTypeOK, DialSucceeds
      <4> QED
        BY <3>1, <4>1, EstablishedKeeps DEF DialSucceeds
    <3>2. CASE DialFails(d)
      <4>1. DiscoveryTypeOK'
        BY <3>2 DEF DiscoveryInv, DiscoveryTypeOK, DialFails
      <4> QED
        BY <3>2, <4>1, NothingTold DEF DialFails
    <3> QED
      BY <2>2, <3>1, <3>2
  <2>3. ASSUME NEW p \in Peers, Inbound(p)
        PROVE  DiscoveryInv'
    <3>1. changes' \in 0 .. MaxChanges
      BY <2>3, Changed DEF DiscoveryInv, Inbound
    <3> QED
      BY <2>3, <3>1, EstablishedKeeps DEF Inbound
  <2>4. ASSUME NEW p \in Peers, GoesOrComes(p)
        PROVE  DiscoveryInv'
    <3>1. changes' \in 0 .. MaxChanges
      BY <2>4, Changed DEF DiscoveryInv, GoesOrComes
    <3>2. DiscoveryTypeOK'
      BY <2>4, <3>1 DEF DiscoveryInv, DiscoveryTypeOK, GoesOrComes
    <3> QED
      BY <2>4, <3>2, NothingTold DEF GoesOrComes
  <2>5. CASE UNCHANGED dvars
    <3>1. DiscoveryTypeOK'
      BY <2>5 DEF dvars, DiscoveryInv, DiscoveryTypeOK
    <3> QED
      BY <2>5, <3>1, NothingTold DEF dvars
  <2> QED
    BY <2>1, <2>2, <2>3, <2>4, <2>5, HandleMdnsDiscoveredKeeps, RetryKeeps, PollKeeps, PingFailsKeeps,
       BreaksKeeps DEF DNext
<1> QED
  BY <1>1, <1>2, PTL DEF DSpec

(* Queue, dials and connections keep their types (discovery.rs, swarm.rs).  *)
THEOREM DiscoveryTypes == DSpec => []DiscoveryTypeOK
<1>1. DiscoveryInv => DiscoveryTypeOK
  BY DEF DiscoveryInv
<1> QED
  BY <1>1, DiscoveryInvHolds, PTL

(* filter_swarm_event: what Python was told of a peer, with what waits, is  *)
(* the number of its connections, and it is told of no end too many.        *)
THEOREM ConnectionsAreReported == DSpec => []ConnectionsAreTold
<1>1. DiscoveryInv => ConnectionsAreTold
  <2> SUFFICES ASSUME DiscoveryInv, NEW p \in Peers
               PROVE  /\ told[p] >= 0
                      /\ told[p] + Pending("established", p) - Pending("closed", p)
                           = Cardinality(ConnsOf(p))
    BY DEF ConnectionsAreTold
  <2>1. Truthful(pending, told[p], Cardinality(ConnsOf(p)), p)
    BY DEF DiscoveryInv, ToldInv
  <2>2. Len(pending) \in Nat /\ DOMAIN pending = 1 .. Len(pending)
    BY DEF DiscoveryInv, DiscoveryTypeOK
  <2>3. \A what : Pending(what, p) = Cardinality(Waits(pending, Len(pending), what, p))
    BY <2>2 DEF Pending, Waits
  <2>4. told[p] \in Int /\ told[p] + Net(pending, Len(pending), p) = Cardinality(ConnsOf(p))
    BY <2>1 DEF Truthful
  <2>5. /\ Pending("established", p) \in Nat /\ Pending("closed", p) \in Nat
        /\ Net(pending, Len(pending), p) = Pending("established", p) - Pending("closed", p)
    BY <2>2, <2>3, WaitsAreFinite DEF Net
  <2>6. told[p] + Net(pending, 0, p) >= 0
    BY <2>1, <2>2 DEF Truthful
  <2>7. told[p] >= 0
    BY <2>4, <2>6, NetOfNone
  <2> QED
    BY <2>4, <2>5, <2>7
<1> QED
  BY <1>1, DiscoveryInvHolds, PTL

-----------------------------------------------------------------------------
(* InputImages.                                                             *)

(* The chunks of a request among the first n events of the log, those yet   *)
(* to come, and all of them.                                                *)
Logged(r, n) ==
  {imagelog[i].index : i \in {j \in 1 .. n : imagelog[j].of = r /\ imagelog[j].kind = "chunk"}}

Unlogged(r) == {e.index : e \in {f \in todo[r] : f.kind = "chunk"}}

Made(r) == Logged(r, Len(imagelog)) \cup Unlogged(r)

Everything(r) == Chunks(r, DOMAIN upload[r].images)

Fits(e) == e.kind = "chunk" => e.index \in Everything(e.of)

FitInv ==
  /\ \A r \in Requests : \A e \in todo[r] : Fits(e)
  /\ \A i \in 1 .. Len(imagelog) : Fits(imagelog[i])
  /\ \A w \in Workers : \A r \in Requests : buffer[w][r] \subseteq Everything(r)

(* Who has not looked at the hashes has sent nothing; and the epoch in      *)
(* which somebody has is not later than the node's.                         *)
TodoInv ==
  \A r \in Requests :
    /\ requested[r] <= epoch[upload[r].api]
    /\ \A e \in todo[r] : e.of = r
    /\ requested[r] = -1 =>
         todo[r] = {} /\ \A i \in 1 .. Len(imagelog) : imagelog[i].of # r

(* A command is the last event of its request.                              *)
LastInv ==
  \A i \in 1 .. Len(imagelog) : imagelog[i].kind = "task" =>
    /\ todo[imagelog[i].of] = {}
    /\ \A j \in 1 .. Len(imagelog) : imagelog[j].of = imagelog[i].of => j <= i

(* Until its task is started, a worker has what it was told of a request.   *)
BufferInv ==
  \A w \in Workers : \A r \in Requests :
    IF r \in started[w] THEN Known(w, r) ELSE buffer[w][r] = Logged(r, fed[w])

(* Of a request of this session nothing is lost: each of its chunks says    *)
(* how many there are, an edit's are all that the image has, the images of  *)
(* a text count as sent, and when a worker has applied the chunks it has    *)
(* the images.                                                              *)
MadeInv(r) ==
  /\ \A e \in todo[r] : e.kind = "chunk" => e.total = Cardinality(Made(r))
  /\ \A i \in 1 .. Len(imagelog) :
       imagelog[i].of = r /\ imagelog[i].kind = "chunk" => imagelog[i].total = Cardinality(Made(r))
  /\ upload[r].kind = "edit" => Made(r) = Everything(r)
  /\ upload[r].kind = "text" => ImagesOf(r) \subseteq sent[upload[r].api]

CachedInv(r) ==
  \A w \in Workers : Logged(r, fed[w]) = Made(r) =>
    \A i \in Made(r) : upload[r].images[i[1]] \in cache[w]

CurrentInv == \A r \in Requests : requested[r] = session => MadeInv(r) /\ CachedInv(r)

(* An image that counts as sent was sent by a request of this session.      *)
SentInv ==
  \A a \in Apis : epoch[a] = session => \A x \in sent[a] :
    \E q \in Requests : requested[q] = session /\ \E i \in Made(q) : upload[q].images[i[1]] = x

ImageInv ==
  ImagesTypeOK /\ FitInv /\ TodoInv /\ LastInv /\ BufferInv /\ CurrentInv /\ SentInv

-----------------------------------------------------------------------------
(* What a request is.                                                       *)
LEMMA AnUpload ==
  ASSUME upload \in Uploads, NEW r \in Requests
  PROVE  /\ upload[r] \in Upload
         /\ upload[r].images \in Seq(Images)
         /\ upload[r].api \in Apis
         /\ upload[r].kind \in {"text", "edit"}
         /\ \A n \in DOMAIN upload[r].images :
              n \in Nat \ {0} /\ upload[r].images[n] \in Images /\ Size[upload[r].images[n]] \in Nat \ {0}
<1>1. upload[r] \in Upload
  BY ImagesAssumption
<1>2. upload[r].images \in Seq(Images)
  BY <1>1 DEF Upload
<1>3. \A n \in DOMAIN upload[r].images : n \in Nat \ {0} /\ upload[r].images[n] \in Images
  BY <1>2
<1> QED
  BY <1>1, <1>2, <1>3, ImagesAssumption DEF Upload

(* Which chunks there are.                                                  *)
LEMMA TheChunks ==
  ASSUME upload \in Uploads, NEW r \in Requests, NEW P \in SUBSET DOMAIN upload[r].images
  PROVE  /\ Chunks(r, P) \subseteq Nat \X Nat
         /\ Chunks(r, P) \subseteq Everything(r)
         /\ \A n \in P : <<n, 1>> \in Chunks(r, P)
         /\ \A i \in Chunks(r, P) : i[1] \in P
<1> DEFINE Of(n) == {n} \X (1 .. Size[upload[r].images[n]])
<1>1. \A i : i \in Chunks(r, P) <=> \E n \in P : i \in Of(n)
  BY DEF Chunks
<1>2. \A i : i \in Everything(r) <=> \E n \in DOMAIN upload[r].images : i \in Of(n)
  BY DEF Everything, Chunks
<1>3. \A n \in P : n \in Nat /\ Size[upload[r].images[n]] \in Nat \ {0}
  BY AnUpload
<1>4. \A n \in P : \A i \in Of(n) : i \in Nat \X Nat /\ i[1] = n
  BY <1>3
<1>5. \A n \in P : <<n, 1>> \in Of(n)
  BY <1>3
<1> HIDE DEF Of
<1> QED
  BY <1>1, <1>2, <1>4, <1>5

(* How many they are is a number.                                           *)
LEMMA ChunksAreFinite ==
  ASSUME upload \in Uploads, NEW r \in Requests, NEW P \in SUBSET DOMAIN upload[r].images
  PROVE  IsFiniteSet(Chunks(r, P)) /\ Cardinality(Chunks(r, P)) \in Nat
<1> DEFINE Of(n) == {n} \X (1 .. Size[upload[r].images[n]])
           f == [n \in P |-> Of(n)]
           S == {Of(n) : n \in P}
<1>1. IsFiniteSet(P)
  <2>1. DOMAIN upload[r].images = 1 .. Len(upload[r].images) /\ Len(upload[r].images) \in Nat
    BY AnUpload
  <2>2. 1 \in Int /\ Len(upload[r].images) \in Int
    BY <2>1
  <2>3. IsFiniteSet(1 .. Len(upload[r].images))
    BY <2>2, FS_Interval
  <2> QED
    BY <2>1, <2>3, FS_Subset
<1>2. f \in Surjection(P, S)
  BY DEF Surjection
<1>3. IsFiniteSet(S)
  BY <1>1, <1>2, FS_Surjection
<1>4. ASSUME NEW T \in S
      PROVE  IsFiniteSet(T)
  <2>1. PICK n \in P : T = Of(n)
    OBVIOUS
  <2>2. 1 \in Int /\ Size[upload[r].images[n]] \in Int
    BY AnUpload
  <2>3. IsFiniteSet(1 .. Size[upload[r].images[n]])
    BY <2>2, FS_Interval
  <2>4. IsFiniteSet({n})
    BY FS_Singleton
  <2> QED
    BY <2>1, <2>3, <2>4, FS_Product
<1>5. Chunks(r, P) = UNION S
  BY DEF Chunks
<1>6. IsFiniteSet(Chunks(r, P))
  BY <1>3, <1>4, <1>5, FS_UNION
<1> QED
  BY <1>6, FS_CardinalityType

(* An image that was not sent before is sent from its first place.          *)
LEMMA UnsentAreMade ==
  ASSUME upload \in Uploads, NEW r \in Requests, NEW a, NEW x \in ImagesOf(r), x \notin sent[a]
  PROVE  \E n \in Unsent(r, a) : upload[r].images[n] = x
<1> DEFINE N == {n \in DOMAIN upload[r].images : upload[r].images[n] = x}
<1>1. N \in SUBSET Nat /\ N # {}
  BY AnUpload DEF ImagesOf
<1>2. PICK n \in N : \A m \in N : n <= m
  BY <1>1, LeastOfNumbers
<1>3. n \in Nat
  BY <1>1
<1>4. \A m \in 1 .. n - 1 : upload[r].images[m] # upload[r].images[n]
  <2>1. DOMAIN upload[r].images = 1 .. Len(upload[r].images) /\ Len(upload[r].images) \in Nat
    BY AnUpload
  <2>2. \A m \in 1 .. n - 1 : m \in DOMAIN upload[r].images /\ ~ (n <= m)
    BY <2>1, <1>3
  <2> QED
    BY <1>2, <2>2
<1>5. n \in Unsent(r, a)
  BY <1>4 DEF Unsent
<1> QED
  BY <1>5

-----------------------------------------------------------------------------
(* What the log holds.                                                      *)
LEMMA Recorded ==
  ASSUME ImagesTypeOK
  PROVE  \A i \in 1 .. Len(imagelog) :
           imagelog[i] \in ImageEvent /\ imagelog[i].of \in Requests /\ imagelog[i].index \in Nat \X Nat
<1>1. \A i \in 1 .. Len(imagelog) : imagelog[i] \in ImageEvent
  BY DEF ImagesTypeOK
<1> QED
  BY <1>1 DEF ImageEvent

(* The invariant holds at first, and survives every step.                   *)
LEMMA ImagesStart == IInit => ImageInv
<1> SUFFICES ASSUME IInit PROVE ImageInv
  OBVIOUS
<1> USE DEF IInit
<1>1. ImagesTypeOK
  BY DEF ImagesTypeOK
<1>2. \A r \in Requests : upload[r].api \in Apis
  BY AnUpload
<1>3. \A r \in Requests : Logged(r, 0) = {}
  BY DEF Logged
<1>4. FitInv /\ TodoInv /\ LastInv
  BY <1>2 DEF FitInv, TodoInv, LastInv
<1>5. BufferInv
  BY <1>3 DEF BufferInv
<1>6. CurrentInv /\ SentInv
  BY DEF CurrentInv, SentInv
<1> QED
  BY <1>1, <1>4, <1>5, <1>6 DEF ImageInv

LEMMA NewSessionKeeps ==
  ASSUME ImageInv, NewSession
  PROVE  ImageInv'
<1> USE DEF ImageInv, NewSession
<1>1. ImagesTypeOK'
  BY ImagesAssumption DEF ImagesTypeOK
<1>2. \A r \in Requests : Logged(r, 0)' = {}
  BY DEF Logged
<1>3. FitInv'
  BY DEF FitInv, Fits, Everything, Chunks
<1>4. TodoInv' /\ LastInv'
  BY DEF TodoInv, LastInv
<1>5. BufferInv'
  BY <1>2 DEF BufferInv, Logged
<1>6. \A r \in Requests : requested[r] # session'
  BY DEF ImagesTypeOK
<1>7. \A a \in Apis : epoch[a] # session'
  BY DEF ImagesTypeOK
<1>8. CurrentInv' /\ SentInv'
  BY <1>6, <1>7 DEF CurrentInv, SentInv
<1> QED
  BY <1>1, <1>3, <1>4, <1>5, <1>8

LEMMA ResetKeeps ==
  ASSUME ImageInv, NEW a \in Apis, ResetApi(a)
  PROVE  ImageInv'
<1> USE DEF ImageInv, ResetApi
<1>1. ImagesTypeOK'
  BY DEF ImagesTypeOK, ForgetImages
<1>2. \A r \in Requests : \A n : Logged(r, n)' = Logged(r, n)
  BY DEF Logged
<1>3. \A r \in Requests : Made(r)' = Made(r)
  BY DEF Made, Logged, Unlogged
<1>4. \A r \in Requests : upload[r].api \in Apis
  BY AnUpload DEF ImagesTypeOK
<1>5. FitInv'
  BY DEF FitInv, Fits, Everything, Chunks
<1>11. LastInv'
  BY DEF LastInv
<1>12. \A b \in Apis : epoch[b] \in Int /\ epoch[b] <= epoch'[b]
  BY DEF ImagesTypeOK
<1>13. \A r \in Requests : requested[r] \in Int
  BY DEF ImagesTypeOK
<1>14. ASSUME NEW r \in Requests
       PROVE  requested'[r] <= epoch'[upload'[r].api]
  <2>1. requested[r] <= epoch[upload[r].api] /\ upload[r].api \in Apis
    BY <1>4 DEF TodoInv
  <2>2. epoch'[upload[r].api] \in Int
    BY <1>1, <2>1 DEF ImagesTypeOK
  <2> QED
    BY <2>1, <2>2, <1>12, <1>13
<1>6. TodoInv'
  BY <1>14 DEF TodoInv
<1>7. BufferInv'
  BY <1>2 DEF BufferInv, Known, Task
<1>8. ASSUME NEW r \in Requests, requested[r] = session
      PROVE  MadeInv(r)' /\ CachedInv(r)'
  <2>1. upload[r].api # a
    BY <1>4, <1>8 DEF TodoInv, ImagesTypeOK
  <2>2. sent'[upload[r].api] = sent[upload[r].api]
    BY <2>1, <1>4 DEF ImagesTypeOK
  <2>3. MadeInv(r)'
    BY <2>2, <1>3, <1>8 DEF CurrentInv, MadeInv, Everything, Chunks, ImagesOf
  <2>4. CachedInv(r)'
    BY <1>2, <1>3, <1>8 DEF CurrentInv, CachedInv
  <2> QED
    BY <2>3, <2>4
<1>9. CurrentInv'
  BY <1>8 DEF CurrentInv
<1>10. SentInv'
  BY <1>3 DEF SentInv, ForgetImages, ImagesTypeOK
<1> QED
  BY <1>1, <1>5, <1>6, <1>7, <1>9, <1>10, <1>11

(* What a handler that looks at the hashes is about to send.                *)
LEMMA WhatToSend ==
  ASSUME upload \in Uploads, NEW r \in Requests, NEW P \in SUBSET DOMAIN upload[r].images
  PROVE  /\ ToSend(r, P) \in SUBSET ImageEvent
         /\ \A e \in ToSend(r, P) : e.of = r
         /\ \A e \in ToSend(r, P) : e.kind = "chunk" =>
              e.index \in Chunks(r, P) /\ e.total = Cardinality(Chunks(r, P))
         /\ {e.index : e \in {f \in ToSend(r, P) : f.kind = "chunk"}} = Chunks(r, P)
<1> DEFINE C == Cardinality(Chunks(r, P))
<1>1. C \in Nat /\ Chunks(r, P) \subseteq Nat \X Nat
  BY ChunksAreFinite, TheChunks
<1>2. \A i \in Chunks(r, P) :
        /\ Chunk(r, i, C) \in ImageEvent /\ Chunk(r, i, C).of = r /\ Chunk(r, i, C).kind = "chunk"
        /\ Chunk(r, i, C).index = i /\ Chunk(r, i, C).total = C
  BY <1>1 DEF Chunk, ImageEvent
<1>3. Task(r) \in ImageEvent /\ Task(r).of = r /\ Task(r).kind # "chunk"
  BY DEF Task, ImageEvent
<1>4. \A e : e \in ToSend(r, P) <=> e = Task(r) \/ \E i \in Chunks(r, P) : e = Chunk(r, i, C)
  BY DEF ToSend
<1>5. \A e \in ToSend(r, P) : e \in ImageEvent /\ e.of = r
  BY <1>2, <1>3, <1>4
<1>6. \A e \in ToSend(r, P) : e.kind = "chunk" => e.index \in Chunks(r, P) /\ e.total = C
  BY <1>2, <1>3, <1>4
<1>7. \A i \in Chunks(r, P) : \E e \in ToSend(r, P) : e.kind = "chunk" /\ e.index = i
  BY <1>2, <1>4
<1> HIDE DEF C
<1>8. {e.index : e \in {f \in ToSend(r, P) : f.kind = "chunk"}} = Chunks(r, P)
  BY <1>6, <1>7
<1> QED
  BY <1>5, <1>6, <1>8 DEF C

LEMMA HashesKeep ==
  ASSUME ImageInv, NEW r \in Requests, LookAtHashes(r)
  PROVE  ImageInv'
<1> DEFINE a == upload[r].api
<1> USE DEF ImageInv
<1>1. PICK P \in SUBSET DOMAIN upload[r].images :
        /\ todo' = [todo EXCEPT ![r] = ToSend(r, P)]
        /\ upload[r].kind = "text" =>
             P = Unsent(r, a) /\ sent' = [sent EXCEPT ![a] = @ \cup ImagesOf(r)]
        /\ upload[r].kind = "edit" => P = DOMAIN upload[r].images /\ sent' = sent
  BY DEF LookAtHashes, SendText, SendEdit, Unsent
<1>2. /\ requested[r] = -1
      /\ requested' = [requested EXCEPT ![r] = epoch[a]]
      /\ UNCHANGED <<upload, session, epoch, imagelog, fed, buffer, cache, started>>
  BY DEF LookAtHashes
<1>3. upload \in Uploads /\ a \in Apis /\ upload[r].kind \in {"text", "edit"} /\ ImagesOf(r) \subseteq Images
  BY AnUpload DEF ImagesTypeOK, ImagesOf
<1>4. sent' \in [Apis -> SUBSET Images] /\ \A b \in Apis : sent[b] \subseteq sent'[b]
  BY <1>1, <1>3 DEF ImagesTypeOK
<1>5. /\ ToSend(r, P) \in SUBSET ImageEvent
      /\ \A e \in ToSend(r, P) : e.of = r
      /\ \A e \in ToSend(r, P) : e.kind = "chunk" =>
           e.index \in Chunks(r, P) /\ e.total = Cardinality(Chunks(r, P))
      /\ {e.index : e \in {f \in ToSend(r, P) : f.kind = "chunk"}} = Chunks(r, P)
  BY <1>3, WhatToSend
<1>6. ImagesTypeOK'
  <2>1. todo' \in [Requests -> SUBSET ImageEvent]
    BY <1>1, <1>5 DEF ImagesTypeOK
  <2>2. requested' \in [Requests -> -1 .. session]
    BY <1>2, <1>3 DEF ImagesTypeOK
  <2> QED
    BY <2>1, <2>2, <1>2, <1>4 DEF ImagesTypeOK
<1>7. \A q \in Requests : q # r => todo'[q] = todo[q] /\ requested'[q] = requested[q]
  BY <1>1, <1>2 DEF ImagesTypeOK
<1>8. todo'[r] = ToSend(r, P) /\ requested'[r] = epoch[a]
  BY <1>1, <1>2 DEF ImagesTypeOK
<1>9. todo[r] = {} /\ \A i \in 1 .. Len(imagelog) : imagelog[i].of # r
  BY <1>2 DEF TodoInv
<1>10. \A q \in Requests : \A n : Logged(q, n)' = Logged(q, n)
  BY <1>2 DEF Logged
<1>11. \A q \in Requests : q # r => Made(q)' = Made(q)
  BY <1>2, <1>7 DEF Made, Logged, Unlogged
<1>12. Logged(r, Len(imagelog)) = {}
  BY <1>9 DEF Logged
<1>13. Made(r)' = Chunks(r, P)
  <2>1. Logged(r, Len(imagelog))' = {}
    BY <1>12, <1>2 DEF Logged
  <2>2. Unlogged(r)' = Chunks(r, P)
    BY <1>5, <1>8 DEF Unlogged
  <2> QED
    BY <2>1, <2>2 DEF Made
<1>14. \A q \in Requests : Everything(q)' = Everything(q) /\ ImagesOf(q)' = ImagesOf(q)
  BY <1>2 DEF Everything, Chunks, ImagesOf
<1>15. FitInv'
  <2>1. \A e \in ToSend(r, P) : Fits(e)'
    BY <1>3, <1>5, <1>14, TheChunks DEF Fits
  <2>2. \A q \in Requests : \A e \in todo[q] : e.of \in Requests
    BY DEF ImagesTypeOK, ImageEvent
  <2>3. \A i \in 1 .. Len(imagelog) : imagelog[i].of \in Requests
    BY Recorded
  <2>4. \A q \in Requests : \A e \in todo'[q] : Fits(e)'
    BY <2>1, <2>2, <1>7, <1>8, <1>14 DEF FitInv, Fits
  <2> QED
    BY <2>3, <2>4, <1>2, <1>14 DEF FitInv, Fits
<1>16. TodoInv'
  <2>1. epoch[a] \in Nat
    BY <1>3 DEF ImagesTypeOK
  <2> QED
    BY <2>1, <1>2, <1>5, <1>7, <1>8 DEF TodoInv
<1>17. LastInv'
  BY Recorded, <1>2, <1>7, <1>9 DEF LastInv
<1>18. BufferInv'
  BY <1>2, <1>10 DEF BufferInv, Known, Task
<1>19. ASSUME NEW q \in Requests, requested'[q] = session'
       PROVE  MadeInv(q)' /\ CachedInv(q)'
  <2>1. CASE q = r
    <3>1. \A w \in Workers : Logged(r, fed[w]) = {}
      BY <1>9 DEF Logged, ImagesTypeOK
    <3>2. CachedInv(r)'
      BY <3>1, <1>2, <1>10 DEF CachedInv
    <3>3. upload[r].kind = "text" => ImagesOf(r) \subseteq sent'[a]
      BY <1>1, <1>3 DEF ImagesTypeOK
    <3>4. MadeInv(r)'
      BY <3>3, <1>1, <1>2, <1>5, <1>8, <1>9, <1>13, <1>14 DEF MadeInv, Everything
    <3> QED
      BY <2>1, <3>2, <3>4
  <2>2. CASE q # r
    <3>1. MadeInv(q) /\ CachedInv(q) /\ upload[q].api \in Apis
      BY <2>2, <1>2, <1>3, <1>7, <1>19, AnUpload DEF CurrentInv
    <3>2. MadeInv(q)'
      BY <2>2, <3>1, <1>2, <1>4, <1>7, <1>11, <1>14 DEF MadeInv
    <3>3. CachedInv(q)'
      BY <2>2, <3>1, <1>2, <1>10, <1>11 DEF CachedInv
    <3> QED
      BY <3>2, <3>3
  <2> QED
    BY <2>1, <2>2
<1>20. CurrentInv'
  BY <1>19 DEF CurrentInv
<1>21. SentInv'
  <2> SUFFICES ASSUME NEW b \in Apis, epoch[b] = session, NEW x \in sent'[b]
               PROVE  \E q \in Requests : requested'[q] = session /\ \E i \in Made(q)' : upload[q].images[i[1]] = x
    BY <1>2 DEF SentInv
  <2>1. CASE x \in sent[b]
    <3>1. PICK q \in Requests : requested[q] = session /\ \E i \in Made(q) : upload[q].images[i[1]] = x
      BY <2>1 DEF SentInv
    <3>2. q # r
      BY <3>1, <1>2 DEF ImagesTypeOK
    <3> QED
      BY <3>1, <3>2, <1>7, <1>11
  <2>2. CASE x \notin sent[b]
    <3>1. b = a /\ x \in ImagesOf(r) /\ P = Unsent(r, a)
      BY <2>2, <1>1, <1>3 DEF ImagesTypeOK
    <3>2. PICK n \in P : upload[r].images[n] = x
      BY <3>1, <2>2, <1>3, UnsentAreMade
    <3>3. <<n, 1>> \in Made(r)'
      BY <1>3, <1>13, TheChunks
    <3> QED
      BY <3>1, <3>2, <3>3, <1>8
  <2> QED
    BY <2>1, <2>2
<1> QED
  BY <1>6, <1>15, <1>16, <1>17, <1>18, <1>20, <1>21

LEMMA SendKeeps ==
  ASSUME ImageInv, NEW r \in Requests, SendNext(r)
  PROVE  ImageInv'
<1> USE DEF ImageInv
<1>0. PICK n \in Nat : n = Len(imagelog)
  BY DEF ImagesTypeOK
<1>1. PICK e \in todo[r] :
        /\ \A f \in todo[r] \ {e} : Ahead(e, f)
        /\ imagelog' = Append(imagelog, e)
        /\ todo' = [todo EXCEPT ![r] = @ \ {e}]
        /\ UNCHANGED <<upload, session, epoch, sent, requested, fed, buffer, cache, started>>
  BY DEF SendNext
<1>2. e \in ImageEvent /\ e.of = r /\ imagelog \in Seq(ImageEvent)
  BY DEF ImagesTypeOK, TodoInv
<1>3. /\ Len(imagelog') = n + 1 /\ imagelog'[n + 1] = e
      /\ \A i \in 1 .. n : imagelog'[i] = imagelog[i]
  BY <1>0, <1>1, <1>2
<1>4. todo'[r] = todo[r] \ {e} /\ \A q \in Requests : q # r => todo'[q] = todo[q]
  BY <1>1 DEF ImagesTypeOK
<1>5. \A i \in 1 .. n : imagelog[i] \in ImageEvent /\ imagelog[i].of \in Requests
  BY <1>0, Recorded
<1>6. \A w \in Workers : fed[w] \in 0 .. n
  BY <1>0 DEF ImagesTypeOK
<1>7. ASSUME NEW q \in Requests, NEW m \in 0 .. n
      PROVE  Logged(q, m)' = Logged(q, m)
  BY <1>3 DEF Logged
<1>8. ASSUME NEW q \in Requests
      PROVE  Made(q)' = Made(q)
  <2>1. \A x : x \in Logged(q, n + 1)' <=>
                 x \in Logged(q, n) \/ (q = r /\ e.kind = "chunk" /\ x = e.index)
    BY <1>2, <1>3 DEF Logged
  <2>2. \A x : x \in Unlogged(q) <=>
                 x \in Unlogged(q)' \/ (q = r /\ e.kind = "chunk" /\ x = e.index)
    BY <1>4 DEF Unlogged
  <2>3. Logged(q, Len(imagelog))' = Logged(q, n + 1)'
    BY <1>3 DEF Logged
  <2> QED
    BY <1>0, <2>1, <2>2, <2>3 DEF Made
<1>9. \A q \in Requests : Everything(q)' = Everything(q) /\ ImagesOf(q)' = ImagesOf(q)
  BY <1>1 DEF Everything, Chunks, ImagesOf
<1>10. ImagesTypeOK'
  <2>1. todo' \in [Requests -> SUBSET ImageEvent] /\ imagelog' \in Seq(ImageEvent)
    BY <1>1, <1>2 DEF ImagesTypeOK
  <2>2. fed' \in [Workers -> 0 .. Len(imagelog')]
    BY <1>1, <1>2, <1>3 DEF ImagesTypeOK
  <2> QED
    BY <1>1, <2>1, <2>2 DEF ImagesTypeOK
<1>11. FitInv'
  <2>1. \A q \in Requests : \A f \in todo[q] : f.of \in Requests
    BY DEF ImagesTypeOK, ImageEvent
  <2>2. \A f : f.of \in Requests /\ Fits(f) => Fits(f)'
    BY <1>9 DEF Fits
  <2>3. \A q \in Requests : \A f \in todo'[q] : Fits(f)'
    BY <2>1, <2>2, <1>4 DEF FitInv
  <2>4. ASSUME NEW i \in 1 .. n + 1, NEW f, f = imagelog'[i]
        PROVE  Fits(f)'
    <3>1. CASE i \in 1 .. n
      <4>1. f = imagelog[i] /\ f.of \in Requests
        BY <3>1, <2>4, <1>3, <1>5
      <4>2. Fits(f)
        BY <3>1, <4>1, <1>0 DEF FitInv
      <4> QED
        BY <4>1, <4>2, <2>2
    <3>2. CASE i \notin 1 .. n
      <4>1. f = e
        BY <3>2, <2>4, <1>3
      <4> QED
        BY <4>1, <2>1, <2>2 DEF FitInv
    <3> QED
      BY <3>1, <3>2
  <2>5. \A i \in 1 .. Len(imagelog') : Fits(imagelog[i])'
    BY <2>4, <1>3 DEF Fits
  <2> QED
    BY <2>3, <2>5, <1>1, <1>9 DEF FitInv
<1>12. TodoInv'
  <2>1. requested[r] # -1
    BY DEF TodoInv
  <2>2. \A i \in 1 .. n + 1 : imagelog'[i].of = r \/ (i \in 1 .. n /\ imagelog'[i] = imagelog[i])
    BY <1>2, <1>3
  <2> QED
    BY <2>1, <2>2, <1>0, <1>1, <1>3, <1>4 DEF TodoInv
<1>13. LastInv'
  <2> SUFFICES ASSUME NEW i \in 1 .. n + 1, imagelog'[i].kind = "task"
               PROVE  /\ todo'[imagelog'[i].of] = {}
                      /\ \A j \in 1 .. n + 1 : imagelog'[j].of = imagelog'[i].of => j <= i
    BY <1>3 DEF LastInv
  <2>1. CASE i = n + 1
    <3>1. imagelog'[i] = e /\ e.kind = "task"
      BY <2>1, <1>3
    <3>2. todo[r] \ {e} = {}
      BY <3>1, <1>1 DEF Ahead
    <3> QED
      BY <2>1, <3>1, <3>2, <1>2, <1>4
  <2>2. CASE i # n + 1
    <3>1. i \in 1 .. n /\ imagelog'[i] = imagelog[i]
      BY <2>2, <1>2, <1>3
    <3>2. imagelog[i].of \in Requests /\ imagelog[i].of # r
      BY <3>1, <1>0, <1>5 DEF LastInv
    <3>3. \A j \in 1 .. n : imagelog[j].of = imagelog[i].of => j <= i
      BY <3>1, <1>0 DEF LastInv
    <3>4. \A j \in 1 .. n + 1 : imagelog'[j].of # r => j \in 1 .. n /\ imagelog'[j] = imagelog[j]
      BY <1>2, <1>3
    <3>5. todo[imagelog[i].of] = {}
      BY <3>1, <1>0 DEF LastInv
    <3> QED
      BY <3>1, <3>2, <3>3, <3>4, <3>5, <1>4
  <2> QED
    BY <2>1, <2>2
<1>14. BufferInv'
  <2>1. \A w \in Workers : \A q \in Requests : Known(w, q) => Known(w, q)'
    BY <1>1, <1>2, <1>3, <1>6 DEF Known, Task
  <2> QED
    BY <2>1, <1>1, <1>6, <1>7 DEF BufferInv
<1>15. ASSUME NEW q \in Requests, requested[q] = session
       PROVE  MadeInv(q)' /\ CachedInv(q)'
  <2>1. MadeInv(q) /\ CachedInv(q)
    BY <1>15 DEF CurrentInv
  <2>2. \A f \in todo'[q] : f.kind = "chunk" => f.total = Cardinality(Made(q))
    BY <2>1, <1>4 DEF MadeInv
  <2>3. \A i \in 1 .. n + 1 :
          imagelog'[i].of = q /\ imagelog'[i].kind = "chunk" => imagelog'[i].total = Cardinality(Made(q))
    <3>1. q = r /\ e.kind = "chunk" => e.total = Cardinality(Made(q))
      BY <2>1 DEF MadeInv
    <3>2. \A i \in 1 .. n :
            imagelog[i].of = q /\ imagelog[i].kind = "chunk" => imagelog[i].total = Cardinality(Made(q))
      BY <2>1, <1>0 DEF MadeInv
    <3> QED
      BY <3>1, <3>2, <1>2, <1>3
  <2>4. MadeInv(q)'
    BY <2>1, <2>2, <2>3, <1>1, <1>3, <1>8, <1>9 DEF MadeInv
  <2>5. CachedInv(q)'
    BY <2>1, <1>1, <1>6, <1>7, <1>8 DEF CachedInv
  <2> QED
    BY <2>4, <2>5
<1>16. CurrentInv'
  BY <1>1, <1>15 DEF CurrentInv
<1>17. SentInv'
  BY <1>1, <1>8 DEF SentInv
<1> QED
  BY <1>10, <1>11, <1>12, <1>13, <1>14, <1>16, <1>17

LEMMA StartKeeps ==
  ASSUME ImageInv, NEW w \in Workers, NEW r \in Requests, StartTask(w, r)
  PROVE  ImageInv'
<1> USE DEF ImageInv, StartTask
<1>1. ImagesTypeOK'
  BY DEF ImagesTypeOK
<1>2. \A q \in Requests : \A n : Logged(q, n)' = Logged(q, n)
  BY DEF Logged
<1>3. \A q \in Requests : Made(q)' = Made(q)
  BY DEF Made, Logged, Unlogged
<1>4. /\ started'[w] = started[w] \cup {r} /\ buffer'[w][r] = {}
      /\ \A q \in Requests : q # r => buffer'[w][q] = buffer[w][q]
      /\ \A v \in Workers : v # w => started'[v] = started[v] /\ buffer'[v] = buffer[v]
  BY DEF ImagesTypeOK
<1>5. FitInv'
  BY <1>4 DEF FitInv, Fits, Everything, Chunks
<1>6. TodoInv' /\ LastInv'
  BY DEF TodoInv, LastInv
<1>7. BufferInv'
  <2>1. \A v \in Workers : \A q \in Requests : Known(v, q) => Known(v, q)'
    BY DEF Known, Task
  <2> QED
    BY <2>1, <1>2, <1>4 DEF BufferInv
<1>10. \A q \in Requests : MadeInv(q) => MadeInv(q)'
  BY <1>3 DEF MadeInv, Everything, Chunks, ImagesOf
<1>11. \A q \in Requests : CachedInv(q) => CachedInv(q)'
  BY <1>2, <1>3 DEF CachedInv
<1>8. CurrentInv'
  BY <1>10, <1>11 DEF CurrentInv
<1>9. SentInv'
  BY <1>3 DEF SentInv
<1> QED
  BY <1>1, <1>5, <1>6, <1>7, <1>8, <1>9

LEMMA ApplyKeeps ==
  ASSUME ImageInv, NEW w \in Workers, EventApplier(w)
  PROVE  ImageInv'
<1> USE DEF ImageInv
<1> DEFINE n == fed[w] + 1
           e == imagelog[fed[w] + 1]
           chunks == buffer[w][e.of] \cup {e.index}
           pictures == {upload[e.of].images[i[1]] : i \in chunks}
<1>1. /\ fed' = [fed EXCEPT ![w] = n]
      /\ UNCHANGED <<upload, session, epoch, sent, requested, todo, imagelog, started>>
      /\ \/ /\ e.kind = "chunk"
            /\ buffer' = [buffer EXCEPT ![w] = [@ EXCEPT ![e.of] = chunks]]
            /\ cache' = [cache EXCEPT ![w] =
                 IF Cardinality(chunks) = e.total THEN @ \cup pictures ELSE @]
         \/ e.kind = "task" /\ UNCHANGED <<buffer, cache>>
  BY DEF EventApplier
<1>0. /\ e \in ImageEvent /\ e.of \in Requests /\ e = imagelog[n]
      /\ n \in Nat /\ n \in 1 .. Len(imagelog) /\ fed[w] = n - 1
  <2>1. fed[w] \in Nat /\ fed[w] + 1 \in 1 .. Len(imagelog)
    BY DEF ImagesTypeOK, EventApplier
  <2> QED
    BY <2>1, Recorded
<1> HIDE DEF n, e
<1>2. fed'[w] = n /\ \A v \in Workers : v # w => fed'[v] = fed[v]
  BY <1>1 DEF ImagesTypeOK
<1>3. e.kind = "chunk" => e.index \in Everything(e.of) /\ e.index \in Nat \X Nat
  BY <1>0, Recorded DEF FitInv, Fits
<1>4. e.kind = "chunk" => chunks \subseteq Everything(e.of) /\ chunks \subseteq Nat \X Nat
  BY <1>0, <1>3 DEF FitInv, ImagesTypeOK
<1>5. e.kind = "chunk" => pictures \subseteq Images
  <2> SUFFICES ASSUME e.kind = "chunk", NEW i \in chunks
               PROVE  upload[e.of].images[i[1]] \in Images
    OBVIOUS
  <2>1. i \in Chunks(e.of, DOMAIN upload[e.of].images)
    BY <1>4 DEF Everything
  <2>2. i[1] \in DOMAIN upload[e.of].images
    BY <2>1, <1>0, TheChunks DEF ImagesTypeOK
  <2> QED
    BY <2>2, <1>0, AnUpload DEF ImagesTypeOK
<1> HIDE DEF chunks, pictures
<1>6. ImagesTypeOK'
  <2>1. fed' \in [Workers -> 0 .. Len(imagelog)]
    BY <1>0, <1>1 DEF ImagesTypeOK
  <2>2. buffer' \in [Workers -> [Requests -> SUBSET (Nat \X Nat)]]
    <3>1. buffer \in [Workers -> [Requests -> SUBSET (Nat \X Nat)]]
      BY DEF ImagesTypeOK
    <3>2. e.kind = "chunk" => [buffer[w] EXCEPT ![e.of] = chunks] \in [Requests -> SUBSET (Nat \X Nat)]
      BY <3>1, <1>0, <1>4
    <3> QED
      BY <3>1, <3>2, <1>1
  <2>3. cache' \in [Workers -> SUBSET Images]
    <3>1. cache \in [Workers -> SUBSET Images]
      BY DEF ImagesTypeOK
    <3>2. e.kind = "chunk" =>
            (IF Cardinality(chunks) = e.total THEN cache[w] \cup pictures ELSE cache[w]) \in SUBSET Images
      BY <3>1, <1>5
    <3> QED
      BY <3>1, <3>2, <1>1
  <2> QED
    BY <1>1, <2>1, <2>2, <2>3 DEF ImagesTypeOK
<1>7. /\ \A v \in Workers : v # w => buffer'[v] = buffer[v] /\ cache'[v] = cache[v]
      /\ \A q \in Requests : q # e.of \/ e.kind = "task" => buffer'[w][q] = buffer[w][q]
      /\ e.kind = "chunk" => buffer'[w][e.of] = chunks
      /\ cache[w] \subseteq cache'[w]
      /\ e.kind = "chunk" /\ Cardinality(chunks) = e.total =>
           pictures \subseteq cache'[w]
  BY <1>0, <1>1 DEF ImagesTypeOK
<1>8. e.kind \in {"chunk", "task"}
  BY <1>0 DEF ImageEvent
<1>9. \A q \in Requests : \A m : Logged(q, m)' = Logged(q, m)
  BY <1>1 DEF Logged
<1>10. \A q \in Requests : Made(q)' = Made(q) /\ Everything(q)' = Everything(q)
  BY <1>1 DEF Made, Logged, Unlogged, Everything, Chunks
<1>11. ASSUME NEW q \in Requests
       PROVE  Logged(q, n) = IF q = e.of /\ e.kind = "chunk"
                             THEN Logged(q, fed[w]) \cup {e.index} ELSE Logged(q, fed[w])
  <2>1. \A j : j \in 1 .. n <=> j \in 1 .. fed[w] \/ j = n
    BY <1>0
  <2> QED
    BY <2>1, <1>0 DEF Logged
<1>12. e.kind = "chunk" => e.of \notin started[w]
  <2> SUFFICES ASSUME e.kind = "chunk", e.of \in started[w] PROVE FALSE
    OBVIOUS
  <2>1. PICK i \in 1 .. fed[w] : imagelog[i] = Task(e.of)
    BY <1>0 DEF BufferInv, Known
  <2>2. i \in 1 .. Len(imagelog) /\ imagelog[i].kind = "task" /\ imagelog[i].of = e.of
    BY <2>1, <1>0 DEF Task
  <2>3. n <= i
    BY <2>2, <1>0 DEF LastInv
  <2> QED
    BY <2>1, <2>3, <1>0
<1>13. e.kind = "chunk" => chunks = Logged(e.of, n)
  BY <1>0, <1>11, <1>12 DEF BufferInv, chunks
<1>14. FitInv'
  <2>1. \A v \in Workers : \A q \in Requests : buffer'[v][q] \subseteq Everything(q)
    BY <1>4, <1>7, <1>8 DEF FitInv
  <2>2. \A q \in Requests : \A f \in todo[q] : f.of \in Requests
    BY DEF ImagesTypeOK, ImageEvent
  <2>3. \A i \in 1 .. Len(imagelog) : imagelog[i].of \in Requests
    BY Recorded
  <2> QED
    BY <2>1, <2>2, <2>3, <1>1, <1>10 DEF FitInv, Fits
<1>15. TodoInv' /\ LastInv'
  BY <1>1 DEF TodoInv, LastInv
<1>16. BufferInv'
  <2> SUFFICES ASSUME NEW v \in Workers, NEW q \in Requests
               PROVE  IF q \in started[v] THEN Known(v, q)' ELSE buffer'[v][q] = Logged(q, fed'[v])
    BY <1>1, <1>9 DEF BufferInv, Logged
  <2>1. CASE v # w
    BY <2>1, <1>1, <1>2, <1>7 DEF BufferInv, Known, Task
  <2>2. CASE v = w /\ q \in started[w]
    <3>1. PICK i \in 1 .. fed[w] : imagelog[i] = Task(q)
      BY <2>2 DEF BufferInv, Known
    <3>2. i \in 1 .. n
      BY <1>0
    <3> QED
      BY <2>2, <3>1, <3>2, <1>1, <1>2 DEF Known, Task
  <2>3. CASE v = w /\ q \notin started[w]
    BY <2>3, <1>2, <1>7, <1>8, <1>11, <1>13 DEF BufferInv
  <2> QED
    BY <2>1, <2>2, <2>3
<1>17. ASSUME NEW q \in Requests, requested[q] = session
       PROVE  MadeInv(q)' /\ CachedInv(q)'
  <2>1. MadeInv(q) /\ CachedInv(q)
    BY <1>17 DEF CurrentInv
  <2>2. MadeInv(q)'
    BY <2>1, <1>1, <1>10 DEF MadeInv, ImagesOf
  <2>3. ASSUME NEW v \in Workers, Logged(q, fed'[v]) = Made(q), NEW i \in Made(q)
        PROVE  upload[q].images[i[1]] \in cache'[v]
    <3>1. CASE v # w
      BY <3>1, <2>1, <2>3, <1>2, <1>7 DEF CachedInv
    <3>2. CASE v = w /\ q = e.of /\ e.kind = "chunk"
      <4>1. chunks = Made(q)
        BY <3>2, <2>3, <1>2, <1>13
      <4>2. e.total = Cardinality(chunks)
        BY <3>2, <4>1, <2>1, <1>0 DEF MadeInv
      <4> QED
        BY <3>2, <4>1, <4>2, <1>7 DEF pictures
    <3>3. CASE v = w /\ ~ (q = e.of /\ e.kind = "chunk")
      <4>1. Logged(q, fed[w]) = Made(q)
        BY <3>3, <2>3, <1>2, <1>11
      <4> QED
        BY <3>3, <4>1, <2>1, <1>7 DEF CachedInv
    <3> QED
      BY <3>1, <3>2, <3>3
  <2>4. CachedInv(q)'
    BY <2>3, <1>1, <1>9, <1>10 DEF CachedInv
  <2> QED
    BY <2>2, <2>4
<1>18. CurrentInv'
  BY <1>1, <1>17 DEF CurrentInv
<1>19. SentInv'
  BY <1>1, <1>10 DEF SentInv
<1> QED
  BY <1>6, <1>14, <1>15, <1>16, <1>18, <1>19

LEMMA ImagesNext ==
  ASSUME ImageInv, [INext]_ivars
  PROVE  ImageInv'
<1>1. CASE UNCHANGED ivars
  <2> USE <1>1 DEF ivars
  <2>1. \A q \in Requests : \A n : Logged(q, n)' = Logged(q, n)
    BY DEF Logged
  <2>2. \A q \in Requests : Made(q)' = Made(q)
    BY DEF Made, Logged, Unlogged
  <2>3. \A q \in Requests : (MadeInv(q) => MadeInv(q)') /\ (CachedInv(q) => CachedInv(q)')
    BY <2>1, <2>2 DEF MadeInv, CachedInv, Everything, Chunks, ImagesOf
  <2>4. CurrentInv'
    BY <2>3 DEF ImageInv, CurrentInv
  <2>5. BufferInv'
    BY <2>1 DEF ImageInv, BufferInv, Known, Task
  <2>6. SentInv'
    BY <2>2 DEF ImageInv, SentInv
  <2>7. ImagesTypeOK' /\ TodoInv' /\ LastInv'
    BY DEF ImageInv, ImagesTypeOK, TodoInv, LastInv
  <2>8. FitInv'
    BY DEF ImageInv, FitInv, Fits, Everything, Chunks
  <2> QED
    BY <2>4, <2>5, <2>6, <2>7, <2>8 DEF ImageInv
<1>2. CASE INext
  BY <1>2, NewSessionKeeps, HashesKeep, SendKeeps, ResetKeeps, ApplyKeeps, StartKeeps DEF INext
<1> QED
  BY <1>1, <1>2

LEMMA ImageInvHolds == ISpec => []ImageInv
<1>1. IInit => ImageInv
  BY ImagesStart
<1>2. ImageInv /\ [INext]_ivars => ImageInv'
  BY ImagesNext
<1> QED
  BY <1>1, <1>2, PTL DEF ISpec

(* A worker's buffer holds indices of chunks, its cache images, and it has  *)
(* applied no more than the log has (Worker.input_chunk_buffer,             *)
(* Worker.image_cache).                                                     *)
THEOREM ImageTypes == ISpec => []ImagesTypeOK
<1>1. ImageInv => ImagesTypeOK
  BY DEF ImageInv
<1> QED
  BY <1>1, ImageInvHolds, PTL

(* Once everything is sent and applied, no task of the session waits for an *)
(* image: each hash that API._sent_image_hashes knows is in each worker's   *)
(* image_cache, and each edit has its chunks, whoever sent them, in         *)
(* whatever order, through any number of elections.                         *)
THEOREM ImagesAlwaysArrive == ISpec => []ImagesArrive
<1>1. ASSUME ImageInv PROVE ImagesArrive
  <2> USE <1>1
  <2> SUFFICES ASSUME NEW w \in Workers, NEW r \in Requests, requested[r] = session,
                      \A q \in Requests : todo[q] = {}, fed[w] = Len(imagelog), r \notin started[w]
               PROVE  Complete(w, r)
    BY DEF ImagesArrive
  <2> USE DEF ImageInv
  <2>1. \A q \in Requests : Logged(q, fed[w]) = Made(q)
    BY DEF Made, Unlogged
  <2>2. MadeInv(r) /\ upload[r].kind \in {"text", "edit"} /\ upload[r].api \in Apis
    BY AnUpload DEF CurrentInv, ImagesTypeOK
  <2>3. CASE upload[r].kind = "text"
    <3>1. epoch[upload[r].api] = session
      BY <2>2 DEF TodoInv, ImagesTypeOK
    <3>2. ASSUME NEW x \in ImagesOf(r)
          PROVE  x \in cache[w]
      <4>1. x \in sent[upload[r].api]
        BY <2>2, <2>3 DEF MadeInv
      <4>2. PICK q \in Requests : requested[q] = session /\ \E i \in Made(q) : upload[q].images[i[1]] = x
        BY <2>2, <3>1, <4>1 DEF SentInv
      <4>3. CachedInv(q)
        BY <4>2 DEF CurrentInv
      <4> QED
        BY <2>1, <4>2, <4>3 DEF CachedInv
    <3> QED
      BY <2>3, <3>2 DEF Complete
  <2>4. CASE upload[r].kind = "edit"
    <3>1. buffer[w][r] = Everything(r)
      BY <2>1, <2>2, <2>4 DEF MadeInv, BufferInv
    <3>2. Cardinality(Everything(r)) \in Nat
      BY ChunksAreFinite DEF Everything, ImagesTypeOK
    <3> QED
      BY <2>4, <3>1, <3>2 DEF Complete, Everything
  <2> QED
    BY <2>2, <2>3, <2>4
<1> QED
  BY <1>1, ImageInvHolds, PTL
=============================================================================
