--------------------------- MODULE ElectionProofs ---------------------------
(***************************************************************************)
(* Proofs about Election, for any nodes, seniorities, changes of the       *)
(* topology and commands, whether or not messages arrive in time; and      *)
(* about ElectLoop: its steps are steps of the election or none, so        *)
(* everything proved of elections holds, and a node that has caught up     *)
(* with its results has the components its session calls for; and about    *)
(* Routing, whose topics carry the messages, for any receivers and items.  *)
(***************************************************************************)
EXTENDS ElectLoop, Routing, FiniteSetTheorems, WellFoundedInduction, TLAPS

Rank(phase) ==
  IF phase = "awake" THEN 0 ELSE IF phase = "running" THEN 1
  ELSE IF phase = "waiting" THEN 2 ELSE 3

(* The campaigns cs of a node whose clock is k, whose scope belongs to      *)
(* round sc, and that w won.  The tasks of a node pass each phase in the    *)
(* order of their rounds: so the newest is the last one to end, and only    *)
(* older ones are cancelled.                                                *)
Younger(cs, k) ==
  \A c \in cs :
    /\ c.round <= k
    /\ c.phase # "spawned" => c.round <= c.clock /\ c.clock <= k
    /\ \A l \in c.candidates : c.round <= l.message.clock /\ l.message.clock <= k
    /\ c.cancelled => c.round < k

InOrder(cs) ==
  \A c, d \in cs :
    /\ c.round = d.round => c = d
    /\ Rank(c.phase) < Rank(d.phase) => c.round < d.round

ScopeLaunched(cs, k, sc) ==
  /\ sc <= k
  /\ \A c \in cs : c.phase \in {"spawned", "waiting"} => sc < c.round

NewestLast(cs, k, w) == (\E c \in cs : c.round = k) \/ (cs = {} /\ w = k)

RoundsOK(cs, k, sc, w) ==
  Younger(cs, k) /\ InOrder(cs) /\ ScopeLaunched(cs, k, sc) /\ NewestLast(cs, k, w)

RoundInv == \A n \in Node : RoundsOK(campaigns[n], clock[n], scope[n], won[n])

FiniteInv == \A n \in Node : \A c \in campaigns[n] : IsFiniteSet(c.candidates)

Inv == TypeOK /\ FiniteInv /\ RoundInv

-----------------------------------------------------------------------------
(* What the steps of a campaign do to the set of a node's campaigns.        *)

(* A receiver starts a campaign for a round later than all others.         *)
LEMMA SpawnKeeps ==
  ASSUME NEW cs \in SUBSET Campaign, NEW k \in Nat, NEW sc \in Nat \cup {NoRound}, NEW w,
         RoundsOK(cs, k, sc, w), NEW r \in Nat, r > k,
         NEW letters \in SUBSET Letter, \A l \in letters : l.message.clock = r
  PROVE  /\ cs \cup {Spawned(r, letters)} \in SUBSET Campaign
         /\ RoundsOK(cs \cup {Spawned(r, letters)}, r, sc, w)
<1> DEFINE s == Spawned(r, letters)
<1>1. /\ s \in Campaign /\ s.round = r /\ s.phase = "spawned" /\ s.candidates = letters
      /\ s.cancelled = FALSE
  BY DEF Spawned, Campaign
<1> HIDE DEF s
<1>2. \A c \in cs : c.round < r /\ c.round \in Nat /\ c.clock \in Nat
  BY DEF RoundsOK, Younger, Campaign
<1>3. Younger(cs \cup {s}, r)
  <2>1. \A c \in cs : \A l \in c.candidates : l.message.clock \in Nat
    BY DEF Campaign, Letter, Message
  <2> QED BY <1>1, <1>2, <2>1 DEF RoundsOK, Younger
<1>4. InOrder(cs \cup {s})
  BY <1>1, <1>2 DEF RoundsOK, InOrder, Rank, Campaign
<1>5. ScopeLaunched(cs \cup {s}, r, sc)
  BY <1>1, <1>2 DEF RoundsOK, ScopeLaunched, NoRound
<1>6. NewestLast(cs \cup {s}, r, w)
  BY <1>1 DEF NewestLast
<1> QED BY <1>1, <1>3, <1>4, <1>5, <1>6 DEF RoundsOK, s

(* A message of the current round joins the list of that round's campaign. *)
LEMMA CollectKeeps ==
  ASSUME NEW cs \in SUBSET Campaign, NEW k \in Nat, NEW sc \in Nat \cup {NoRound}, NEW w,
         RoundsOK(cs, k, sc, w), NEW letter \in Letter, NEW ds,
         ds = {IF letter.message.clock = k /\ d.round = letter.message.clock
               THEN [d EXCEPT !.candidates = @ \cup {letter}] ELSE d : d \in cs}
  PROVE  ds \in SUBSET Campaign /\ RoundsOK(ds, k, sc, w)
<1> DEFINE f(d) == IF letter.message.clock = k /\ d.round = letter.message.clock
                   THEN [d EXCEPT !.candidates = @ \cup {letter}] ELSE d
<1>1. \A d \in cs : /\ f(d) \in Campaign /\ f(d).round = d.round /\ f(d).phase = d.phase
                    /\ f(d).clock = d.clock /\ f(d).cancelled = d.cancelled
                    /\ \A l \in f(d).candidates :
                         l \in d.candidates \/ (l = letter /\ d.round = k /\ l.message.clock = k)
  BY DEF Campaign
<1>2. ds = {f(d) : d \in cs}
  OBVIOUS
<1> HIDE DEF f
<1>3. Younger(ds, k)
  <2>1. \A d \in cs : \A l \in f(d).candidates : d.round <= l.message.clock /\ l.message.clock <= k
    BY <1>1 DEF RoundsOK, Younger
  <2> QED BY <1>1, <1>2, <2>1 DEF RoundsOK, Younger
<1>4. InOrder(ds)
  BY <1>1, <1>2 DEF RoundsOK, InOrder
<1>5. ScopeLaunched(ds, k, sc) /\ NewestLast(ds, k, w)
  BY <1>1, <1>2 DEF RoundsOK, ScopeLaunched, NewestLast
<1> QED BY <1>1, <1>2, <1>3, <1>4, <1>5 DEF RoundsOK

(* The oldest task that has not run reads the clock, and may cancel the     *)
(* campaign whose scope it finds.                                           *)
LEMMA StartKeeps ==
  ASSUME NEW cs \in SUBSET Campaign, NEW k \in Nat, NEW sc \in Nat \cup {NoRound}, NEW w,
         RoundsOK(cs, k, sc, w), NEW c \in cs, c.phase = "spawned",
         \A d \in cs : d.phase = "spawned" => c.round <= d.round, NEW a \in Nat, NEW ds,
         ds = {IF d.round = sc THEN [d EXCEPT !.cancelled = TRUE] ELSE d : d \in cs \ {c}}
              \cup {[c EXCEPT !.phase = "waiting", !.clock = k, !.awaits = a]}
  PROVE  ds \in SUBSET Campaign /\ RoundsOK(ds, k, sc, w)
<1> DEFINE f(d) == IF d.round = sc THEN [d EXCEPT !.cancelled = TRUE] ELSE d
           s == [c EXCEPT !.phase = "waiting", !.clock = k, !.awaits = a]
<1>1. \A d \in cs : /\ f(d) \in Campaign /\ f(d).round = d.round /\ f(d).phase = d.phase
                    /\ f(d).clock = d.clock /\ f(d).candidates = d.candidates
                    /\ f(d).cancelled => d.cancelled \/ d.round = sc
  BY DEF Campaign
<1>2. /\ s \in Campaign /\ s.round = c.round /\ s.phase = "waiting" /\ s.clock = k
      /\ s.candidates = c.candidates /\ s.cancelled = c.cancelled
  BY DEF Campaign
<1>3. ds = {f(d) : d \in cs \ {c}} \cup {s}
  OBVIOUS
<1> HIDE DEF f, s
<1>4. sc < c.round /\ c.round <= k /\ c.round \in Nat
  BY DEF RoundsOK, ScopeLaunched, Younger, Campaign
<1>5. \A d \in cs : d.round \in Nat /\ d.phase \in {"spawned", "waiting", "running", "awake"}
  BY DEF Campaign
<1>6. Younger(ds, k)
  <2>1. \A d \in cs : d.round = sc => d.round < k
    BY <1>4, <1>5
  <2> QED BY <1>1, <1>2, <1>3, <1>4, <2>1 DEF RoundsOK, Younger
<1>7. InOrder(ds)
  <2>1. \A d, e \in cs : /\ d.round = e.round => d = e
                         /\ Rank(d.phase) < Rank(e.phase) => d.round < e.round
    BY DEF RoundsOK, InOrder
  <2>2. \A d \in cs \ {c} : /\ d.round # c.round
                            /\ d.phase = "spawned" => c.round < d.round
                            /\ d.phase # "spawned" => d.round < c.round
    BY <1>4, <1>5, <2>1 DEF Rank
  <2>3. \A d \in cs \ {c} : /\ Rank(d.phase) < 2 => d.round < c.round
                            /\ 2 < Rank(d.phase) => c.round < d.round
    BY <1>5, <2>2 DEF Rank
  <2>4. Rank(s.phase) = 2
    BY <1>2 DEF Rank
  <2> QED BY <1>1, <1>2, <1>3, <2>1, <2>2, <2>3, <2>4 DEF InOrder
<1>8. ScopeLaunched(ds, k, sc) /\ NewestLast(ds, k, w)
  BY <1>1, <1>2, <1>3, <1>4 DEF RoundsOK, ScopeLaunched, NewestLast
<1> QED BY <1>1, <1>2, <1>3, <1>6, <1>7, <1>8 DEF RoundsOK

(* The oldest waiting campaign launches with a status of the clock it read. *)
LEMMA LaunchKeeps ==
  ASSUME NEW cs \in SUBSET Campaign, NEW k \in Nat, NEW sc \in Nat \cup {NoRound}, NEW w,
         RoundsOK(cs, k, sc, w), NEW c \in cs, c.phase = "waiting",
         \A d \in cs : d.phase = "waiting" => c.round <= d.round,
         NEW letter \in Letter, letter.message.clock = c.clock, NEW ds,
         ds = (cs \ {c}) \cup {[c EXCEPT !.phase = "running", !.candidates = @ \cup {letter}]}
  PROVE  ds \in SUBSET Campaign /\ RoundsOK(ds, k, c.round, w)
<1> DEFINE s == [c EXCEPT !.phase = "running", !.candidates = @ \cup {letter}]
<1>1. /\ s \in Campaign /\ s.round = c.round /\ s.phase = "running" /\ s.clock = c.clock
      /\ s.candidates = c.candidates \cup {letter} /\ s.cancelled = c.cancelled
  BY DEF Campaign
<1>2. ds = (cs \ {c}) \cup {s}
  OBVIOUS
<1> HIDE DEF s
<1>3. c.round <= c.clock /\ c.clock <= k /\ c.round <= k /\ c.round \in Nat
  BY DEF RoundsOK, Younger, Campaign
<1>4. \A d \in cs : d.round \in Nat /\ d.phase \in {"spawned", "waiting", "running", "awake"}
  BY DEF Campaign
<1>5. Younger(ds, k)
  BY <1>1, <1>2, <1>3 DEF RoundsOK, Younger
<1>6. \A d, e \in cs : /\ d.round = e.round => d = e
                       /\ Rank(d.phase) < Rank(e.phase) => d.round < e.round
  BY DEF RoundsOK, InOrder
<1>7. \A d \in cs \ {c} : /\ d.round # c.round
                          /\ d.phase \in {"spawned", "waiting"} => c.round < d.round
                          /\ d.phase \in {"running", "awake"} => d.round < c.round
  BY <1>3, <1>4, <1>6 DEF Rank
<1>8. InOrder(ds)
  <2>1. \A d \in cs \ {c} : /\ Rank(d.phase) < 1 => d.round < c.round
                            /\ 1 < Rank(d.phase) => c.round < d.round
    BY <1>4, <1>7 DEF Rank
  <2>2. Rank(s.phase) = 1
    BY <1>1 DEF Rank
  <2> QED BY <1>1, <1>2, <1>6, <1>7, <2>1, <2>2 DEF InOrder
<1>9. ScopeLaunched(ds, k, c.round) /\ NewestLast(ds, k, w)
  BY <1>1, <1>2, <1>3, <1>7 DEF RoundsOK, ScopeLaunched, NewestLast
<1> QED BY <1>1, <1>2, <1>5, <1>8, <1>9 DEF RoundsOK

(* The oldest running campaign wakes.                                       *)
LEMMA WakeKeeps ==
  ASSUME NEW cs \in SUBSET Campaign, NEW k \in Nat, NEW sc \in Nat \cup {NoRound}, NEW w,
         RoundsOK(cs, k, sc, w), NEW c \in cs, c.phase = "running",
         \A d \in cs : d.phase = "running" => c.round <= d.round, NEW ds,
         ds = (cs \ {c}) \cup {[c EXCEPT !.phase = "awake"]}
  PROVE  ds \in SUBSET Campaign /\ RoundsOK(ds, k, sc, w)
<1> DEFINE s == [c EXCEPT !.phase = "awake"]
<1>1. /\ s \in Campaign /\ s.round = c.round /\ s.phase = "awake" /\ s.clock = c.clock
      /\ s.candidates = c.candidates /\ s.cancelled = c.cancelled
  BY DEF Campaign
<1>2. ds = (cs \ {c}) \cup {s}
  OBVIOUS
<1> HIDE DEF s
<1>3. \A d \in cs : d.round \in Nat /\ d.phase \in {"spawned", "waiting", "running", "awake"}
  BY DEF Campaign
<1>4. \A d, e \in cs : /\ d.round = e.round => d = e
                       /\ Rank(d.phase) < Rank(e.phase) => d.round < e.round
  BY DEF RoundsOK, InOrder
<1>5. \A d \in cs \ {c} : d.round # c.round /\ (d.phase # "awake" => c.round < d.round)
  BY <1>3, <1>4 DEF Rank
<1>6. InOrder(ds)
  <2>1. \A d \in cs \ {c} : 0 < Rank(d.phase) => c.round < d.round
    BY <1>3, <1>5 DEF Rank
  <2>2. Rank(s.phase) = 0 /\ \A d \in cs : Rank(d.phase) \in Nat
    BY <1>1 DEF Rank
  <2> QED BY <1>1, <1>2, <1>4, <1>5, <2>1, <2>2 DEF InOrder
<1>7. Younger(ds, k) /\ ScopeLaunched(ds, k, sc) /\ NewestLast(ds, k, w)
  BY <1>1, <1>2 DEF RoundsOK, Younger, ScopeLaunched, NewestLast
<1> QED BY <1>1, <1>2, <1>6, <1>7 DEF RoundsOK

(* The oldest campaign that is awake ends and decides; if it is the newest  *)
(* round, it is the only one left.                                          *)
LEMMA FinishKeeps ==
  ASSUME NEW cs \in SUBSET Campaign, NEW k \in Nat, NEW sc \in Nat \cup {NoRound}, NEW w,
         RoundsOK(cs, k, sc, w), NEW c \in cs, c.phase = "awake",
         \A d \in cs : d.phase = "awake" => c.round <= d.round,
         NEW l \in c.candidates, NEW z \in {sc, NoRound}
  PROVE  RoundsOK(cs \ {c}, k, z, l.message.clock)
<1>1. \A d \in cs : /\ d.round \in Nat /\ d.round <= k
                    /\ d.phase \in {"spawned", "waiting", "running", "awake"}
  BY DEF Campaign, RoundsOK, Younger
<1>2. \A d \in cs \ {c} : c.round < d.round
  <2>1. \A d, e \in cs : /\ d.round = e.round => d = e
                         /\ Rank(d.phase) < Rank(e.phase) => d.round < e.round
    BY DEF RoundsOK, InOrder
  <2> QED BY <1>1, <2>1 DEF Rank
<1>3. c.round <= l.message.clock /\ l.message.clock <= k /\ l.message.clock \in Nat
  BY DEF RoundsOK, Younger, Campaign, Letter, Message
<1>4. NewestLast(cs \ {c}, k, l.message.clock)
  <2>1. CASE c.round = k
    <3>1. cs \ {c} = {}
      BY <1>1, <1>2, <2>1
    <3> QED BY <1>3, <2>1, <3>1 DEF NewestLast
  <2>2. CASE c.round # k
    BY <2>2 DEF RoundsOK, NewestLast
  <2> QED BY <2>1, <2>2
<1>5. ScopeLaunched(cs \ {c}, k, z)
  BY <1>1 DEF RoundsOK, ScopeLaunched, NoRound
<1>6. Younger(cs \ {c}, k) /\ InOrder(cs \ {c})
  BY DEF RoundsOK, Younger, InOrder
<1> QED BY <1>4, <1>5, <1>6 DEF RoundsOK

(* Only an older round is aborted.                                          *)
LEMMA AbortKeeps ==
  ASSUME NEW cs \in SUBSET Campaign, NEW k \in Nat, NEW sc \in Nat \cup {NoRound}, NEW w,
         RoundsOK(cs, k, sc, w), NEW c \in cs, c.cancelled, NEW z \in {sc, NoRound}
  PROVE  RoundsOK(cs \ {c}, k, z, w)
<1>1. \A d \in cs : d.round \in Nat
  BY DEF Campaign
<1>2. c.round < k
  BY DEF RoundsOK, Younger
<1>3. NewestLast(cs \ {c}, k, w)
  BY <1>1, <1>2 DEF RoundsOK, NewestLast
<1>4. ScopeLaunched(cs \ {c}, k, z)
  BY <1>1 DEF RoundsOK, ScopeLaunched, NoRound
<1>5. Younger(cs \ {c}, k) /\ InOrder(cs \ {c})
  BY DEF RoundsOK, Younger, InOrder
<1> QED BY <1>3, <1>4, <1>5 DEF RoundsOK

(* A node boots in a campaign of round 0, which resolves at once.          *)
LEMMA BootKeeps ==
  ASSUME NEW n \in Node
  PROVE  /\ BootCampaign(n, InitialSeniority[n]) \in Campaign
         /\ RoundsOK({BootCampaign(n, InitialSeniority[n])}, 0, 0, 0)
<1> DEFINE b == BootCampaign(n, InitialSeniority[n])
           l == [message |-> BootStatus(n, InitialSeniority[n]), round |-> 0, copy |-> 1]
<1>1. l \in Letter /\ l.message.clock = 0
  BY SeniorityAssumption DEF Letter, Message, BootStatus, Session
<1>2. /\ b.round = 0 /\ b.phase = "running" /\ b.clock = 0 /\ b.candidates = {l}
      /\ b.cancelled = FALSE
  BY DEF BootCampaign, Spawned
<1>3. b \in Campaign
  BY <1>1 DEF BootCampaign, Spawned, Campaign
<1> HIDE DEF b, l
<1>4. RoundsOK({b}, 0, 0, 0)
  BY <1>1, <1>2 DEF RoundsOK, Younger, InOrder, Rank, ScopeLaunched, NewestLast
<1> QED BY <1>3, <1>4 DEF b

-----------------------------------------------------------------------------
(* Every action keeps the invariant.                                       *)

(* What happens at one node leaves the others alone.                       *)
LEMMA OneNode ==
  ASSUME TypeOK, RoundInv, NEW n \in Node, NEW cs \in SUBSET Campaign,
         campaigns' = [campaigns EXCEPT ![n] = cs],
         RoundsOK(cs, clock'[n], scope'[n], won'[n]),
         \A m \in Node \ {n} : clock'[m] = clock[m] /\ scope'[m] = scope[m] /\ won'[m] = won[m]
  PROVE  campaigns' \in [Node -> SUBSET Campaign] /\ RoundInv'
<1>1. campaigns \in [Node -> SUBSET Campaign]
  BY DEF TypeOK
<1>2. campaigns'[n] = cs /\ \A m \in Node \ {n} : campaigns'[m] = campaigns[m]
  BY <1>1
<1>3. RoundInv'
  <2> SUFFICES ASSUME NEW m \in Node
               PROVE  RoundsOK(campaigns'[m], clock'[m], scope'[m], won'[m])
    BY DEF RoundInv
  <2>1. CASE m = n
    BY <1>2, <2>1
  <2>2. CASE m # n
    BY <1>2, <2>2 DEF RoundInv
  <2> QED BY <2>1, <2>2
<1> QED BY <1>1, <1>3

LEMMA RoundStep ==
  ASSUME TypeOK, RoundInv, Next
  PROVE  campaigns' \in [Node -> SUBSET Campaign] /\ RoundInv'
<1> DEFINE Goal == campaigns' \in [Node -> SUBSET Campaign] /\ RoundInv'
<1>a. /\ clock \in [Node -> Nat] /\ scope \in [Node -> Nat \cup {NoRound}]
      /\ won \in [Node -> Nat] /\ done \in [Node -> Nat]
      /\ campaigns \in [Node -> SUBSET Campaign]
      /\ net \subseteq [to : Node, letter : Letter]
  BY DEF TypeOK
<1>b. \A n \in Node : RoundsOK(campaigns[n], clock[n], scope[n], won[n])
  BY DEF RoundInv
<1>c. ASSUME NEW n \in Node, NEW c \in campaigns[n]
      PROVE  ScopeAfter(n, c)[n] \in {scope[n], NoRound}
             /\ \A m \in Node \ {n} : ScopeAfter(n, c)[m] = scope[m]
  BY <1>a DEF ScopeAfter
<1> HIDE DEF Goal
<1>1. CASE Deliver
  <2> PICK p \in net : Deliver!(p)
    BY <1>1 DEF Deliver
  <2> DEFINE n == p.to
             c == p.letter.message.clock
  <2>1. n \in Node /\ p.letter \in Letter /\ c \in Nat
    BY <1>a DEF Letter, Message
  <2>2. UNCHANGED <<scope, won>> /\ clock' = [clock EXCEPT ![n] = IF c > clock[n] THEN c ELSE @]
    OBVIOUS
  <2>3. campaigns' = [campaigns EXCEPT ![n] =
           IF c > clock[n] THEN @ \cup {Spawned(c, {p.letter})}
           ELSE {IF OfThisRound(n, c, d)
                 THEN [d EXCEPT !.candidates = @ \cup {p.letter}] ELSE d : d \in @}]
    OBVIOUS
  <2> HIDE DEF n
  <2>4. CASE c > clock[n]
    <3>1. /\ campaigns[n] \cup {Spawned(c, {p.letter})} \in SUBSET Campaign
          /\ RoundsOK(campaigns[n] \cup {Spawned(c, {p.letter})}, c, scope[n], won[n])
      BY <1>a, <1>b, <2>1, <2>4, SpawnKeeps
    <3>2. campaigns' = [campaigns EXCEPT ![n] = campaigns[n] \cup {Spawned(c, {p.letter})}]
      BY <2>3, <2>4
    <3>3. clock'[n] = c /\ \A m \in Node \ {n} : clock'[m] = clock[m]
      BY <1>a, <2>1, <2>2, <2>4
    <3> QED BY <2>1, <2>2, <3>1, <3>2, <3>3, OneNode DEF Goal
  <2>5. CASE ~(c > clock[n])
    <3> DEFINE ds == {IF OfThisRound(n, c, d)
                      THEN [d EXCEPT !.candidates = @ \cup {p.letter}] ELSE d : d \in campaigns[n]}
    <3>1. ds = {IF c = clock[n] /\ d.round = c
                THEN [d EXCEPT !.candidates = @ \cup {p.letter}] ELSE d : d \in campaigns[n]}
      BY DEF OfThisRound
    <3>2. ds \in SUBSET Campaign /\ RoundsOK(ds, clock[n], scope[n], won[n])
      BY <1>a, <1>b, <2>1, <3>1, CollectKeeps
    <3>3. campaigns' = [campaigns EXCEPT ![n] = ds]
      BY <2>3, <2>5
    <3>4. clock' = clock
      BY <1>a, <2>1, <2>2, <2>5
    <3> HIDE DEF ds
    <3> QED BY <2>1, <2>2, <3>2, <3>3, <3>4, OneNode DEF Goal
  <2> QED BY <2>4, <2>5
<1>2. CASE Lose
  BY <1>2, <1>a DEF Lose, RoundInv, Goal
<1>3. ASSUME NEW n \in Node, HandleConnection(n) PROVE Goal
  <2> DEFINE ds == campaigns[n] \cup {Spawned(clock[n] + 1, {})}
  <2>1. campaigns' = [campaigns EXCEPT ![n] = ds]
    BY <1>3 DEF HandleConnection
  <2>2. clock'[n] = clock[n] + 1 /\ (\A m \in Node \ {n} : clock'[m] = clock[m])
        /\ UNCHANGED <<scope, won>>
    BY <1>3, <1>a DEF HandleConnection
  <2>3. ds \in SUBSET Campaign /\ RoundsOK(ds, clock[n] + 1, scope[n], won[n])
    <3>1. /\ campaigns[n] \in SUBSET Campaign /\ clock[n] \in Nat
          /\ scope[n] \in Nat \cup {NoRound} /\ RoundsOK(campaigns[n], clock[n], scope[n], won[n])
      BY <1>a, <1>b
    <3>2. clock[n] + 1 \in Nat /\ clock[n] + 1 > clock[n]
      BY <3>1
    <3>3. {} \in SUBSET Letter /\ \A l \in {} : l.message.clock = clock[n] + 1
      OBVIOUS
    <3> QED BY <3>1, <3>2, <3>3, SpawnKeeps
  <2> HIDE DEF ds
  <2> QED BY <2>1, <2>2, <2>3, OneNode DEF Goal
<1>4. ASSUME NEW n \in Node, Start(n) PROVE Goal
  <2> PICK c \in campaigns[n] :
        /\ Oldest(n, c, {"spawned"})
        /\ campaigns' = [campaigns EXCEPT ![n] =
               {IF Cancels(n, d) THEN [d EXCEPT !.cancelled = TRUE] ELSE d : d \in @ \ {c}}
               \cup {[c EXCEPT !.phase = "waiting", !.clock = clock[n],
                               !.awaits = Awaited(n, c)]}]
        /\ UNCHANGED <<clock, scope, won>>
    BY <1>4 DEF Start
  <2> DEFINE ds == {IF d.round = scope[n] THEN [d EXCEPT !.cancelled = TRUE] ELSE d :
                      d \in campaigns[n] \ {c}}
                   \cup {[c EXCEPT !.phase = "waiting", !.clock = clock[n], !.awaits = done[n]]}
  <2>1. campaigns' = [campaigns EXCEPT ![n] = ds]
    BY DEF Cancels, Awaited
  <2>2. c.phase = "spawned" /\ \A d \in campaigns[n] : d.phase = "spawned" => c.round <= d.round
    BY DEF Oldest
  <2>3. ds \in SUBSET Campaign /\ RoundsOK(ds, clock[n], scope[n], won[n])
    BY <1>a, <1>b, <2>2, StartKeeps
  <2> HIDE DEF ds
  <2> QED BY <2>1, <2>3, OneNode DEF Goal
<1>5. ASSUME NEW n \in Node, Launch(n) PROVE Goal
  <2> PICK c \in campaigns[n] : Launch(n)!(c)
    BY <1>5 DEF Launch
  <2> DEFINE letter == [message |-> Status(n, c.clock), round |-> c.round, copy |-> 1]
             ds == (campaigns[n] \ {c})
                   \cup {[c EXCEPT !.phase = "running", !.candidates = @ \cup {letter}]}
  <2>1. campaigns' = [campaigns EXCEPT ![n] = ds]
    OBVIOUS
  <2>2. c.phase = "waiting" /\ \A d \in campaigns[n] : d.phase = "waiting" => c.round <= d.round
    BY DEF Oldest
  <2>3. c.round \in Nat /\ c.clock \in Nat
    BY <1>a DEF Campaign
  <2>4. letter \in Letter /\ letter.message.clock = c.clock
    BY <2>3 DEF Letter, Message, Status, Session, TypeOK
  <2>5. ds \in SUBSET Campaign /\ RoundsOK(ds, clock[n], c.round, won[n])
    BY <1>a, <1>b, <2>2, <2>4, LaunchKeeps
  <2>6. scope'[n] = c.round /\ (\A m \in Node \ {n} : scope'[m] = scope[m]) /\ UNCHANGED <<clock, won>>
    BY <1>a
  <2> HIDE DEF ds
  <2> QED BY <2>1, <2>5, <2>6, OneNode DEF Goal
<1>6. ASSUME NEW n \in Node, Rebroadcast(n) PROVE Goal
  <2> PICK c \in campaigns[n] :
        /\ Oldest(n, c, {"running"})
        /\ campaigns' = [campaigns EXCEPT ![n] = (@ \ {c}) \cup {[c EXCEPT !.phase = "awake"]}]
        /\ UNCHANGED <<clock, scope, won>>
    BY <1>6 DEF Rebroadcast
  <2> DEFINE ds == (campaigns[n] \ {c}) \cup {[c EXCEPT !.phase = "awake"]}
  <2>1. c.phase = "running" /\ \A d \in campaigns[n] : d.phase = "running" => c.round <= d.round
    BY DEF Oldest
  <2>2. ds \in SUBSET Campaign /\ RoundsOK(ds, clock[n], scope[n], won[n])
    BY <1>a, <1>b, <2>1, WakeKeeps
  <2>3. campaigns' = [campaigns EXCEPT ![n] = ds]
    OBVIOUS
  <2> HIDE DEF ds
  <2> QED BY <2>2, <2>3, OneNode DEF Goal
<1>7. ASSUME NEW n \in Node, Finish(n) PROVE Goal
  <2> PICK c \in campaigns[n] :
        /\ Oldest(n, c, {"awake"})
        /\ \E l \in c.candidates : won' = [won EXCEPT ![n] = WonClock(l.message)]
        /\ scope' = ScopeAfter(n, c)
        /\ campaigns' = [campaigns EXCEPT ![n] = @ \ {c}]
        /\ UNCHANGED clock
    BY <1>7 DEF Finish
  <2> PICK l \in c.candidates : won' = [won EXCEPT ![n] = WonClock(l.message)]
    OBVIOUS
  <2>1. c.phase = "awake" /\ \A d \in campaigns[n] : d.phase = "awake" => c.round <= d.round
    BY DEF Oldest
  <2>2. scope'[n] \in {scope[n], NoRound} /\ \A m \in Node \ {n} : scope'[m] = scope[m]
    BY <1>c
  <2>3. won'[n] = l.message.clock /\ \A m \in Node \ {n} : won'[m] = won[m]
    BY <1>a DEF WonClock
  <2>4. RoundsOK(campaigns[n] \ {c}, clock[n], scope'[n], l.message.clock)
    <3>1. /\ campaigns[n] \in SUBSET Campaign /\ clock[n] \in Nat
          /\ scope[n] \in Nat \cup {NoRound} /\ RoundsOK(campaigns[n], clock[n], scope[n], won[n])
      BY <1>a, <1>b
    <3> QED BY <2>1, <2>2, <3>1, FinishKeeps
  <2> DEFINE ds == campaigns[n] \ {c}
  <2>5. /\ ds \in SUBSET Campaign /\ campaigns' = [campaigns EXCEPT ![n] = ds]
        /\ RoundsOK(ds, clock'[n], scope'[n], won'[n])
    BY <1>a, <2>3, <2>4
  <2> HIDE DEF ds
  <2> QED BY <2>2, <2>3, <2>5, OneNode DEF Goal
<1>8. ASSUME NEW n \in Node, Abort(n) PROVE Goal
  <2> PICK c \in campaigns[n] :
        /\ c.cancelled
        /\ scope' = ScopeAfter(n, c)
        /\ campaigns' = [campaigns EXCEPT ![n] = @ \ {c}]
        /\ UNCHANGED <<clock, won>>
    BY <1>8 DEF Abort
  <2>1. scope'[n] \in {scope[n], NoRound} /\ \A m \in Node \ {n} : scope'[m] = scope[m]
    BY <1>c
  <2>2. RoundsOK(campaigns[n] \ {c}, clock[n], scope'[n], won[n])
    <3>1. /\ campaigns[n] \in SUBSET Campaign /\ clock[n] \in Nat
          /\ scope[n] \in Nat \cup {NoRound} /\ RoundsOK(campaigns[n], clock[n], scope[n], won[n])
      BY <1>a, <1>b
    <3> QED BY <2>1, <3>1, AbortKeeps
  <2> DEFINE ds == campaigns[n] \ {c}
  <2>3. /\ ds \in SUBSET Campaign /\ campaigns' = [campaigns EXCEPT ![n] = ds]
        /\ RoundsOK(ds, clock'[n], scope'[n], won'[n])
    BY <1>a, <2>2
  <2> HIDE DEF ds
  <2> QED BY <2>1, <2>3, OneNode DEF Goal
<1>9. ASSUME NEW n \in Node, CommandSeen(n) \/ Disconnect(n) \/ \E m \in Node \ {n} : Connect(n, m)
      PROVE Goal
  BY <1>9, <1>a DEF CommandSeen, Disconnect, Connect, RoundInv, Goal
<1>10. ASSUME NEW n \in Node, Restart(n) PROVE Goal
  <2> DEFINE b == BootCampaign(n, InitialSeniority[n])
  <2>1. b \in Campaign /\ RoundsOK({b}, 0, 0, 0)
    BY BootKeeps
  <2>2. /\ campaigns' = [campaigns EXCEPT ![n] = {b}]
        /\ clock'[n] = 0 /\ scope'[n] = 0 /\ won'[n] = 0
        /\ \A m \in Node \ {n} :
             clock'[m] = clock[m] /\ scope'[m] = scope[m] /\ won'[m] = won[m]
    BY <1>10, <1>a DEF Restart
  <2> HIDE DEF b
  <2>3. {b} \in SUBSET Campaign /\ RoundsOK({b}, clock'[n], scope'[n], won'[n])
    BY <2>1, <2>2
  <2> QED BY <2>2, <2>3, OneNode DEF Goal
<1> QED
  BY <1>1, <1>2, <1>3, <1>4, <1>5, <1>6, <1>7, <1>8, <1>9, <1>10 DEF Next, Step, Goal

(* The lists of candidates stay finite: their length becomes a seniority.   *)
LEMMA FiniteStep ==
  ASSUME TypeOK, FiniteInv, Next
  PROVE  FiniteInv'
<1>a. campaigns \in [Node -> SUBSET Campaign]
  BY DEF TypeOK
<1>b. ASSUME NEW n \in Node, NEW cs, campaigns' = [campaigns EXCEPT ![n] = cs],
             \A c \in cs : IsFiniteSet(c.candidates)
      PROVE  FiniteInv'
  BY <1>a, <1>b DEF FiniteInv
<1>c. \A n \in Node : \A c \in campaigns[n] : c \in Campaign /\ IsFiniteSet(c.candidates)
  BY <1>a DEF FiniteInv
<1>d. \A S, x : IsFiniteSet(S) => IsFiniteSet(S \cup {x})
  BY FS_AddElement
<1>e. IsFiniteSet({}) /\ \A x : IsFiniteSet({x})
  BY FS_EmptySet, FS_Singleton
<1>1. CASE Deliver
  <2> PICK p \in net : Deliver!(p)
    BY <1>1 DEF Deliver
  <2> DEFINE n == p.to
             c == p.letter.message.clock
             f(d) == IF OfThisRound(n, c, d)
                     THEN [d EXCEPT !.candidates = @ \cup {p.letter}] ELSE d
  <2>1. n \in Node
    BY DEF TypeOK
  <2>2. CASE c > clock[n]
    <3>1. campaigns' = [campaigns EXCEPT ![n] = @ \cup {Spawned(c, {p.letter})}]
      BY <2>2
    <3> DEFINE s == Spawned(c, {p.letter})
    <3>2. IsFiniteSet(s.candidates)
      BY <1>e DEF Spawned
    <3> HIDE DEF s
    <3>3. \A d \in campaigns[n] \cup {s} : IsFiniteSet(d.candidates)
      BY <1>c, <2>1, <3>2
    <3> QED BY <1>b, <2>1, <3>1, <3>3 DEF s
  <2>3. CASE ~(c > clock[n])
    <3>1. campaigns' = [campaigns EXCEPT ![n] = {f(d) : d \in campaigns[n]}]
      BY <2>3
    <3>2. \A d \in campaigns[n] : IsFiniteSet(f(d).candidates)
      BY <1>c, <1>d, <2>1 DEF Campaign
    <3> HIDE DEF f
    <3>3. \A e \in {f(d) : d \in campaigns[n]} : IsFiniteSet(e.candidates)
      BY <3>2
    <3> QED BY <1>b, <2>1, <3>1, <3>3
  <2> QED BY <2>2, <2>3
<1>2. CASE Lose
  BY <1>2 DEF Lose, FiniteInv
<1>3. ASSUME NEW n \in Node, HandleConnection(n) PROVE FiniteInv'
  <2> DEFINE s == Spawned(clock[n] + 1, {})
  <2>1. campaigns' = [campaigns EXCEPT ![n] = @ \cup {s}]
    BY <1>3 DEF HandleConnection
  <2>2. IsFiniteSet(s.candidates)
    BY <1>e DEF Spawned
  <2> HIDE DEF s
  <2>3. \A d \in campaigns[n] \cup {s} : IsFiniteSet(d.candidates)
    BY <1>c, <2>2
  <2> QED BY <1>b, <2>1, <2>3
<1>4. ASSUME NEW n \in Node, Start(n) PROVE FiniteInv'
  <2> PICK c \in campaigns[n] :
        campaigns' = [campaigns EXCEPT ![n] =
               {IF Cancels(n, d) THEN [d EXCEPT !.cancelled = TRUE] ELSE d : d \in @ \ {c}}
               \cup {[c EXCEPT !.phase = "waiting", !.clock = clock[n],
                               !.awaits = Awaited(n, c)]}]
    BY <1>4 DEF Start
  <2> DEFINE f(d) == IF Cancels(n, d) THEN [d EXCEPT !.cancelled = TRUE] ELSE d
             s == [c EXCEPT !.phase = "waiting", !.clock = clock[n], !.awaits = Awaited(n, c)]
             ds == {f(d) : d \in campaigns[n] \ {c}} \cup {s}
  <2>1. IsFiniteSet(s.candidates) /\ \A d \in campaigns[n] : IsFiniteSet(f(d).candidates)
    BY <1>c DEF Campaign
  <2>2. campaigns' = [campaigns EXCEPT ![n] = ds]
    OBVIOUS
  <2> HIDE DEF f, s
  <2>3. \A e \in ds : IsFiniteSet(e.candidates)
    BY <2>1
  <2> HIDE DEF ds
  <2> QED BY <1>b, <2>2, <2>3
<1>5. ASSUME NEW n \in Node, Launch(n) PROVE FiniteInv'
  <2> PICK c \in campaigns[n] : Launch(n)!(c)
    BY <1>5 DEF Launch
  <2> DEFINE letter == [message |-> Status(n, c.clock), round |-> c.round, copy |-> 1]
             s == [c EXCEPT !.phase = "running", !.candidates = @ \cup {letter}]
             ds == (campaigns[n] \ {c}) \cup {s}
  <2>1. campaigns' = [campaigns EXCEPT ![n] = ds]
    OBVIOUS
  <2>2. IsFiniteSet(s.candidates)
    BY <1>c, <1>d DEF Campaign
  <2> HIDE DEF s
  <2>3. \A e \in ds : IsFiniteSet(e.candidates)
    BY <1>c, <2>2
  <2> HIDE DEF ds
  <2> QED BY <1>b, <2>1, <2>3
<1>6. ASSUME NEW n \in Node, Rebroadcast(n) PROVE FiniteInv'
  <2> PICK c \in campaigns[n] :
        campaigns' = [campaigns EXCEPT ![n] = (@ \ {c}) \cup {[c EXCEPT !.phase = "awake"]}]
    BY <1>6 DEF Rebroadcast
  <2> DEFINE s == [c EXCEPT !.phase = "awake"]
             ds == (campaigns[n] \ {c}) \cup {s}
  <2>1. campaigns' = [campaigns EXCEPT ![n] = ds] /\ IsFiniteSet(s.candidates)
    BY <1>c DEF Campaign
  <2> HIDE DEF s
  <2>2. \A e \in ds : IsFiniteSet(e.candidates)
    BY <1>c, <2>1
  <2> HIDE DEF ds
  <2> QED BY <1>b, <2>1, <2>2
<1>7. ASSUME NEW n \in Node, Finish(n) \/ Abort(n) PROVE FiniteInv'
  <2>1. \E c \in campaigns[n] : campaigns' = [campaigns EXCEPT ![n] = @ \ {c}]
    BY <1>7 DEF Finish, Abort
  <2> QED BY <1>a, <2>1 DEF FiniteInv
<1>8. ASSUME NEW n \in Node, CommandSeen(n) \/ Disconnect(n) \/ \E m \in Node \ {n} : Connect(n, m)
      PROVE FiniteInv'
  BY <1>8 DEF CommandSeen, Disconnect, Connect, FiniteInv
<1>9. ASSUME NEW n \in Node, Restart(n) PROVE FiniteInv'
  <2> DEFINE b == BootCampaign(n, InitialSeniority[n])
  <2>1. IsFiniteSet(b.candidates)
    BY <1>e DEF BootCampaign, Spawned
  <2>2. campaigns' = [campaigns EXCEPT ![n] = {b}]
    BY <1>9 DEF Restart
  <2> HIDE DEF b
  <2> QED BY <1>b, <2>1, <2>2
<1> QED
  BY <1>1, <1>2, <1>3, <1>4, <1>5, <1>6, <1>7, <1>8, <1>9 DEF Next, Step

LEMMA CarryType ==
  ASSUME NEW letters \in SUBSET [to : Node, letter : Letter], Carry(letters)
  PROVE  net' \subseteq [to : Node, letter : Letter]
BY DEF Carry

LEMMA TypeStep ==
  ASSUME TypeOK, FiniteInv, Next, campaigns' \in [Node -> SUBSET Campaign]
  PROVE  TypeOK'
<1> DEFINE Mail == [to : Node, letter : Letter]
<1>a. setup' = setup
  BY DEF Next
<1>b. \A n \in Node : \A c \in campaigns[n] :
        /\ c \in Campaign /\ c.round \in Nat /\ c.clock \in Nat
        /\ \A l \in c.candidates : l \in Letter
  BY DEF TypeOK, Campaign
<1>c. ASSUME NEW n \in Node, NEW letter \in Letter PROVE Sent(n, letter) \in SUBSET Mail
  BY DEF TypeOK, Sent
<1>d. net \in SUBSET Mail
  BY DEF TypeOK
<1>e. ASSUME NEW n \in Node, NEW c \in campaigns[n]
      PROVE  ScopeAfter(n, c) \in [Node -> Nat \cup {NoRound}]
  BY DEF TypeOK, ScopeAfter
<1>1. CASE Deliver
  <2> PICK p \in net : Deliver!(p)
    BY <1>1 DEF Deliver
  <2>1. p.to \in Node /\ p.letter.message.clock \in Nat
    BY <1>d DEF Letter, Message
  <2>2. net' \subseteq Mail
    BY <1>d, CarryType
  <2> QED BY <1>a, <2>1, <2>2 DEF TypeOK
<1>2. CASE Lose
  BY <1>a, <1>2 DEF Lose, TypeOK
<1>3. ASSUME NEW n \in Node, HandleConnection(n) PROVE TypeOK'
  <2>1. net' \subseteq Mail
    BY <1>d, <1>3, CarryType DEF HandleConnection
  <2> QED BY <1>a, <1>3, <2>1 DEF HandleConnection, TypeOK
<1>4. ASSUME NEW n \in Node, Start(n) PROVE TypeOK'
  BY <1>a, <1>4 DEF Start, TypeOK
<1>5. ASSUME NEW n \in Node, Launch(n) PROVE TypeOK'
  <2> PICK c \in campaigns[n] : Launch(n)!(c)
    BY <1>5 DEF Launch
  <2> DEFINE letter == [message |-> Status(n, c.clock), round |-> c.round, copy |-> 1]
  <2>1. letter \in Letter
    BY <1>b DEF Letter, Message, Status, Session, TypeOK
  <2>2. net' \subseteq Mail
    BY <1>c, <1>d, <2>1, CarryType
  <2> QED BY <1>a, <1>b, <2>2 DEF TypeOK
<1>6. ASSUME NEW n \in Node, Rebroadcast(n) PROVE TypeOK'
  <2> PICK c \in campaigns[n] :
        \E l \in c.candidates : Carry(net \cup Sent(n, [l EXCEPT !.copy = 2]))
    BY <1>6 DEF Rebroadcast
  <2> PICK l \in c.candidates : Carry(net \cup Sent(n, [l EXCEPT !.copy = 2]))
    OBVIOUS
  <2>1. [l EXCEPT !.copy = 2] \in Letter
    BY <1>b DEF Letter
  <2>2. net' \subseteq Mail
    BY <1>c, <1>d, <2>1, CarryType
  <2> QED BY <1>a, <1>6, <2>2 DEF Rebroadcast, TypeOK
<1>7. ASSUME NEW n \in Node, Finish(n) PROVE TypeOK'
  <2> PICK c \in campaigns[n] : Finish(n)!(c)
    BY <1>7 DEF Finish
  <2> PICK l \in c.candidates :
        /\ seniority' = SeniorityAfter(n, c, l.message)
        /\ session' = [session EXCEPT ![n] = l.message.session]
        /\ won' = [won EXCEPT ![n] = WonClock(l.message)]
    OBVIOUS
  <2>1. l.message.session \in Session /\ l.message.clock \in Nat
    BY <1>b DEF Letter, Message
  <2>2. Cardinality(c.candidates) \in Nat
    BY FS_CardinalityType DEF FiniteInv
  <2>3. seniority' \in [Node -> Nat \cup {-1}]
    BY <2>2 DEF SeniorityAfter, TypeOK
  <2>4. net' \subseteq Mail
    BY <1>d, CarryType
  <2>5. session' \in [Node -> Session] /\ won' \in [Node -> Nat]
    BY <2>1 DEF WonClock, TypeOK
  <2> QED BY <1>a, <1>e, <2>3, <2>4, <2>5 DEF TypeOK
<1>8. ASSUME NEW n \in Node, Abort(n) PROVE TypeOK'
  <2> PICK c \in campaigns[n] : Abort(n)!(c)
    BY <1>8 DEF Abort
  <2>1. net' \subseteq Mail
    BY <1>d, CarryType
  <2> QED BY <1>a, <1>e, <2>1 DEF TypeOK
<1>9. ASSUME NEW n \in Node, CommandSeen(n) PROVE TypeOK'
  BY <1>a, <1>9 DEF CommandSeen, TypeOK
<1>10. ASSUME NEW n \in Node, Disconnect(n) PROVE TypeOK'
  BY <1>a, <1>10 DEF Disconnect, Changes, Change, Alone, TypeOK
<1>11. ASSUME NEW n \in Node, NEW m \in Node \ {n}, Connect(n, m) PROVE TypeOK'
  BY <1>a, <1>11 DEF Connect, Changes, Change, TypeOK
<1>12. ASSUME NEW n \in Node, Restart(n) PROVE TypeOK'
  <2>1. changes' \in [Change -> Nat] /\ peers' \in [Node -> SUBSET Node] /\ met' \in [Node -> BOOLEAN]
    <3>1. changes' \in [Change -> Nat]
      BY <1>12 DEF Restart, Changes, Change, TypeOK
    <3>2. peers' \in [Node -> SUBSET Node]
      BY <1>12 DEF Restart, Alone, TypeOK
    <3>3. met' = [k \in Node |-> k # n /\ (met[k] \/ k \in peers[n])]
      BY <1>12 DEF Restart
    <3>4. met' \in [Node -> BOOLEAN]
      BY <3>3
    <3> QED BY <3>1, <3>2, <3>4
  <2>2. session' \in [Node -> Session] /\ seniority' \in [Node -> Nat \cup {-1}]
    BY <1>12, SeniorityAssumption DEF Restart, Session, TypeOK
  <2>3. /\ clock' \in [Node -> Nat] /\ commands' \in [Node -> Nat] /\ won' \in [Node -> Nat]
        /\ scope' \in [Node -> Nat \cup {NoRound}] /\ done' \in [Node -> Nat]
    BY <1>12 DEF Restart, TypeOK
  <2>4. net' \subseteq Mail
    BY <1>12, <1>d DEF Restart
  <2> QED BY <1>a, <2>1, <2>2, <2>3, <2>4 DEF TypeOK
<1> QED
  BY <1>1, <1>2, <1>3, <1>4, <1>5, <1>6, <1>7, <1>8, <1>9, <1>10, <1>11, <1>12 DEF Next, Step

(* A cluster that has formed has a member with the largest id: of the sets  *)
(* of members above one, a minimal one is empty.                           *)
LEMMA LeaderIsMember ==
  ASSUME setup \in Setups, Formed # {}
  PROVE  Leader \in Formed
<1> DEFINE F == Formed
           up(n) == {m \in F : m > n}
           T == {up(n) : n \in F}
<1>1. F \subseteq Node /\ F \subseteq Nat /\ IsFiniteSet(F)
  BY SetupsAssumption, NodeAssumption, FS_Subset DEF Formed
<1>2. IsWellFoundedOn(StrictSubsetOrdering(F), SUBSET F)
  BY <1>1, FS_StrictSubsetOrderingWellFounded, FS_FiniteSubsetsOfFinite
<1>3. T \subseteq SUBSET F /\ T # {}
  OBVIOUS
<1>4. PICK x \in T : \A y \in T : <<y, x>> \notin StrictSubsetOrdering(F)
  BY <1>2, <1>3, WFMin
<1>5. PICK n \in F : x = up(n)
  OBVIOUS
<1>6. \A m \in F : m <= n
  <2> SUFFICES ASSUME NEW m \in F, m > n PROVE FALSE
    BY <1>1
  <2>1. m \in up(n) /\ m \notin up(m)
    BY <1>1
  <2>2. \A k \in F : k > m => k > n
    BY <1>1
  <2> HIDE DEF F
  <2>3. up(m) \subseteq up(n) /\ up(m) \in SUBSET F /\ up(n) \in SUBSET F /\ up(m) \in T
    BY <2>2
  <2> HIDE DEF T, up
  <2>4. <<up(m), x>> \in StrictSubsetOrdering(F)
    BY <1>5, <2>1, <2>3 DEF StrictSubsetOrdering
  <2> QED BY <1>4, <2>3, <2>4
<1> QED BY <1>6 DEF Leader

LEMMA InitInv == Init => Inv
<1> SUFFICES ASSUME Init PROVE Inv
  OBVIOUS
<1>a. /\ setup \in Setups /\ Formed \subseteq Node /\ IsFiniteSet(Formed)
      /\ (Formed # {} => Leader \in Formed)
  BY SetupsAssumption, NodeAssumption, FS_Subset, LeaderIsMember DEF Init, Formed
<1>b. \A n \in Node : LET b == BootCampaign(n, InitialSeniority[n])
                      IN  b \in Campaign /\ IsFiniteSet(b.candidates) /\ RoundsOK({b}, 0, 0, 0)
  BY BootKeeps, FS_Singleton DEF BootCampaign, Spawned
<1>c. /\ clock = [n \in Node |-> IF n \in Formed THEN 1 ELSE 0] /\ won = clock /\ done = clock
      /\ scope = [n \in Node |-> IF n \in Formed THEN NoRound ELSE 0]
      /\ campaigns = [n \in Node |-> IF n \in Formed THEN {}
                                     ELSE {BootCampaign(n, InitialSeniority[n])}]
  BY DEF Init
<1>1. campaigns \in [Node -> SUBSET Campaign] /\ FiniteInv
  BY <1>b, <1>c DEF FiniteInv
<1>2. RoundInv
  <2> SUFFICES ASSUME NEW n \in Node PROVE RoundsOK(campaigns[n], clock[n], scope[n], won[n])
    BY DEF RoundInv
  <2>1. CASE n \in Formed
    <3>1. campaigns[n] = {} /\ clock[n] = 1 /\ won[n] = 1 /\ scope[n] = -1
      BY <1>c, <2>1 DEF NoRound
    <3> QED BY <3>1 DEF RoundsOK, Younger, InOrder, ScopeLaunched, NewestLast
  <2>2. CASE n \notin Formed
    BY <1>b, <1>c, <2>2
  <2> QED BY <2>1, <2>2
<1>3. seniority \in [Node -> Nat \cup {-1}] /\ session \in [Node -> Session]
  <2>1. Cardinality(Formed) \in Nat
    BY <1>a, FS_CardinalityType
  <2>2. \A n \in Node : InitialSeniority[n] \in Nat \cup {-1}
    BY SeniorityAssumption
  <2>3. seniority \in [Node -> Nat \cup {-1}]
    BY <2>1, <2>2 DEF Init
  <2>4. \A n \in Node : (IF n \in Formed THEN Leader ELSE n) \in Node
    BY <1>a
  <2>5. session \in [Node -> Session]
    BY <2>4 DEF Init, Session
  <2> QED BY <2>3, <2>5
<1>4. TypeOK
  <2>1. clock \in [Node -> Nat] /\ scope \in [Node -> Nat \cup {NoRound}]
    BY <1>c
  <2> QED BY <1>a, <1>c, <1>1, <1>3, <2>1 DEF Init, TypeOK
<1> QED BY <1>1, <1>2, <1>4 DEF Inv

LEMMA NextInv == Inv /\ [Next]_vars => Inv'
<1> SUFFICES ASSUME Inv, [Next]_vars PROVE Inv'
  OBVIOUS
<1> USE DEF Inv
<1>1. CASE Next
  BY <1>1, RoundStep, FiniteStep, TypeStep
<1>2. CASE UNCHANGED vars
  BY <1>2 DEF vars, TypeOK, FiniteInv, RoundInv
<1> QED BY <1>1, <1>2

LEMMA Invariant == Spec => []Inv
<1> QED BY InitInv, NextInv, PTL DEF Spec

LEMMA InvDecides == Inv => NewestRoundDecides
<1> SUFFICES ASSUME Inv, NEW n \in Node
             PROVE  /\ \A c \in campaigns[n] : c.cancelled => c.round < clock[n]
                    /\ campaigns[n] = {} => won[n] = clock[n]
  BY DEF NewestRoundDecides
<1>1. RoundsOK(campaigns[n], clock[n], scope[n], won[n])
  BY DEF Inv, RoundInv
<1> QED BY <1>1 DEF RoundsOK, Younger, NewestLast

-----------------------------------------------------------------------------
(* Types: a seniority is a number of candidates or what the node was        *)
(* started with, and the session a node works in names one of the nodes    *)
(* (election.py:64-84).                                                    *)
THEOREM ElectionTypes == Spec => []TypeOK
<1>1. Inv => TypeOK
  BY DEF Inv
<1> QED BY <1>1, Invariant, PTL

(* The newest round of a node is never cancelled, and it is the one that    *)
(* decides: whatever messages are lost or late, whoever connects, leaves or *)
(* restarts, and in whatever order the tasks of a node take their turns     *)
(* (election.py:127-252).                                                  *)
THEOREM TheNewestRoundDecides == Spec => []NewestRoundDecides
<1> QED BY InvDecides, Invariant, PTL

-----------------------------------------------------------------------------
(* The loop that acts on the results.                                      *)

(* Results that follow on session s: each says whether it changes the one   *)
(* before it.                                                               *)
Chained(rs, s) ==
  \A i \in 1 .. Len(rs) :
    rs[i].new <=> rs[i].session # IF i = 1 THEN s ELSE rs[i - 1].session

LastSession(rs, s) == IF rs = <<>> THEN s ELSE rs[Len(rs)].session

LastWon(rs, h, c) == IF rs # <<>> THEN rs[Len(rs)].won ELSE IF h # None THEN h.won ELSE c

(* Where a node stands: its router is in the session of the last result     *)
(* that was handled, from which the waiting ones lead to the session of     *)
(* the election; it is paused only with a result or a round to come.       *)
Follows(n) ==
  /\ IF handling[n] = None THEN worker[n] = router[n] ELSE router[n] = handling[n].session
  /\ master[n] # None <=> router[n][1] = n
  /\ Chained(results[n], router[n])
  /\ session[n] = LastSession(results[n], router[n])
  /\ won[n] = LastWon(results[n], handling[n], completed[n])
  /\ paused[n] => Handling(n) \/ won[n] < clock[n]

LoopInv == LTypeOK /\ \A n \in Node : Follows(n)

-----------------------------------------------------------------------------
LEMMA NoResult ==
  /\ \A r \in Result : r # None
  /\ \A s \in Session : s # None
<1>1. ASSUME NEW r \in Result PROVE r # None
  <2>1. DOMAIN r = {"session", "won", "new"}
    BY DEF Result
  <2>2. DOMAIN None = {}
    BY DEF None
  <2> QED BY <2>1, <2>2
<1>2. ASSUME NEW s \in Session PROVE s # None
  BY <1>2 DEF Session, None
<1> QED BY <1>1, <1>2

LEMMA AppendChained ==
  ASSUME NEW rs \in Seq(Result), NEW s, Chained(rs, s), NEW r \in Result,
         r.new <=> r.session # LastSession(rs, s)
  PROVE  /\ Append(rs, r) \in Seq(Result) /\ Append(rs, r) # <<>>
         /\ Chained(Append(rs, r), s)
         /\ LastSession(Append(rs, r), s) = r.session
         /\ \A h, c : LastWon(Append(rs, r), h, c) = r.won
<1> DEFINE ss == Append(rs, r)
<1>1. /\ ss \in Seq(Result) /\ Len(ss) = Len(rs) + 1 /\ ss[Len(ss)] = r /\ ss # <<>>
      /\ \A i \in 1 .. Len(rs) : ss[i] = rs[i]
  OBVIOUS
<1>2. Len(rs) \in Nat /\ (rs = <<>> <=> Len(rs) = 0)
  OBVIOUS
<1> HIDE DEF ss
<1>3. Chained(ss, s)
  <2> SUFFICES ASSUME NEW i \in 1 .. Len(ss)
               PROVE  ss[i].new <=> ss[i].session # IF i = 1 THEN s ELSE ss[i - 1].session
    BY DEF Chained
  <2>1. CASE i \in 1 .. Len(rs)
    <3>1. ss[i] = rs[i] /\ (i # 1 => ss[i - 1] = rs[i - 1])
      BY <1>1, <1>2, <2>1
    <3> QED BY <2>1, <3>1 DEF Chained
  <2>2. CASE i = Len(rs) + 1
    <3>1. ss[i] = r /\ (i # 1 => ss[i - 1] = rs[Len(rs)])
      BY <1>1, <1>2, <2>2
    <3> QED BY <1>2, <2>2, <3>1 DEF LastSession
  <2> QED BY <1>1, <1>2, <2>1, <2>2
<1> QED BY <1>1, <1>3 DEF LastSession, LastWon, ss

LEMMA TailChained ==
  ASSUME NEW rs \in Seq(Result), rs # <<>>, NEW s, Chained(rs, s)
  PROVE  /\ Head(rs) \in Result /\ Tail(rs) \in Seq(Result)
         /\ Head(rs).new <=> Head(rs).session # s
         /\ Chained(Tail(rs), Head(rs).session)
         /\ LastSession(Tail(rs), Head(rs).session) = LastSession(rs, s)
         /\ \A h, c : LastWon(rs, h, c) = IF Tail(rs) = <<>> THEN Head(rs).won
                                          ELSE Tail(rs)[Len(Tail(rs))].won
<1> DEFINE ts == Tail(rs)
<1>1. /\ ts \in Seq(Result) /\ Head(rs) = rs[1] /\ rs[1] \in Result
      /\ Len(ts) = Len(rs) - 1 /\ Len(rs) \in Nat /\ Len(rs) >= 1
      /\ \A i \in 1 .. Len(ts) : ts[i] = rs[i + 1]
  OBVIOUS
<1> HIDE DEF ts
<1>2. ts = <<>> <=> Len(ts) = 0
  BY <1>1
<1>3. Head(rs).new <=> Head(rs).session # s
  BY <1>1 DEF Chained
<1>4. Chained(ts, Head(rs).session)
  <2> SUFFICES ASSUME NEW i \in 1 .. Len(ts)
               PROVE  ts[i].new <=> ts[i].session # IF i = 1 THEN rs[1].session
                                                    ELSE ts[i - 1].session
    BY <1>1 DEF Chained
  <2>1. i + 1 \in 1 .. Len(rs) /\ i + 1 # 1 /\ (i + 1) - 1 = i
    BY <1>1
  <2>2. rs[i + 1].new <=> rs[i + 1].session # rs[i].session
    BY <2>1 DEF Chained
  <2>3. ts[i] = rs[i + 1] /\ (i # 1 => ts[i - 1] = rs[i])
    BY <1>1
  <2> QED BY <2>2, <2>3
<1>5. ts # <<>> => ts[Len(ts)] = rs[Len(rs)]
  BY <1>1, <1>2
<1>6. ts = <<>> => Len(rs) = 1
  BY <1>1, <1>2
<1> QED BY <1>1, <1>3, <1>4, <1>5, <1>6 DEF LastSession, LastWon, ts

-----------------------------------------------------------------------------
(* Every step of the composition is a step of the election or leaves it     *)
(* alone, from the states it starts in.                                     *)
LEMMA LInitIsInit == LInit => Init
BY DEF LInit

LEMMA LNextIsNext == [LNext]_allVars => [Next]_vars
<1> SUFFICES ASSUME [LNext]_allVars PROVE [Next]_vars
  OBVIOUS
<1>1. CASE LNext
  <2>1. setup' = setup
    BY <1>1 DEF LNext
  <2>2. CASE Deliver \/ Lose
    BY <2>1, <2>2 DEF Next
  <2>3. ASSUME NEW n \in Node, LStep(n) \/ Pause(n) PROVE UNCHANGED vars
    BY <2>3 DEF LStep, Keep, Rebuild, Recreate, Pause
  <2>4. ASSUME NEW n \in Node, Turn(n),
               \/ Finish(n) \/ HandleConnection(n) \/ Start(n)
               \/ Launch(n) \/ Rebroadcast(n) \/ Abort(n)
        PROVE  Next
    BY <2>1, <2>4 DEF Next, Step
  <2>5. ASSUME NEW n \in Node,
               \/ CommandSeen(n) \/ Disconnect(n) \/ Reboot(n)
               \/ \E m \in Node \ {n} : Connect(n, m)
        PROVE  Next
    BY <2>1, <2>5 DEF Next, Reboot
  <2> QED BY <1>1, <2>2, <2>3, <2>4, <2>5 DEF LNext
<1>2. CASE UNCHANGED allVars
  BY <1>2 DEF allVars
<1> QED BY <1>1, <1>2

-----------------------------------------------------------------------------
LEMMA LInitInv == LInit => LoopInv
<1> SUFFICES ASSUME LInit PROVE LoopInv
  OBVIOUS
<1>1. session \in [Node -> Session] /\ won \in [Node -> Nat] /\ TypeOK
  BY LInitIsInit, InitInv DEF Inv, TypeOK
<1>2. LTypeOK
  BY <1>1 DEF LInit, LTypeOK
<1>3. ASSUME NEW n \in Node PROVE Follows(n)
  <2>1. /\ results[n] = <<>> /\ handling[n] = None /\ worker[n] = session[n]
        /\ router[n] = session[n] /\ completed[n] = won[n] /\ paused[n] = FALSE
        /\ session[n] # None
        /\ master[n] = IF session[n][1] = n THEN session[n] ELSE None
    BY <1>1, NoResult DEF LInit
  <2> QED BY <2>1 DEF Follows, Chained, LastSession, LastWon, None
<1> QED BY <1>2, <1>3 DEF LoopInv

(* A step of the election that announces nothing.                          *)
LEMMA UnannouncedStep ==
  ASSUME LoopInv, TypeOK, UNCHANGED <<loopVars, session, won>>,
         clock' \in [Node -> Nat], \A n \in Node : clock'[n] >= clock[n]
  PROVE  LoopInv'
<1>1. LTypeOK'
  BY DEF LoopInv, LTypeOK, loopVars
<1>2. ASSUME NEW n \in Node PROVE Follows(n)'
  <2>1. won[n] \in Nat /\ clock[n] \in Nat /\ clock'[n] \in Nat /\ clock'[n] >= clock[n]
    BY DEF TypeOK
  <2>2. won[n] < clock[n] => won[n] < clock'[n]
    BY <2>1
  <2>3. Follows(n)
    BY DEF LoopInv
  <2> QED BY <2>2, <2>3 DEF Follows, Handling, loopVars
<1> QED BY <1>1, <1>2 DEF LoopInv

LEMMA LoopStep ==
  ASSUME LoopInv, TypeOK, TypeOK', LNext
  PROVE  LoopInv'
<1>a. /\ results \in [Node -> Seq(Result)] /\ handling \in [Node -> Result \cup {None}]
      /\ master \in [Node -> Session \cup {None}] /\ router \in [Node -> Session]
      /\ worker \in [Node -> Session] /\ completed \in [Node -> Nat]
      /\ paused \in [Node -> BOOLEAN]
  BY DEF LoopInv, LTypeOK
<1>b. /\ clock \in [Node -> Nat] /\ clock' \in [Node -> Nat]
      /\ session \in [Node -> Session] /\ session' \in [Node -> Session]
      /\ won \in [Node -> Nat] /\ won' \in [Node -> Nat]
  BY DEF TypeOK
<1>c. \A n \in Node : Follows(n)
  BY DEF LoopInv
<1>d. ASSUME NEW n \in Node, NEW s \in Session
      PROVE  /\ MasterAfter(n, s) \in Session \cup {None}
             /\ (master[n] # None <=> router[n][1] = n) =>
                  (MasterAfter(n, s) # None <=> s[1] = n)
  BY <1>a, NoResult DEF MasterAfter
<1>1. CASE (Deliver \/ Lose) /\ UNCHANGED loopVars
  <2>1. UNCHANGED <<session, won>> /\ \A n \in Node : clock'[n] >= clock[n]
    <3>1. CASE Lose
      BY <1>b, <3>1 DEF Lose
    <3>2. CASE Deliver
      <4> PICK p \in net : Deliver!(p)
        BY <3>2 DEF Deliver
      <4>1. p.letter.message.clock \in Nat
        BY DEF TypeOK, Letter, Message
      <4> QED BY <1>b, <4>1
    <3> QED BY <1>1, <3>1, <3>2
  <2> QED BY <1>1, <1>b, <2>1, UnannouncedStep
<1>2. ASSUME NEW n \in Node, Keep(n) PROVE LoopInv'
  <2> DEFINE r == Head(results[n])
  <2>1. /\ r \in Result /\ Tail(results[n]) \in Seq(Result) /\ r.session = router[n]
        /\ Chained(Tail(results[n]), router[n])
        /\ session[n] = LastSession(Tail(results[n]), router[n])
        /\ won[n] = LastWon(Tail(results[n]), None, r.won)
    <3>1. results[n] \in Seq(Result) /\ results[n] # <<>> /\ Chained(results[n], router[n])
      BY <1>2, <1>a, <1>c DEF Keep, Follows
    <3>2. /\ Head(results[n]) \in Result /\ Tail(results[n]) \in Seq(Result)
          /\ Head(results[n]).new <=> Head(results[n]).session # router[n]
          /\ Chained(Tail(results[n]), Head(results[n]).session)
          /\ LastSession(Tail(results[n]), Head(results[n]).session)
               = LastSession(results[n], router[n])
          /\ \A h, c : LastWon(results[n], h, c) =
                IF Tail(results[n]) = <<>> THEN Head(results[n]).won
                ELSE Tail(results[n])[Len(Tail(results[n]))].won
      BY <3>1, TailChained
    <3>3. /\ session[n] = LastSession(results[n], router[n])
          /\ won[n] = LastWon(results[n], handling[n], completed[n])
      BY <1>c DEF Follows
    <3> QED BY <1>2, <3>2, <3>3 DEF Keep, LastWon
  <2> HIDE DEF r
  <2>2. r.session \in Session /\ r.won \in Nat
    BY <2>1 DEF Result
  <2>3. /\ results' = [results EXCEPT ![n] = Tail(@)]
        /\ master' = [master EXCEPT ![n] = MasterAfter(n, r.session)]
        /\ completed' = [completed EXCEPT ![n] = r.won] /\ paused' = [paused EXCEPT ![n] = FALSE]
        /\ handling[n] = None /\ UNCHANGED <<session, won, clock, handling, router, worker>>
    BY <1>2 DEF Keep, Unpause, vars, r
  <2>4. LTypeOK'
    BY <1>a, <1>d, <2>1, <2>2, <2>3 DEF LTypeOK
  <2>5. Follows(n)'
    BY <1>a, <1>c, <1>d, <2>1, <2>2, <2>3 DEF Follows
  <2>6. \A m \in Node \ {n} : Follows(m)'
    BY <1>a, <1>c, <2>3 DEF Follows, Handling
  <2> QED BY <2>4, <2>5, <2>6 DEF LoopInv
<1>3. ASSUME NEW n \in Node, Rebuild(n) PROVE LoopInv'
  <2> DEFINE r == Head(results[n])
  <2>1. /\ r \in Result /\ Tail(results[n]) \in Seq(Result)
        /\ Chained(Tail(results[n]), r.session)
        /\ session[n] = LastSession(Tail(results[n]), r.session)
        /\ \A c : won[n] = LastWon(Tail(results[n]), r, c)
    <3>1. results[n] \in Seq(Result) /\ results[n] # <<>> /\ Chained(results[n], router[n])
      BY <1>3, <1>a, <1>c DEF Rebuild, Follows
    <3>2. /\ Head(results[n]) \in Result /\ Tail(results[n]) \in Seq(Result)
          /\ Head(results[n]).new <=> Head(results[n]).session # router[n]
          /\ Chained(Tail(results[n]), Head(results[n]).session)
          /\ LastSession(Tail(results[n]), Head(results[n]).session)
               = LastSession(results[n], router[n])
          /\ \A h, c : LastWon(results[n], h, c) =
                IF Tail(results[n]) = <<>> THEN Head(results[n]).won
                ELSE Tail(results[n])[Len(Tail(results[n]))].won
      BY <3>1, TailChained
    <3>3. /\ session[n] = LastSession(results[n], router[n])
          /\ won[n] = LastWon(results[n], handling[n], completed[n])
      BY <1>c DEF Follows
    <3> QED BY <1>3, <3>2, <3>3, NoResult DEF Rebuild, LastWon
  <2> HIDE DEF r
  <2>2. r.session \in Session /\ r.won \in Nat /\ r # None
    BY <2>1, NoResult DEF Result
  <2>3. /\ results' = [results EXCEPT ![n] = Tail(@)]
        /\ master' = [master EXCEPT ![n] = MasterAfter(n, r.session)]
        /\ router' = [router EXCEPT ![n] = r.session] /\ handling' = [handling EXCEPT ![n] = r]
        /\ UNCHANGED <<session, won, clock, worker, completed, paused>>
    BY <1>3 DEF Rebuild, vars, r
  <2>4. LTypeOK'
    BY <1>a, <1>d, <2>1, <2>2, <2>3 DEF LTypeOK
  <2>5. Follows(n)'
    BY <1>a, <1>c, <1>d, <2>1, <2>2, <2>3 DEF Follows, Handling
  <2>6. \A m \in Node \ {n} : Follows(m)'
    BY <1>a, <1>c, <2>3 DEF Follows, Handling
  <2> QED BY <2>4, <2>5, <2>6 DEF LoopInv
<1>4. ASSUME NEW n \in Node, Recreate(n) PROVE LoopInv'
  <2>1. /\ worker' = [worker EXCEPT ![n] = router[n]]
        /\ completed' = [completed EXCEPT ![n] = handling[n].won]
        /\ paused' = [paused EXCEPT ![n] = FALSE] /\ handling' = [handling EXCEPT ![n] = None]
        /\ handling[n] # None /\ UNCHANGED <<session, won, clock, results, master, router>>
    BY <1>4 DEF Recreate, Unpause, SessionOfRouter, vars
  <2>2. handling[n] \in Result /\ handling[n].won \in Nat
    BY <1>a, <2>1 DEF Result
  <2>3. LTypeOK'
    BY <1>a, <2>1, <2>2 DEF LTypeOK
  <2>4. Follows(n)'
    BY <1>a, <1>c, <2>1 DEF Follows, LastWon
  <2>5. \A m \in Node \ {n} : Follows(m)'
    BY <1>a, <1>c, <2>1 DEF Follows, Handling
  <2> QED BY <2>3, <2>4, <2>5 DEF LoopInv
<1>5. ASSUME NEW n \in Node, Pause(n) PROVE LoopInv'
  <2>1. /\ \E c \in 1 .. clock[n] : c > completed[n]
        /\ paused' = [paused EXCEPT ![n] = TRUE]
        /\ UNCHANGED <<session, won, clock, results, handling, master, router, worker, completed>>
    BY <1>5 DEF Pause, vars
  <2>2. LTypeOK'
    BY <1>a, <2>1 DEF LTypeOK
  <2>3. completed[n] < clock[n]
    BY <1>a, <1>b, <2>1
  <2>4. Follows(n)'
    BY <1>a, <1>c, <2>1, <2>3 DEF Follows, Handling, LastWon
  <2>5. \A m \in Node \ {n} : Follows(m)'
    BY <1>a, <1>c, <2>1 DEF Follows, Handling
  <2> QED BY <2>2, <2>4, <2>5 DEF LoopInv
<1>6. ASSUME NEW n \in Node, Finish(n), Announce(n) PROVE LoopInv'
  <2> DEFINE r == [session |-> session'[n], won |-> won'[n], new |-> session'[n] # session[n]]
  <2>1. r \in Result
    BY <1>b DEF Result
  <2>2. /\ clock' = clock /\ \A m \in Node \ {n} : session'[m] = session[m] /\ won'[m] = won[m]
    BY <1>6, <1>b DEF Finish
  <2>3. /\ results' = [results EXCEPT ![n] = Append(@, r)]
        /\ UNCHANGED <<handling, master, router, worker, completed, paused>>
    BY <1>6 DEF Announce
  <2>4. r.session = session'[n] /\ r.won = won'[n] /\ (r.new <=> session'[n] # session[n])
    OBVIOUS
  <2> HIDE DEF r
  <2>5. /\ Append(results[n], r) \in Seq(Result) /\ Append(results[n], r) # <<>>
        /\ Chained(Append(results[n], r), router[n])
        /\ LastSession(Append(results[n], r), router[n]) = session'[n]
        /\ LastWon(Append(results[n], r), handling[n], completed[n]) = won'[n]
    <3>1. r.new <=> r.session # LastSession(results[n], router[n])
      BY <1>c, <2>4 DEF Follows
    <3>2. results[n] \in Seq(Result) /\ Chained(results[n], router[n])
      BY <1>a, <1>c DEF Follows
    <3>3. /\ Append(results[n], r) \in Seq(Result) /\ Append(results[n], r) # <<>>
          /\ Chained(Append(results[n], r), router[n])
          /\ LastSession(Append(results[n], r), router[n]) = r.session
          /\ \A h, c : LastWon(Append(results[n], r), h, c) = r.won
      BY <2>1, <3>1, <3>2, AppendChained
    <3> QED BY <2>4, <3>3
  <2>6. LTypeOK'
    BY <1>a, <2>3, <2>5 DEF LTypeOK
  <2>7. Follows(n)'
    BY <1>a, <1>c, <2>3, <2>5 DEF Follows, Handling
  <2>8. \A m \in Node \ {n} : Follows(m)'
    BY <1>a, <1>c, <2>2, <2>3 DEF Follows, Handling
  <2> QED BY <2>6, <2>7, <2>8 DEF LoopInv
<1>7. ASSUME NEW n \in Node, UNCHANGED loopVars,
             \/ HandleConnection(n) \/ Start(n) \/ Launch(n) \/ Rebroadcast(n) \/ Abort(n)
             \/ CommandSeen(n) \/ Disconnect(n) \/ \E m \in Node \ {n} : Connect(n, m)
      PROVE  LoopInv'
  <2>1. UNCHANGED <<session, won>> /\ \A m \in Node : clock'[m] >= clock[m]
    <3>1. CASE HandleConnection(n)
      BY <3>1, <1>b DEF HandleConnection
    <3>2. CASE ~HandleConnection(n)
      <4>1. UNCHANGED <<session, won, clock>>
        BY <1>7, <3>2 DEF Start, Launch, Rebroadcast, Abort, CommandSeen, Disconnect, Connect
      <4> QED BY <1>b, <4>1
    <3> QED BY <3>1, <3>2
  <2> QED BY <1>7, <1>b, <2>1, UnannouncedStep
<1>8. ASSUME NEW n \in Node, Reboot(n) PROVE LoopInv'
  <2>1. /\ session' = [session EXCEPT ![n] = <<n, 0>>] /\ won' = [won EXCEPT ![n] = 0]
        /\ \A m \in Node \ {n} : clock'[m] = clock[m]
    BY <1>8, <1>b DEF Reboot, Restart
  <2>2. /\ results' = [results EXCEPT ![n] = <<>>] /\ handling' = [handling EXCEPT ![n] = None]
        /\ master' = [master EXCEPT ![n] = session'[n]]
        /\ router' = [router EXCEPT ![n] = session'[n]]
        /\ worker' = [worker EXCEPT ![n] = session'[n]]
        /\ completed' = [completed EXCEPT ![n] = 0] /\ paused' = [paused EXCEPT ![n] = FALSE]
    BY <1>8 DEF Reboot
  <2>3. session'[n] \in Session /\ session'[n] # None /\ session'[n][1] = n /\ won'[n] = 0
    BY <1>b, <2>1, NoResult
  <2>4. LTypeOK'
    BY <1>a, <2>2, <2>3 DEF LTypeOK
  <2>5. Follows(n)'
    BY <1>a, <2>2, <2>3 DEF Follows, Chained, LastSession, LastWon
  <2>6. \A m \in Node \ {n} : Follows(m)'
    BY <1>a, <1>b, <1>c, <2>1, <2>2 DEF Follows, Handling
  <2> QED BY <2>4, <2>5, <2>6 DEF LoopInv
<1> QED
  BY <1>1, <1>2, <1>3, <1>4, <1>5, <1>6, <1>7, <1>8 DEF LNext, LStep

LEMMA LNextInv == Inv /\ LoopInv /\ [LNext]_allVars => Inv' /\ LoopInv'
<1> SUFFICES ASSUME Inv, LoopInv, [LNext]_allVars PROVE Inv' /\ LoopInv'
  OBVIOUS
<1>1. Inv'
  BY LNextIsNext, NextInv
<1>2. CASE LNext
  BY <1>1, <1>2, LoopStep DEF Inv
<1>3. CASE UNCHANGED allVars
  <2>1. UNCHANGED <<loopVars, session, won>> /\ clock' = clock
    BY <1>3 DEF allVars, vars
  <2>2. clock \in [Node -> Nat] /\ \A n \in Node : clock[n] >= clock[n]
    BY DEF Inv, TypeOK
  <2>3. LoopInv'
    BY <2>1, <2>2, UnannouncedStep DEF Inv
  <2> QED BY <1>1, <2>3
<1> QED BY <1>1, <1>2, <1>3

LEMMA LInvariant == LSpec => [](Inv /\ LoopInv)
<1>1. LInit => Inv /\ LoopInv
  BY LInitIsInit, InitInv, LInitInv
<1> QED BY <1>1, LNextInv, PTL DEF LSpec

-----------------------------------------------------------------------------
(* What the elect loop and the API do never disturbs the election: the      *)
(* composition implements Election, so that nodes decide by their newest    *)
(* rounds there as well (main.py:192-269, election.py:111-122).            *)
THEOREM LoopImplementsElection == LSpec => Spec
<1> QED BY LInitIsInit, LNextIsNext, PTL DEF LSpec, Spec

(* A node that has caught up with its results runs a Master if and only if  *)
(* its session names it, and its router, worker and coordinator are those   *)
(* of that session, however many results were waiting and whatever came in  *)
(* while the worker stopped (main.py:192-269).                             *)
THEOREM ComponentsFollow == LSpec => []ComponentsFollowElection
<1>1. LoopInv => ComponentsFollowElection
  BY DEF LoopInv, Follows, Chained, LastSession, ComponentsFollowElection, CaughtUp, Handling
<1> QED BY <1>1, LInvariant, PTL

(* The API is never left paused: when it is, a result is to be handled or   *)
(* the round that paused it has not been decided (api/main.py:302-321,     *)
(* 2015-2019).                                                             *)
THEOREM PausesEnd == LSpec => []PausedOnlyForElections
<1>1. Inv /\ LoopInv => PausedOnlyForElections
  <2> SUFFICES ASSUME Inv, LoopInv, NEW n \in Node, ~Handling(n), campaigns[n] = {}, paused[n]
               PROVE  FALSE
    BY DEF PausedOnlyForElections, CaughtUp
  <2>1. won[n] < clock[n]
    BY DEF LoopInv, Follows
  <2>2. won[n] = clock[n]
    BY InvDecides DEF NewestRoundDecides
  <2>3. clock[n] \in Nat
    BY DEF Inv, TypeOK
  <2> QED BY <2>1, <2>2, <2>3
<1> QED BY <1>1, LInvariant, PTL

-----------------------------------------------------------------------------
(* Routing.                                                                 *)

LEMMA RoutingInitTypes ==
  ASSUME RInit
  PROVE  RoutingTypeOK
<1>1. AtRest \in Publishing
  BY DEF Publishing
<1>2. pub \in [Loops -> Publishing]
  BY <1>1 DEF RInit
<1> QED
  BY <1>2 DEF RInit, RoutingTypeOK

(* What a loop may come to publish, and how far.                            *)
LEMMA PublishingOf ==
  ASSUME NEW m \in TopicItem, NEW c \in SUBSET Receivers, NEW e \in SUBSET Receivers,
         NEW d \in SUBSET Receivers
  PROVE  /\ AtRest \in Publishing
         /\ [at |-> "copy", item |-> m] \in Publishing
         /\ [at |-> "send", item |-> m, copied |-> c, left |-> e, to_clear |-> d] \in Publishing
BY DEF Publishing

LEMMA PublishingIs ==
  ASSUME NEW u \in Publishing
  PROVE  /\ u.at \in {"idle", "copy", "send"}
         /\ u.at = "idle" <=> u = AtRest
         /\ u.at = "copy" => u.item \in TopicItem /\ u = [at |-> "copy", item |-> u.item]
         /\ u.at = "send" =>
              /\ u.item \in TopicItem /\ u.copied \in SUBSET Receivers /\ u.left \in SUBSET Receivers
              /\ u.to_clear \in SUBSET Receivers
              /\ u = [at |-> "send", item |-> u.item, copied |-> u.copied, left |-> u.left,
                      to_clear |-> u.to_clear]
<1>1. CASE u = AtRest
  BY <1>1 DEF AtRest
<1>2. CASE u \in [at : {"copy"}, item : TopicItem]
  BY <1>2 DEF AtRest
<1>3. CASE u \in [at : {"send"}, item : TopicItem, copied : SUBSET Receivers, left : SUBSET Receivers,
                  to_clear : SUBSET Receivers]
  BY <1>3 DEF AtRest
<1> QED
  BY <1>1, <1>2, <1>3 DEF Publishing

(* What SendTo does to its loop.                                            *)
LEMMA SendToMoves ==
  ASSUME RoutingTypeOK, NEW l \in Loops, NEW r \in Receivers, SendTo(l, r)
  PROVE  pub' = [pub EXCEPT ![l] =
                   [at |-> "send", item |-> pub[l].item, copied |-> pub[l].copied,
                    left |-> pub[l].left \ {r},
                    to_clear |-> IF state[r] = "open" THEN pub[l].to_clear
                                 ELSE pub[l].to_clear \cup {r}]]
<1> DEFINE u == pub[l]
<1>1. u \in Publishing /\ u.at = "send"
  BY DEF RoutingTypeOK, SendTo
<1>2. u = [at |-> "send", item |-> u.item, copied |-> u.copied, left |-> u.left,
           to_clear |-> u.to_clear]
  BY <1>1, PublishingIs
<1>3. CASE state[r] = "open"
  <2>1. pub' = [pub EXCEPT ![l] = [u EXCEPT !.left = @ \ {r}]]
    BY <1>3 DEF SendTo
  <2>2. [u EXCEPT !.left = @ \ {r}] =
          [at |-> "send", item |-> u.item, copied |-> u.copied, left |-> u.left \ {r},
           to_clear |-> u.to_clear]
    BY <1>2
  <2> QED
    BY <1>3, <2>1, <2>2
<1>4. CASE state[r] # "open"
  <2>1. pub' = [pub EXCEPT ![l].left = @ \ {r}, ![l].to_clear = @ \cup {r}]
    BY <1>4 DEF SendTo
  <2>2. /\ pub' \in [Loops -> {pub'[m] : m \in Loops}] /\ \A m \in Loops : m # l => pub'[m] = pub[m]
        /\ pub'[l] = [[u EXCEPT !.left = @ \ {r}] EXCEPT !.to_clear = @ \cup {r}]
    BY <2>1 DEF RoutingTypeOK
  <2>3. [u EXCEPT !.left = @ \ {r}] =
          [at |-> "send", item |-> u.item, copied |-> u.copied, left |-> u.left \ {r},
           to_clear |-> u.to_clear]
    BY <1>2
  <2>4. pub'[l] = [at |-> "send", item |-> u.item, copied |-> u.copied, left |-> u.left \ {r},
                   to_clear |-> u.to_clear \cup {r}]
    BY <2>2, <2>3
  <2> QED
    BY <1>4, <2>2, <2>4 DEF RoutingTypeOK
<1> QED
  BY <1>3, <1>4

LEMMA SendToLoops ==
  ASSUME RoutingTypeOK, NEW l \in Loops, NEW r \in Receivers, SendTo(l, r)
  PROVE  /\ pub[l].at = "send" /\ r \in pub[l].left
         /\ \A m \in Loops : m # l => pub'[m] = pub[m]
         /\ pub'[l].at = "send" /\ pub'[l].item = pub[l].item /\ pub'[l].copied = pub[l].copied
         /\ pub'[l].left = pub[l].left \ {r}
         /\ state[r] = "open" => pub'[l].to_clear = pub[l].to_clear
         /\ state[r] # "open" => pub'[l].to_clear = pub[l].to_clear \cup {r}
<1> DEFINE c == IF state[r] = "open" THEN pub[l].to_clear ELSE pub[l].to_clear \cup {r}
           v == [at |-> "send", item |-> pub[l].item, copied |-> pub[l].copied,
                 left |-> pub[l].left \ {r}, to_clear |-> c]
<1>1. pub' = [pub EXCEPT ![l] = v]
  BY SendToMoves
<1>2. pub[l].at = "send" /\ r \in pub[l].left
  BY DEF SendTo
<1>3. pub \in [Loops -> Publishing]
  BY DEF RoutingTypeOK
<1>4. /\ v.at = "send" /\ v.item = pub[l].item /\ v.copied = pub[l].copied
      /\ v.left = pub[l].left \ {r} /\ v.to_clear = c
  OBVIOUS
<1> HIDE DEF v
<1>5. pub'[l] = v /\ \A m \in Loops : m # l => pub'[m] = pub[m]
  BY <1>1, <1>3
<1> QED
  BY <1>2, <1>4, <1>5

LEMMA CountsAfter ==
  ASSUME NEW c \in [here : Nat, there : Nat]
  PROVE  /\ c.here \in Nat /\ c.there \in Nat
         /\ [c EXCEPT !.here = @ + 1] = [here |-> c.here + 1, there |-> c.there]
         /\ [c EXCEPT !.there = @ + 1] = [here |-> c.here, there |-> c.there + 1]
OBVIOUS

LEMMA RoutingKeepsTypes ==
  ASSUME RoutingTypeOK, [RNext]_rvars
  PROVE  RoutingTypeOK'
<1> USE DEF RoutingTypeOK
<1>1. ASSUME NEW r \in Receivers, Receive(r)
      PROVE  RoutingTypeOK'
  BY <1>1 DEF Receive
<1>2. ASSUME NEW r \in Receivers, Close(r)
      PROVE  RoutingTypeOK'
  BY <1>2 DEF Close
<1>3. CASE Send
  <2>1. count' \in [here : Nat, there : Nat]
    BY <1>3 DEF Send
  <2>2. queue' \in Seq(Nat)
    BY <1>3, <2>1 DEF Send
  <2> QED
    BY <1>3, <2>1, <2>2 DEF Send
<1>4. CASE Run
  <2>1. queue \in Seq(Nat) /\ queue # <<>>
    BY <1>4 DEF Run
  <2>2. Head(queue) \in Nat /\ Tail(queue) \in Seq(Nat) /\ "run" \in Loops
    BY <2>1 DEF Loops
  <2>3. outgoing' \in {outgoing, Append(outgoing, Head(queue))}
    BY <1>4 DEF Run
  <2>4. outgoing' \in Seq(Nat)
    <3>1. Append(outgoing, Head(queue)) \in Seq(Nat)
      BY <2>2
    <3> QED
      BY <2>3, <3>1
  <2>5. pub' \in {pub, [pub EXCEPT !["run"] = [at |-> "copy", item |-> <<"here", Head(queue)>>]]}
    BY <1>4 DEF Run
  <2>6. pub' \in [Loops -> Publishing]
    <3>1. <<"here", Head(queue)>> \in TopicItem
      BY <2>2 DEF TopicItem
    <3>2. [at |-> "copy", item |-> <<"here", Head(queue)>>] \in Publishing
      BY <3>1 DEF Publishing
    <3> QED
      BY <2>5, <3>2
  <2> QED
    BY <1>4, <2>2, <2>4, <2>6 DEF Run
<1>5. CASE NetworkingRecv
  <2>1. count' \in [here : Nat, there : Nat]
    <3>1. count' = [count EXCEPT !.there = @ + 1]
      BY <1>5 DEF NetworkingRecv
    <3>2. count' = [here |-> count.here, there |-> count.there + 1]
      BY <3>1, CountsAfter
    <3>3. count.here \in Nat /\ count.there \in Nat
      BY CountsAfter
    <3> QED
      BY <3>2, <3>3
  <2>2. FromSwarm(count'.there) \in TopicItem
    BY <2>1 DEF FromSwarm, TopicItem
  <2>3. [at |-> "copy", item |-> FromSwarm(count'.there)] \in Publishing
    BY <2>2 DEF Publishing
  <2>4. pub' \in [Loops -> Publishing]
    BY <1>5, <2>3 DEF NetworkingRecv
  <2> QED
    BY <1>5, <2>1, <2>4 DEF NetworkingRecv
<1>6. CASE NetworkingPublish
  <2>1. outgoing \in Seq(Nat) /\ outgoing # <<>>
    BY <1>6 DEF NetworkingPublish
  <2>2. Tail(outgoing) \in Seq(Nat) /\ Append(gone, Head(outgoing)) \in Seq(Nat)
    BY <2>1
  <2> QED
    BY <1>6, <2>2 DEF NetworkingPublish, OnMessage
<1>7. CASE Fail
  BY <1>7 DEF Fail
<1>8. ASSUME NEW l \in Loops, Publish(l)
      PROVE  RoutingTypeOK'
  <2>1. pub[l].item \in TopicItem
    BY <1>8, PublishingIs DEF Publish
  <2>2. [at |-> "send", item |-> pub[l].item, copied |-> senders, left |-> senders, to_clear |-> {}]
          \in Publishing
    BY <2>1 DEF Publishing
  <2>3. pub' \in [Loops -> Publishing]
    BY <1>8, <2>2 DEF Publish
  <2> QED
    BY <1>8, <2>3 DEF Publish
<1>9. ASSUME NEW l \in Loops, EndPublish(l)
      PROVE  RoutingTypeOK'
  <2>1. pub' \in [Loops -> Publishing]
    BY <1>9 DEF EndPublish, Publishing
  <2> QED
    BY <1>9, <2>1 DEF EndPublish, Cleared
<1>10. ASSUME NEW l \in Loops, NEW r \in Receivers, SendTo(l, r)
       PROVE  RoutingTypeOK'
  <2> DEFINE u == pub[l]
             v == [at |-> "send", item |-> u.item, copied |-> u.copied, left |-> u.left \ {r},
                   to_clear |-> IF state[r] = "open" THEN u.to_clear ELSE u.to_clear \cup {r}]
  <2>1. /\ u.item \in TopicItem /\ u.copied \in SUBSET Receivers /\ u.left \in SUBSET Receivers
        /\ u.to_clear \in SUBSET Receivers
    BY <1>10, PublishingIs DEF SendTo
  <2>2. v \in Publishing
    BY <2>1 DEF Publishing
  <2>3. pub' = [pub EXCEPT ![l] = v]
    BY <1>10, SendToMoves
  <2>4. pub' \in [Loops -> Publishing]
    BY <2>2, <2>3
  <2>5. inbox' \in [Receivers -> Seq(TopicItem)]
    <3>1. inbox' \in {inbox, [inbox EXCEPT ![r] = Append(@, u.item)]}
      BY <1>10 DEF SendTo
    <3>2. Append(inbox[r], u.item) \in Seq(TopicItem)
      BY <2>1
    <3> QED
      BY <3>1, <3>2
  <2> QED
    BY <1>10, <2>4, <2>5 DEF SendTo
<1>11. CASE UNCHANGED rvars
  BY <1>11 DEF rvars
<1> QED
  BY <1>1, <1>2, <1>3, <1>4, <1>5, <1>6, <1>7, <1>8, <1>9, <1>10, <1>11 DEF RNext

-----------------------------------------------------------------------------
(* Who may be in the senders, and whom a loop may come to clear away.       *)
SenderInv ==
  /\ \A r \in Receivers :
       /\ state[r] = "open" => r \in senders
       /\ state[r] = "new" => r \notin senders /\ inbox[r] = <<>>
  /\ \A l \in Loops : pub[l].at = "send" =>
       /\ \A r \in pub[l].left : state[r] # "new"
       /\ \A r \in pub[l].to_clear : state[r] = "closed"

(* The items of loop l so far that it has taken, the one it publishes too.  *)
Source(l) == IF l = "run" THEN "here" ELSE "there"

Taken(l) == IF l = "run" THEN count.here - Len(queue) ELSE count.there

QueueInv ==
  /\ Len(queue) <= count.here
  /\ \A i \in 1 .. Len(queue) : queue[i] = Taken("run") + i
  /\ \A l \in Loops : pub[l].at # "idle" => Taken(l) >= 1 /\ pub[l].item = <<Source(l), Taken(l)>>

LEMMA RoutingKeepsSenders ==
  ASSUME RoutingTypeOK, SenderInv, [RNext]_rvars
  PROVE  SenderInv'
<1> USE DEF RoutingTypeOK, SenderInv
<1>0. \A u \in Publishing : u.at = "idle" <=> u = AtRest
  BY PublishingIs
<1>1. ASSUME NEW r \in Receivers, Receive(r)
      PROVE  SenderInv'
  BY <1>1 DEF Receive
<1>2. ASSUME NEW r \in Receivers, Close(r)
      PROVE  SenderInv'
  BY <1>2 DEF Close
<1>3. CASE Send
  BY <1>3 DEF Send
<1>4. CASE Run
  <2>1. \A l \in Loops : pub'[l].at = "send" => pub'[l] = pub[l]
    BY <1>4 DEF Run
  <2> QED
    BY <1>4, <2>1 DEF Run
<1>5. CASE NetworkingRecv
  <2>1. \A l \in Loops : pub'[l].at = "send" => pub'[l] = pub[l]
    BY <1>5 DEF NetworkingRecv
  <2> QED
    BY <1>5, <2>1 DEF NetworkingRecv
<1>6. CASE NetworkingPublish
  BY <1>6 DEF NetworkingPublish
<1>7. CASE Fail
  BY <1>7 DEF Fail
<1>8. ASSUME NEW l \in Loops, Publish(l)
      PROVE  SenderInv'
  <2>1. /\ \A m \in Loops : m # l => pub'[m] = pub[m]
        /\ pub'[l].left = senders /\ pub'[l].to_clear = {}
    BY <1>8 DEF Publish
  <2> QED
    BY <1>8, <2>1 DEF Publish
<1>9. ASSUME NEW l \in Loops, EndPublish(l)
      PROVE  SenderInv'
  <2>1. \A m \in Loops : pub'[m].at = "send" => pub'[m] = pub[m]
    BY <1>9 DEF EndPublish, AtRest
  <2>2. senders' = senders \ pub[l].to_clear /\ pub[l].at = "send"
    BY <1>9 DEF EndPublish, Cleared
  <2> QED
    BY <1>9, <2>1, <2>2 DEF EndPublish
<1>10. ASSUME NEW l \in Loops, NEW r \in Receivers, SendTo(l, r)
       PROVE  SenderInv'
  <2>1. pub[l].at = "send" /\ r \in pub[l].left /\ state' = state /\ senders' = senders
    BY <1>10 DEF SendTo
  <2>2. \A m \in Loops : m # l => pub'[m] = pub[m]
    BY <1>10, SendToLoops
  <2>3. /\ pub'[l].left = pub[l].left \ {r}
        /\ \A q \in pub'[l].to_clear : q \in pub[l].to_clear \/ (q = r /\ state[r] # "open")
    BY <1>10, SendToLoops
  <2>4. \A q \in Receivers : state[q] = "new" => inbox'[q] = inbox[q]
    BY <1>10 DEF SendTo
  <2>5. \A m \in Loops : pub'[m].at = "send" =>
          /\ pub[m].at = "send" /\ \A q \in pub'[m].left : q \in pub[m].left
          /\ \A q \in pub'[m].to_clear : state[q] = "closed"
    <3>1. state[r] \in {"open", "closed"}
      BY <2>1
    <3>2. CASE \A q \in pub'[l].to_clear : state[q] = "closed"
      BY <2>1, <2>2, <2>3, <3>2
    <3>3. \A q \in pub[l].to_clear : state[q] = "closed"
      BY <2>1
    <3> QED
      BY <2>3, <3>1, <3>2, <3>3
  <2> QED
    BY <2>1, <2>4, <2>5
<1>11. CASE UNCHANGED rvars
  BY <1>11 DEF rvars
<1> QED
  BY <1>1, <1>2, <1>3, <1>4, <1>5, <1>6, <1>7, <1>8, <1>9, <1>10, <1>11 DEF RNext

LEMMA LastOrBefore ==
  ASSUME NEW n \in Nat, NEW i \in 1 .. n + 1
  PROVE  i \in 1 .. n \/ i = n + 1
OBVIOUS

LEMMA RoutingKeepsQueue ==
  ASSUME RoutingTypeOK, QueueInv, [RNext]_rvars
  PROVE  QueueInv'
<1> USE DEF RoutingTypeOK
<1>1. ASSUME UNCHANGED <<queue, count>>,
             \A l \in Loops : pub'[l].at # "idle" => pub[l].at # "idle" /\ pub'[l].item = pub[l].item
      PROVE  QueueInv'
  BY <1>1 DEF QueueInv, Taken
<1>2. ASSUME NEW r \in Receivers, Receive(r) \/ Close(r)
      PROVE  QueueInv'
  BY <1>1, <1>2 DEF Receive, Close
<1>3. CASE Send
  <2>1. count' = [here |-> count.here + 1, there |-> count.there] /\ count.here \in Nat
    BY <1>3, CountsAfter DEF Send
  <2>2. queue' = Append(queue, count.here + 1) /\ pub' = pub
    BY <1>3, <2>1 DEF Send
  <2>3. /\ Len(queue) \in Nat /\ Len(queue') = Len(queue) + 1 /\ queue'[Len(queue) + 1] = count.here + 1
        /\ \A i \in 1 .. Len(queue) : queue'[i] = queue[i]
    BY <2>1, <2>2
  <2>4. \A l \in Loops : Taken(l)' = Taken(l)
    BY <2>1, <2>3 DEF Taken
  <2>5. "run" \in Loops
    BY DEF Loops
  <2>6. ASSUME NEW i \in 1 .. Len(queue) + 1
        PROVE  queue'[i] = Taken("run")' + i
    <3>1. CASE i \in 1 .. Len(queue)
      BY <2>3, <2>4, <2>5, <3>1 DEF QueueInv
    <3>2. CASE i = Len(queue) + 1
      <4>1. Taken("run") + (Len(queue) + 1) = count.here + 1
        BY <2>1, <2>3 DEF Taken
      <4> QED
        BY <2>3, <2>4, <2>5, <3>2, <4>1
    <3>3. i \in 1 .. Len(queue) \/ i = Len(queue) + 1
      BY <2>3, LastOrBefore
    <3> QED
      BY <3>1, <3>2, <3>3
  <2>9. \A i \in 1 .. Len(queue') : queue'[i] = Taken("run")' + i
    BY <2>3, <2>6
  <2>7. Len(queue') <= count'.here
    BY <2>1, <2>3 DEF QueueInv
  <2>8. \A l \in Loops : pub'[l].at # "idle" => Taken(l)' >= 1 /\ pub'[l].item = <<Source(l), Taken(l)'>>
    BY <2>2, <2>4 DEF QueueInv
  <2> QED
    BY <2>7, <2>8, <2>9 DEF QueueInv, Source
<1>4. CASE Run
  <2>1. queue # <<>> /\ queue' = Tail(queue) /\ count' = count /\ pub["run"] = AtRest
    BY <1>4 DEF Run
  <2>2. /\ Len(queue) \in Nat /\ Len(queue) >= 1 /\ Len(queue') = Len(queue) - 1
        /\ Head(queue) = queue[1] /\ \A i \in 1 .. Len(queue') : queue'[i] = queue[i + 1]
    BY <2>1
  <2>3. count.here \in Nat /\ Taken("run") \in Int
    BY <2>2, CountsAfter DEF Taken
  <2>4. Taken("run")' = Taken("run") + 1 /\ Taken("recv")' = Taken("recv")
    BY <2>1, <2>2, <2>3 DEF Taken
  <2>5. Head(queue) = Taken("run") + 1 /\ Taken("run") >= 0
    BY <2>2, <2>3 DEF QueueInv, Taken
  <2>6. ASSUME NEW i \in 1 .. Len(queue')
        PROVE  queue'[i] = Taken("run")' + i
    <3>1. i + 1 \in 1 .. Len(queue) /\ queue'[i] = queue[i + 1]
      BY <2>2
    <3>2. queue[i + 1] = Taken("run") + (i + 1)
      BY <3>1 DEF QueueInv
    <3> QED
      BY <2>3, <2>4, <2>6, <3>1, <3>2
  <2>7. Len(queue') <= count'.here
    BY <2>1, <2>2, <2>3 DEF QueueInv
  <2>8. pub'["recv"] = pub["recv"] /\ (pub'["run"] = AtRest \/ pub'["run"].item = <<"here", Head(queue)>>)
    BY <1>4 DEF Run, Loops
  <2>9. ASSUME NEW l \in Loops, pub'[l].at # "idle"
        PROVE  Taken(l)' >= 1 /\ pub'[l].item = <<Source(l), Taken(l)'>>
    <3>1. CASE l = "run"
      BY <2>3, <2>4, <2>5, <2>8, <2>9, <3>1 DEF Source, AtRest
    <3>2. CASE l = "recv"
      BY <2>4, <2>8, <2>9, <3>2 DEF QueueInv
    <3> QED
      BY <3>1, <3>2 DEF Loops
  <2> QED
    BY <2>6, <2>7, <2>9 DEF QueueInv, Source
<1>5. CASE NetworkingRecv
  <2>1. count' = [here |-> count.here, there |-> count.there + 1] /\ count.there \in Nat
    BY <1>5, CountsAfter DEF NetworkingRecv
  <2>2. queue' = queue /\ pub'["run"] = pub["run"] /\ pub'["recv"].item = <<"there", count.there + 1>>
    BY <1>5, <2>1 DEF NetworkingRecv, FromSwarm, Loops
  <2>3. Taken("run")' = Taken("run") /\ Taken("recv")' = count.there + 1
    BY <2>1, <2>2 DEF Taken
  <2>4. ASSUME NEW l \in Loops, pub'[l].at # "idle"
        PROVE  Taken(l)' >= 1 /\ pub'[l].item = <<Source(l), Taken(l)'>>
    <3>1. CASE l = "run"
      BY <2>2, <2>3, <2>4, <3>1 DEF QueueInv
    <3>2. CASE l = "recv"
      BY <2>1, <2>2, <2>3, <3>2 DEF Source
    <3> QED
      BY <3>1, <3>2 DEF Loops
  <2>5. Len(queue') <= count'.here
    BY <2>1, <2>2 DEF QueueInv
  <2> QED
    BY <2>2, <2>3, <2>4, <2>5 DEF QueueInv, Source
<1>6. CASE NetworkingPublish \/ Fail
  BY <1>1, <1>6 DEF NetworkingPublish, Fail
<1>7. ASSUME NEW l \in Loops, Publish(l)
      PROVE  QueueInv'
  <2>1. \A m \in Loops : pub'[m].at # "idle" => pub[m].at # "idle" /\ pub'[m].item = pub[m].item
    BY <1>7 DEF Publish
  <2> QED
    BY <1>1, <1>7, <2>1 DEF Publish
<1>8. ASSUME NEW l \in Loops, EndPublish(l)
      PROVE  QueueInv'
  <2>1. \A m \in Loops : pub'[m].at # "idle" => pub[m].at # "idle" /\ pub'[m].item = pub[m].item
    BY <1>8 DEF EndPublish, AtRest
  <2> QED
    BY <1>1, <1>8, <2>1 DEF EndPublish
<1>9. ASSUME NEW l \in Loops, NEW r \in Receivers, SendTo(l, r)
      PROVE  QueueInv'
  <2>1. \A m \in Loops : pub'[m].at # "idle" => pub[m].at # "idle" /\ pub'[m].item = pub[m].item
    <3>1. pub[l].at = "send" /\ pub'[l].item = pub[l].item /\ \A m \in Loops : m # l => pub'[m] = pub[m]
      BY <1>9, SendToLoops
    <3> QED
      BY <3>1
  <2> QED
    BY <1>1, <1>9, <2>1 DEF SendTo
<1>10. CASE UNCHANGED rvars
  BY <1>1, <1>10 DEF rvars
<1> QED
  BY <1>2, <1>3, <1>4, <1>5, <1>6, <1>7, <1>8, <1>9, <1>10 DEF RNext

-----------------------------------------------------------------------------
(* The i-th message of s is its last one from there; and between two that   *)
(* follow each other from one place there is no gap.                        *)
Latest(s, i, from) == s[i][1] = from /\ \A j \in i + 1 .. Len(s) : s[j][1] # from

Gapless(s) ==
  \A i, j \in 1 .. Len(s) :
    i < j /\ s[i][1] = s[j][1] /\ (\A k \in i + 1 .. j - 1 : s[k][1] # s[i][1])
      => s[j][2] = s[i][2] + 1

(* Loop l has yet to send to r what it publishes, and the number of what    *)
(* it will send next.                                                       *)
Awaits(l, r) == pub[l].at = "copy" \/ (pub[l].at = "send" /\ r \in pub[l].left)

Due(l, r) == IF Awaits(l, r) THEN Taken(l) ELSE Taken(l) + 1

UpToDate(l, r) ==
  \A i \in 1 .. Len(inbox[r]) : Latest(inbox[r], i, Source(l)) => inbox[r][i][2] + 1 = Due(l, r)

InboxInv ==
  \A r \in Receivers :
    /\ Gapless(inbox[r])
    /\ state[r] = "open" => \A l \in Loops : UpToDate(l, r)

LEMMA GaplessAppend ==
  ASSUME NEW s \in Seq(TopicItem), NEW m \in TopicItem, Gapless(s),
         \A i \in 1 .. Len(s) : Latest(s, i, m[1]) => m[2] = s[i][2] + 1
  PROVE  Gapless(Append(s, m))
<1> DEFINE t == Append(s, m)
<1>1. /\ Len(s) \in Nat /\ Len(t) = Len(s) + 1 /\ t[Len(s) + 1] = m
      /\ \A i \in 1 .. Len(s) : t[i] = s[i]
  OBVIOUS
<1> HIDE DEF t
<1>2. ASSUME NEW i \in 1 .. Len(t), NEW j \in 1 .. Len(t), i < j, t[i][1] = t[j][1],
             \A k \in i + 1 .. j - 1 : t[k][1] # t[i][1]
      PROVE  t[j][2] = t[i][2] + 1
  <2>1. i \in 1 .. Len(s) /\ t[i] = s[i]
    BY <1>1, <1>2
  <2>2. CASE j \in 1 .. Len(s)
    <3>1. \A k \in i + 1 .. j - 1 : k \in 1 .. Len(s)
      BY <1>1, <2>1, <2>2
    <3>2. \A k \in i + 1 .. j - 1 : s[k][1] # s[i][1]
      BY <1>1, <1>2, <2>1, <3>1
    <3> QED
      BY <1>1, <1>2, <2>1, <2>2, <3>2 DEF Gapless
  <2>3. CASE j = Len(s) + 1
    <3>1. \A k \in i + 1 .. Len(s) : k \in 1 .. Len(s) /\ k \in i + 1 .. j - 1
      BY <1>1, <2>1, <2>3
    <3>2. t[j] = m
      BY <1>1, <2>3
    <3>3. Latest(s, i, m[1])
      BY <1>1, <1>2, <2>1, <3>1, <3>2 DEF Latest
    <3> QED
      BY <2>1, <3>2, <3>3
  <2>4. j \in 1 .. Len(s) \/ j = Len(s) + 1
    BY <1>1
  <2> QED
    BY <2>2, <2>3, <2>4
<1>3. Gapless(t)
  BY <1>2 DEF Gapless
<1> QED
  BY <1>3 DEF t

(* What is latest once m has come.                                          *)
LEMMA LatestAppend ==
  ASSUME NEW s \in Seq(TopicItem), NEW m \in TopicItem, NEW from, NEW i \in 1 .. Len(s) + 1,
         Latest(Append(s, m), i, from)
  PROVE  /\ m[1] = from => i = Len(s) + 1 /\ Append(s, m)[i] = m
         /\ m[1] # from => i \in 1 .. Len(s) /\ Latest(s, i, from) /\ Append(s, m)[i] = s[i]
<1> DEFINE t == Append(s, m)
<1>1. /\ Len(s) \in Nat /\ Len(t) = Len(s) + 1 /\ t[Len(s) + 1] = m
      /\ \A k \in 1 .. Len(s) : t[k] = s[k]
  OBVIOUS
<1>2. Latest(t, i, from)
  OBVIOUS
<1> HIDE DEF t
<1>3. i \in 1 .. Len(s) \/ i = Len(s) + 1
  BY <1>1
<1>4. CASE i = Len(s) + 1
  BY <1>1, <1>2, <1>4 DEF Latest, t
<1>5. CASE i \in 1 .. Len(s)
  <2>1. Len(s) + 1 \in i + 1 .. Len(t)
    BY <1>1, <1>5
  <2>2. m[1] # from
    BY <1>1, <1>2, <2>1 DEF Latest
  <2>3. \A j \in i + 1 .. Len(s) : j \in i + 1 .. Len(t) /\ j \in 1 .. Len(s)
    BY <1>1, <1>5
  <2>4. Latest(s, i, from)
    BY <1>1, <1>2, <1>5, <2>3 DEF Latest
  <2>5. t[i] = s[i]
    BY <1>1, <1>5
  <2> QED
    BY <1>5, <2>2, <2>4, <2>5 DEF t
<1> QED
  BY <1>3, <1>4, <1>5

LEMMA RoutingKeepsInboxes ==
  ASSUME RoutingTypeOK, SenderInv, QueueInv, InboxInv, [RNext]_rvars
  PROVE  InboxInv'
<1>0. Len(queue) \in Nat /\ count.here \in Nat /\ count.there \in Nat
  BY CountsAfter DEF RoutingTypeOK
<1>1. \A l \in Loops : Taken(l) \in Int
  BY <1>0 DEF Taken
<1>2. ASSUME UNCHANGED <<inbox, pub>>,
             \A r \in Receivers : state'[r] = "open" =>
               inbox[r] = <<>> \/ (state[r] = "open" /\ \A l \in Loops : Taken(l)' = Taken(l))
      PROVE  InboxInv'
  <2>1. ASSUME NEW r \in Receivers, state'[r] = "open", NEW l \in Loops
        PROVE  UpToDate(l, r)'
    <3>1. CASE inbox[r] = <<>>
      BY <1>2, <3>1 DEF UpToDate
    <3>2. CASE state[r] = "open" /\ Taken(l)' = Taken(l)
      BY <1>2, <3>2 DEF InboxInv, UpToDate, Due, Awaits
    <3> QED
      BY <1>2, <2>1, <3>1, <3>2
  <2> QED
    BY <1>2, <2>1 DEF InboxInv
<1>3. ASSUME UNCHANGED <<inbox, state>>,
             \A r \in Receivers, l \in Loops : state[r] = "open" => Due(l, r)' = Due(l, r)
      PROVE  InboxInv'
  BY <1>3 DEF InboxInv, UpToDate
<1>4. ASSUME NEW r \in Receivers, Receive(r)
      PROVE  InboxInv'
  <2>1. UNCHANGED <<inbox, pub, queue, count>> /\ state[r] = "new" /\ state' = [state EXCEPT ![r] = "open"]
    BY <1>4 DEF Receive
  <2>2. \A l : Taken(l)' = Taken(l)
    BY <2>1 DEF Taken
  <2>3. \A q \in Receivers : state'[q] = "open" => inbox[q] = <<>> \/ state[q] = "open"
    BY <2>1 DEF RoutingTypeOK, SenderInv
  <2> QED
    BY <1>2, <2>1, <2>2, <2>3
<1>5. ASSUME NEW r \in Receivers, Close(r)
      PROVE  InboxInv'
  <2>1. UNCHANGED <<inbox, pub, queue, count>> /\ state' = [state EXCEPT ![r] = "closed"]
    BY <1>5 DEF Close
  <2>2. \A l : Taken(l)' = Taken(l)
    BY <2>1 DEF Taken
  <2>3. \A q \in Receivers : state'[q] = "open" => state[q] = "open"
    BY <2>1 DEF RoutingTypeOK
  <2> QED
    BY <1>2, <2>1, <2>2, <2>3
<1>6. CASE Send
  <2>1. /\ UNCHANGED <<inbox, pub, state>> /\ count' = [here |-> count.here + 1, there |-> count.there]
        /\ queue' = Append(queue, count'.here)
    BY <1>6, CountsAfter DEF Send, RoutingTypeOK
  <2>2. Len(queue') = Len(queue) + 1
    BY <2>1 DEF RoutingTypeOK
  <2>3. \A l : Taken(l)' = Taken(l)
    <3>1. count'.here - Len(queue') = count.here - Len(queue) /\ count'.there = count.there
      BY <1>0, <2>1, <2>2
    <3> QED
      BY <3>1 DEF Taken
  <2> QED
    BY <1>2, <2>1, <2>3
<1>7. CASE Run
  <2>1. /\ UNCHANGED <<inbox, state, count>> /\ pub["run"] = AtRest /\ queue # <<>> /\ queue' = Tail(queue)
        /\ \/ pub' = [pub EXCEPT !["run"] = [at |-> "copy", item |-> <<"here", Head(queue)>>]]
           \/ senders = {}
    BY <1>7 DEF Run
  <2>2. Len(queue') = Len(queue) - 1
    BY <2>1 DEF RoutingTypeOK
  <2>3. Taken("run")' = Taken("run") + 1 /\ Taken("recv")' = Taken("recv")
    BY <1>0, <2>1, <2>2 DEF Taken
  <2>4. ASSUME NEW r \in Receivers, NEW l \in Loops, state[r] = "open"
        PROVE  Due(l, r)' = Due(l, r)
    <3>1. pub' = [pub EXCEPT !["run"] = [at |-> "copy", item |-> <<"here", Head(queue)>>]]
      BY <2>1, <2>4 DEF SenderInv
    <3>2. CASE l = "run"
      <4>1. pub'[l].at = "copy" /\ pub[l].at = "idle"
        BY <2>1, <3>1, <3>2 DEF RoutingTypeOK, AtRest
      <4> QED
        BY <2>3, <3>2, <4>1 DEF Due, Awaits
    <3>3. CASE l = "recv"
      <4>1. pub'[l] = pub[l]
        BY <3>1, <3>3 DEF RoutingTypeOK
      <4> QED
        BY <2>3, <3>3, <4>1 DEF Due, Awaits
    <3> QED
      BY <3>2, <3>3 DEF Loops
  <2> QED
    BY <1>3, <2>1, <2>4
<1>8. CASE NetworkingRecv
  <2>1. /\ UNCHANGED <<inbox, state, queue>> /\ pub["recv"] = AtRest
        /\ count' = [here |-> count.here, there |-> count.there + 1]
        /\ pub' = [pub EXCEPT !["recv"] = [at |-> "copy", item |-> FromSwarm(count'.there)]]
    BY <1>8, CountsAfter DEF NetworkingRecv, RoutingTypeOK
  <2>2. Taken("recv")' = Taken("recv") + 1 /\ Taken("run")' = Taken("run")
    BY <2>1 DEF Taken
  <2>3. ASSUME NEW r \in Receivers, NEW l \in Loops
        PROVE  Due(l, r)' = Due(l, r)
    <3>1. CASE l = "recv"
      <4>1. pub'[l].at = "copy" /\ pub[l].at = "idle"
        BY <2>1, <3>1 DEF RoutingTypeOK, AtRest
      <4> QED
        BY <2>2, <3>1, <4>1 DEF Due, Awaits
    <3>2. CASE l = "run"
      <4>1. pub'[l] = pub[l]
        BY <2>1, <3>2 DEF RoutingTypeOK
      <4> QED
        BY <2>2, <3>2, <4>1 DEF Due, Awaits
    <3> QED
      BY <3>1, <3>2 DEF Loops
  <2> QED
    BY <1>3, <2>1, <2>3
<1>9. CASE NetworkingPublish \/ Fail \/ UNCHANGED rvars
  <2>1. UNCHANGED <<inbox, state, pub, count, queue>>
    BY <1>9 DEF NetworkingPublish, Fail, rvars
  <2> QED
    BY <1>2, <2>1 DEF Taken
<1>10. ASSUME NEW l \in Loops, Publish(l)
       PROVE  InboxInv'
  <2>1. /\ UNCHANGED <<inbox, state, count, queue>> /\ pub[l].at = "copy"
        /\ pub'[l].at = "send" /\ pub'[l].left = senders /\ \A m \in Loops : m # l => pub'[m] = pub[m]
    BY <1>10 DEF Publish, RoutingTypeOK
  <2>2. \A m : Taken(m)' = Taken(m)
    BY <2>1 DEF Taken
  <2>3. \A r \in Receivers, m \in Loops : state[r] = "open" => Awaits(m, r)' = Awaits(m, r)
    BY <2>1 DEF Awaits, SenderInv
  <2> QED
    BY <1>3, <2>1, <2>2, <2>3 DEF Due
<1>11. ASSUME NEW l \in Loops, EndPublish(l)
       PROVE  InboxInv'
  <2>1. /\ UNCHANGED <<inbox, state, count, queue>> /\ pub[l].at = "send" /\ pub[l].left = {}
        /\ pub'[l].at = "idle" /\ \A m \in Loops : m # l => pub'[m] = pub[m]
    BY <1>11 DEF EndPublish, RoutingTypeOK, AtRest
  <2>2. \A m : Taken(m)' = Taken(m)
    BY <2>1 DEF Taken
  <2>3. \A r \in Receivers, m \in Loops : Awaits(m, r)' = Awaits(m, r)
    BY <2>1 DEF Awaits
  <2> QED
    BY <1>3, <2>1, <2>2, <2>3 DEF Due
<1>12. ASSUME NEW l \in Loops, NEW r \in Receivers, SendTo(l, r)
       PROVE  InboxInv'
  <2> DEFINE m == pub[l].item
  <2>1. UNCHANGED <<state, count, queue>> /\ (state[r] # "open" => inbox' = inbox)
    BY <1>12 DEF SendTo
  <2>2. state[r] = "open" => inbox' = [inbox EXCEPT ![r] = Append(@, m)]
    BY <1>12 DEF SendTo
  <2>3. \A k : Taken(k)' = Taken(k)
    BY <2>1 DEF Taken
  <2>4. /\ pub[l].at = "send" /\ r \in pub[l].left /\ pub'[l].at = "send"
        /\ pub'[l].left = pub[l].left \ {r} /\ \A k \in Loops : k # l => pub'[k] = pub[k]
    BY <1>12, SendToLoops
  <2>5. \A k \in Loops, q \in Receivers : k # l \/ q # r => Due(k, q)' = Due(k, q)
    BY <2>3, <2>4 DEF Due, Awaits
  <2>6. ASSUME NEW q \in Receivers, inbox'[q] = inbox[q], q # r \/ state[q] # "open"
        PROVE  Gapless(inbox[q])' /\ (state'[q] = "open" => \A k \in Loops : UpToDate(k, q)')
    BY <2>1, <2>5, <2>6 DEF InboxInv, UpToDate
  <2>7. CASE state[r] # "open"
    BY <2>1, <2>6, <2>7 DEF InboxInv
  <2>8. CASE state[r] = "open"
    <3>1. m = <<Source(l), Taken(l)>> /\ Due(l, r) = Taken(l) /\ Due(l, r)' = Taken(l) + 1
      BY <2>3, <2>4 DEF QueueInv, Due, Awaits
    <3>2. inbox[r] \in Seq(TopicItem) /\ m \in TopicItem /\ inbox'[r] = Append(inbox[r], m)
      BY <2>2, <2>4, <2>8, PublishingIs DEF RoutingTypeOK
    <3>3. Gapless(inbox[r]) /\ \A k \in Loops : UpToDate(k, r)
      BY <2>8 DEF InboxInv
    <3>4. m[1] = Source(l) /\ m[2] = Taken(l)
      BY <3>1
    <3> HIDE DEF m
    <3>5. \A i \in 1 .. Len(inbox[r]) : Latest(inbox[r], i, m[1]) => m[2] = inbox[r][i][2] + 1
      BY <3>1, <3>3, <3>4 DEF UpToDate
    <3>6. Gapless(inbox[r])'
      BY <3>2, <3>3, <3>5, GaplessAppend
    <3>7. ASSUME NEW k \in Loops, NEW i \in 1 .. Len(inbox'[r]), Latest(inbox'[r], i, Source(k))
          PROVE  inbox'[r][i][2] + 1 = Due(k, r)'
      <4>1. Len(inbox'[r]) = Len(inbox[r]) + 1
        BY <3>2
      <4>2. i \in 1 .. Len(inbox[r]) + 1 /\ Latest(Append(inbox[r], m), i, Source(k))
        BY <3>2, <3>7, <4>1
      <4>3. CASE k = l
        <5>1. inbox'[r][i] = m
          BY <3>2, <3>4, <4>2, <4>3, LatestAppend
        <5> QED
          BY <3>1, <3>4, <4>3, <5>1
      <4>4. CASE k # l
        <5>1. m[1] # Source(k)
          BY <3>4, <4>4 DEF Source, Loops
        <5>2. i \in 1 .. Len(inbox[r]) /\ Latest(inbox[r], i, Source(k)) /\ inbox'[r][i] = inbox[r][i]
          BY <3>2, <4>2, <5>1, LatestAppend
        <5> QED
          BY <2>5, <3>3, <4>4, <5>2 DEF UpToDate
      <4> QED
        BY <4>3, <4>4
    <3>8. \A k \in Loops : UpToDate(k, r)'
      BY <3>7 DEF UpToDate
    <3>9. \A q \in Receivers : q # r => inbox'[q] = inbox[q]
      BY <2>2, <2>8 DEF RoutingTypeOK
    <3> QED
      BY <2>6, <3>6, <3>8, <3>9 DEF InboxInv
  <2> QED
    BY <2>7, <2>8
<1> QED
  BY <1>4, <1>5, <1>6, <1>7, <1>8, <1>9, <1>10, <1>11, <1>12 DEF RNext

-----------------------------------------------------------------------------
(* The items of this node that have left it, those that some receiver of it *)
(* got, and what may become of which.                                       *)
Departed == ToSet(outgoing) \cup ToSet(gone)

Delivered == {k \in Nat : Here(k)}

WayInv ==
  /\ \A k : k \in Departed \/ k \in Delivered => k \in 1 .. Taken("run")
  /\ policy = "Always" => \A k \in 1 .. Taken("run") : k \in Departed
  /\ policy = "Never" => \A k : k \notin Departed
  /\ policy = "Minimal" =>
       /\ \A k : ~(k \in Delivered /\ k \in Departed)
       /\ pub["run"].at # "idle" => Taken("run") \notin Departed

LEMMA MembersOfAppend ==
  ASSUME NEW S, NEW s \in Seq(S), NEW x \in S
  PROVE  \A y : y \in ToSet(Append(s, x)) <=> y \in ToSet(s) \/ y = x
<1> DEFINE t == Append(s, x)
<1>1. /\ Len(s) \in Nat /\ Len(t) = Len(s) + 1 /\ t[Len(s) + 1] = x
      /\ \A i \in 1 .. Len(s) : t[i] = s[i]
  OBVIOUS
<1>2. DOMAIN s = 1 .. Len(s) /\ DOMAIN t = 1 .. Len(t)
  OBVIOUS
<1> HIDE DEF t
<1>3. \A i : i \in 1 .. Len(t) <=> i \in 1 .. Len(s) \/ i = Len(s) + 1
  BY <1>1
<1>4. \A y : y \in ToSet(t) <=> \E i \in 1 .. Len(t) : y = t[i]
  BY <1>2 DEF ToSet
<1>5. \A y : y \in ToSet(s) <=> \E i \in 1 .. Len(s) : y = s[i]
  BY <1>2 DEF ToSet
<1>6. \A y : y \in ToSet(t) <=> y \in ToSet(s) \/ y = x
  BY <1>1, <1>3, <1>4, <1>5
<1> QED
  BY <1>6 DEF t

LEMMA MembersOfTail ==
  ASSUME NEW S, NEW s \in Seq(S), s # <<>>
  PROVE  \A y : y \in ToSet(s) <=> y \in ToSet(Tail(s)) \/ y = Head(s)
<1> DEFINE t == Tail(s)
<1>1. /\ Len(s) \in Nat /\ Len(s) >= 1 /\ Len(t) = Len(s) - 1 /\ Head(s) = s[1]
      /\ \A i \in 1 .. Len(t) : t[i] = s[i + 1]
  OBVIOUS
<1>2. DOMAIN s = 1 .. Len(s) /\ DOMAIN t = 1 .. Len(t)
  OBVIOUS
<1> HIDE DEF t
<1>3. /\ 1 \in 1 .. Len(s) /\ \A i \in 1 .. Len(t) : i + 1 \in 1 .. Len(s)
      /\ \A i \in 1 .. Len(s) : i = 1 \/ (i - 1 \in 1 .. Len(t) /\ (i - 1) + 1 = i)
  BY <1>1
<1>4. \A y : y \in ToSet(t) <=> \E i \in 1 .. Len(t) : y = t[i]
  BY <1>2 DEF ToSet
<1>5. \A y : y \in ToSet(s) <=> \E i \in 1 .. Len(s) : y = s[i]
  BY <1>2 DEF ToSet
<1>6. ASSUME NEW y
      PROVE  y \in ToSet(s) <=> y \in ToSet(t) \/ y = Head(s)
  <2>1. ASSUME NEW i \in 1 .. Len(s), y = s[i]
        PROVE  y \in ToSet(t) \/ y = Head(s)
    <3>1. CASE i = 1
      BY <1>1, <2>1, <3>1
    <3>2. CASE i - 1 \in 1 .. Len(t) /\ (i - 1) + 1 = i
      <4>1. t[i - 1] = s[i]
        BY <1>1, <3>2
      <4> QED
        BY <1>4, <2>1, <3>2, <4>1
    <3> QED
      BY <1>3, <3>1, <3>2
  <2>2. ASSUME NEW i \in 1 .. Len(t), y = t[i]
        PROVE  y \in ToSet(s)
    BY <1>1, <1>3, <1>5, <2>2
  <2>3. s[1] \in ToSet(s)
    BY <1>3, <1>5
  <2> QED
    BY <1>1, <1>4, <1>5, <2>1, <2>2, <2>3
<1> QED
  BY <1>6 DEF t

(* What a step makes of Away and Here.                                      *)
LEMMA AwayOfRun ==
  ASSUME RoutingTypeOK, Run
  PROVE  \A k : k \in Departed' <=>
           \/ k \in Departed
           \/ /\ k = Head(queue)
              /\ (policy = "Minimal" /\ senders = {}) \/ policy = "Always"
<1>1. Head(queue) \in Nat /\ outgoing \in Seq(Nat) /\ gone' = gone
  BY DEF RoutingTypeOK, Run
<1>2. outgoing' = IF (policy = "Minimal" /\ senders = {}) \/ policy = "Always"
                  THEN Append(outgoing, Head(queue)) ELSE outgoing
  BY DEF Run
<1> QED
  BY <1>1, <1>2, MembersOfAppend DEF Departed

LEMMA AwayStays ==
  ASSUME RoutingTypeOK, [RNext]_rvars, ~Run
  PROVE  \A k : k \in Departed' <=> k \in Departed
<1>1. CASE NetworkingPublish
  <2>1. outgoing \in Seq(Nat) /\ gone \in Seq(Nat) /\ outgoing # <<>> /\ Head(outgoing) \in Nat
    BY <1>1 DEF RoutingTypeOK, NetworkingPublish
  <2>2. outgoing' = Tail(outgoing) /\ gone' = Append(gone, Head(outgoing))
    BY <1>1 DEF NetworkingPublish, OnMessage
  <2>3. \A y : y \in ToSet(outgoing) <=> y \in ToSet(Tail(outgoing)) \/ y = Head(outgoing)
    BY <2>1, MembersOfTail
  <2>4. \A y : y \in ToSet(Append(gone, Head(outgoing))) <=> y \in ToSet(gone) \/ y = Head(outgoing)
    BY <2>1, MembersOfAppend
  <2> QED
    BY <2>2, <2>3, <2>4 DEF Departed
<1>2. CASE ~NetworkingPublish
  <2>1. UNCHANGED <<outgoing, gone>>
    BY <1>2 DEF RNext, Receive, Close, Send, NetworkingRecv, Fail, Publish, EndPublish, SendTo, rvars
  <2> QED
    BY <2>1 DEF Departed
<1> QED
  BY <1>1, <1>2

LEMMA HereOfSendTo ==
  ASSUME RoutingTypeOK, QueueInv, NEW l \in Loops, NEW r \in Receivers, SendTo(l, r)
  PROVE  \A k : k \in Delivered' <=> k \in Delivered \/ (state[r] = "open" /\ l = "run" /\ k = Taken("run"))
<1> DEFINE m == pub[l].item
<1>1. CASE state[r] # "open"
  <2>1. inbox' = inbox
    BY <1>1 DEF SendTo
  <2> QED
    BY <1>1, <2>1 DEF Delivered, Here
<1>2. CASE state[r] = "open"
  <2>1. inbox' = [inbox EXCEPT ![r] = Append(@, m)] /\ pub[l].at = "send"
    BY <1>2 DEF SendTo
  <2>2. m \in TopicItem /\ inbox[r] \in Seq(TopicItem) /\ m = <<Source(l), Taken(l)>>
    BY <2>1, PublishingIs DEF RoutingTypeOK, QueueInv
  <2>3. /\ inbox'[r] = Append(inbox[r], m) /\ \A q \in Receivers : q # r => inbox'[q] = inbox[q]
    BY <2>1 DEF RoutingTypeOK
  <2>4. \A y : y \in ToSet(inbox'[r]) <=> y \in ToSet(inbox[r]) \/ y = m
    BY <2>2, <2>3, MembersOfAppend
  <2>5. \A k : m = <<"here", k>> <=> l = "run" /\ k = Taken("run")
    BY <2>2 DEF Source
  <2>7. Taken("run") \in Nat
    <3>1. Len(queue) \in Nat /\ count.here \in Nat
      BY CountsAfter DEF RoutingTypeOK
    <3> QED
      BY <3>1 DEF Taken, QueueInv
  <2> HIDE DEF m
  <2>6. \A k \in Nat : k \in Delivered' <=> k \in Delivered \/ m = <<"here", k>>
    BY <2>3, <2>4 DEF Delivered, Here
  <2> QED
    BY <1>2, <2>5, <2>6, <2>7 DEF Delivered
<1> QED
  BY <1>1, <1>2

LEMMA HereStays ==
  ASSUME [RNext]_rvars, \A l \in Loops, r \in Receivers : ~SendTo(l, r)
  PROVE  inbox' = inbox /\ \A k : k \in Delivered' <=> k \in Delivered
<1>1. inbox' = inbox
  BY DEF RNext, Receive, Close, Send, Run, NetworkingRecv, NetworkingPublish, Fail, Publish, EndPublish, rvars
<1> QED
  BY <1>1 DEF Delivered, Here

(* How far the loop of the topic is.                                        *)
LEMMA TakenStays ==
  ASSUME RoutingTypeOK, [RNext]_rvars, ~Run
  PROVE  Taken("run")' = Taken("run")
<1>0. Len(queue) \in Nat /\ count.here \in Nat /\ count.there \in Nat
  BY CountsAfter DEF RoutingTypeOK
<1>1. CASE Send
  <2>1. count' = [here |-> count.here + 1, there |-> count.there] /\ queue' = Append(queue, count'.here)
    BY <1>1, CountsAfter DEF Send, RoutingTypeOK
  <2>2. Len(queue') = Len(queue) + 1 /\ count'.here = count.here + 1
    BY <2>1 DEF RoutingTypeOK
  <2> QED
    BY <1>0, <2>2 DEF Taken
<1>2. CASE NetworkingRecv
  <2>1. count' = [here |-> count.here, there |-> count.there + 1] /\ queue' = queue
    BY <1>2, CountsAfter DEF NetworkingRecv, RoutingTypeOK
  <2> QED
    BY <2>1 DEF Taken
<1>3. CASE ~Send /\ ~NetworkingRecv
  <2>1. UNCHANGED <<queue, count>>
    BY <1>3 DEF RNext, Receive, Close, NetworkingPublish, Fail, Publish, EndPublish, SendTo, rvars
  <2> QED
    BY <2>1 DEF Taken
<1> QED
  BY <1>1, <1>2, <1>3

LEMMA TakenIs ==
  ASSUME RoutingTypeOK, QueueInv
  PROVE  Taken("run") \in Nat /\ Taken("run") <= count.here /\ count.here \in Nat
<1>1. Len(queue) \in Nat /\ count.here \in Nat
  BY CountsAfter DEF RoutingTypeOK
<1> QED
  BY <1>1 DEF Taken, QueueInv

LEMMA TakenByRun ==
  ASSUME RoutingTypeOK, QueueInv, Run
  PROVE  Taken("run")' = Taken("run") + 1 /\ Head(queue) = Taken("run") + 1
<1>1. Len(queue) \in Nat /\ count.here \in Nat /\ queue \in Seq(Nat) /\ queue # <<>>
  BY CountsAfter DEF RoutingTypeOK, Run
<1>2. Len(queue) >= 1 /\ Len(Tail(queue)) = Len(queue) - 1 /\ Head(queue) = queue[1]
  BY <1>1
<1>3. queue' = Tail(queue) /\ count' = count
  BY DEF Run
<1>4. 1 \in 1 .. Len(queue)
  BY <1>1, <1>2
<1>5. Head(queue) = Taken("run") + 1
  BY <1>2, <1>4 DEF QueueInv
<1>6. Len(queue') = Len(queue) - 1
  BY <1>2, <1>3
<1> QED
  BY <1>1, <1>3, <1>5, <1>6 DEF Taken

LEMMA IdleOrNot ==
  ASSUME RoutingTypeOK, [RNext]_rvars, ~Run
  PROVE  policy' = policy /\ (pub'["run"].at # "idle" => pub["run"].at # "idle")
<1>1. policy' = policy
  BY DEF RNext, Receive, Close, Send, NetworkingRecv, NetworkingPublish, Fail, Publish, EndPublish, SendTo, rvars
<1>2. ASSUME NEW l \in Loops, Publish(l) \/ EndPublish(l) \/ \E r \in Receivers : SendTo(l, r)
      PROVE  pub'["run"].at # "idle" => pub["run"].at # "idle"
  <2>1. pub[l].at \in {"copy", "send"}
    BY <1>2 DEF Publish, EndPublish, SendTo
  <2>2. \A m \in Loops : m # l => pub'[m] = pub[m]
    <3>1. CASE \E r \in Receivers : SendTo(l, r)
      BY <3>1, SendToLoops
    <3>2. CASE Publish(l) \/ EndPublish(l)
      BY <3>2 DEF Publish, EndPublish, RoutingTypeOK
    <3> QED
      BY <1>2, <3>1, <3>2
  <2> QED
    BY <2>1, <2>2 DEF Loops
<1>3. CASE NetworkingRecv
  BY <1>3 DEF NetworkingRecv, RoutingTypeOK, Loops
<1>4. CASE UNCHANGED pub
  BY <1>1, <1>4
<1>5. \/ \E l \in Loops : Publish(l) \/ EndPublish(l) \/ \E r \in Receivers : SendTo(l, r)
      \/ NetworkingRecv \/ UNCHANGED pub
  BY DEF RNext, Send, NetworkingPublish, Fail, rvars, Receive, Close
<1> QED
  BY <1>1, <1>2, <1>3, <1>4, <1>5

LEMMA RoutingKeepsWays ==
  ASSUME RoutingTypeOK, SenderInv, QueueInv, WayInv, [RNext]_rvars
  PROVE  WayInv'
<1> DEFINE n == Taken("run")
<1>1. n \in Nat
  BY TakenIs
<1>2. CASE Run
  <2>1. Taken("run")' = n + 1 /\ Head(queue) = n + 1
    BY <1>2, TakenByRun
  <2>2. \A k : k \in Delivered' <=> k \in Delivered
    <3>1. \A l \in Loops, r \in Receivers : ~SendTo(l, r)
      <4>1. queue' # queue
        <5>1. queue' = Tail(queue) /\ queue # <<>> /\ queue \in Seq(Nat)
          BY <1>2 DEF Run, RoutingTypeOK
        <5> QED
          BY <5>1
      <4> QED
        BY <4>1 DEF SendTo
    <3> QED
      BY <3>1, HereStays
  <2>3. policy' = policy
    BY <1>2 DEF Run
  <2>4. \A k : k \in Departed' <=> \/ k \in Departed
                          \/ /\ k = n + 1
                             /\ (policy = "Minimal" /\ senders = {}) \/ policy = "Always"
    BY <1>2, <2>1, AwayOfRun
  <2>5. pub'["run"].at # "idle" => ~(policy = "Minimal" /\ senders = {})
    BY <1>2 DEF Run, AtRest
  <2> HIDE DEF n
  <2>6. \A k : k \in 1 .. n + 1 <=> k \in 1 .. n \/ k = n + 1
    BY <1>1
  <2>7. ~(n + 1 \in 1 .. n)
    BY <1>1
  <2>8. /\ \A k : k \in Departed \/ k \in Delivered => k \in 1 .. n
        /\ policy = "Always" => \A k \in 1 .. n : k \in Departed
        /\ policy = "Never" => \A k : k \notin Departed
        /\ policy = "Minimal" => \A k : ~(k \in Delivered /\ k \in Departed)
    BY DEF WayInv, n
  <2>9. /\ \A k : k \in Departed' \/ k \in Delivered' => k \in 1 .. n + 1
        /\ policy = "Always" => \A k \in 1 .. n + 1 : k \in Departed'
        /\ policy = "Never" => \A k : k \notin Departed'
        /\ policy = "Minimal" =>
             /\ \A k : ~(k \in Delivered' /\ k \in Departed')
             /\ pub'["run"].at # "idle" => n + 1 \notin Departed'
    BY <2>2, <2>4, <2>5, <2>6, <2>7, <2>8
  <2> QED
    BY <2>1, <2>3, <2>9 DEF WayInv
<1>3. CASE ~Run
  <2>1. Taken("run")' = n
    BY <1>3, TakenStays
  <2>2. \A k : k \in Departed' <=> k \in Departed
    BY <1>3, AwayStays
  <2>3. policy' = policy /\ (pub'["run"].at # "idle" => pub["run"].at # "idle")
    BY <1>3, IdleOrNot
  <2>4. ASSUME NEW k, k \in Delivered', k \notin Delivered
        PROVE  k = n /\ pub["run"].at # "idle" /\ n >= 1
    <3>1. PICK l \in Loops, r \in Receivers : SendTo(l, r)
      BY <2>4, HereStays
    <3>2. l = "run" /\ k = n
      BY <2>4, <3>1, HereOfSendTo
    <3>3. pub["run"].at # "idle"
      BY <3>1, <3>2 DEF SendTo
    <3>4. n >= 1
      BY <3>2, <3>3 DEF QueueInv
    <3> QED
      BY <3>2, <3>3, <3>4
  <2>5. n >= 1 => n \in 1 .. n
    BY <1>1
  <2> HIDE DEF n
  <2>6. /\ \A k : k \in Departed \/ k \in Delivered => k \in 1 .. n
        /\ policy = "Always" => \A k \in 1 .. n : k \in Departed
        /\ policy = "Never" => \A k : k \notin Departed
        /\ policy = "Minimal" =>
             /\ \A k : ~(k \in Delivered /\ k \in Departed)
             /\ pub["run"].at # "idle" => n \notin Departed
    BY DEF WayInv, n
  <2>7. /\ \A k : k \in Departed' \/ k \in Delivered' => k \in 1 .. n
        /\ policy = "Always" => \A k \in 1 .. n : k \in Departed'
        /\ policy = "Never" => \A k : k \notin Departed'
        /\ policy = "Minimal" =>
             /\ \A k : ~(k \in Delivered' /\ k \in Departed')
             /\ pub'["run"].at # "idle" => n \notin Departed'
    BY <2>2, <2>3, <2>4, <2>5, <2>6
  <2> QED
    BY <2>1, <2>3, <2>7 DEF WayInv
<1> QED
  BY <1>2, <1>3

-----------------------------------------------------------------------------
(* The items that were lost on closed receivers, and the receivers that     *)
(* this has taken away.                                                     *)
Done == IF pub["run"].at = "idle" THEN Taken("run") ELSE Taken("run") - 1

Lost == {k \in 1 .. Done : k \notin Delivered /\ k \notin Departed}

Removed == {r \in Receivers : state[r] = "closed" /\ r \notin senders}

Used == {r \in Receivers : state[r] # "new"}

(* One more receiver has been taken away than items have been lost.         *)
Spare == Cardinality(Lost) + 1 <= Cardinality(Removed)

(* While the loop publishes an item that nobody got so far, it will meet a  *)
(* receiver that is still there, or the other loop has taken one away.      *)
LossInv ==
  /\ IsFiniteSet(Used)
  /\ policy = "Minimal" =>
       /\ Cardinality(Lost) <= Cardinality(Removed)
       /\ pub["run"].at = "copy" => senders # {} \/ Spare
       /\ pub["run"].at = "send" /\ Taken("run") \notin Delivered =>
            /\ pub["run"].copied \subseteq pub["run"].left \cup pub["run"].to_clear
            /\ pub["run"].copied \cap senders # {} \/ Spare

LEMMA LostIsFinite ==
  ASSUME RoutingTypeOK, QueueInv
  PROVE  IsFiniteSet(Lost) /\ Cardinality(Lost) \in Nat
<1>1. Done \in Int
  BY TakenIs DEF Done
<1>2. IsFiniteSet(1 .. Done)
  BY <1>1, FS_Interval
<1>3. IsFiniteSet(Lost)
  BY <1>2, FS_Subset DEF Lost
<1> QED
  BY <1>3, FS_CardinalityType

LEMMA RemovedIsFinite ==
  ASSUME IsFiniteSet(Used)
  PROVE  IsFiniteSet(Removed) /\ Cardinality(Removed) \in Nat
<1>1. IsFiniteSet(Removed)
  BY FS_Subset DEF Removed, Used
<1> QED
  BY <1>1, FS_CardinalityType

LEMMA UsedStaysFinite ==
  ASSUME RoutingTypeOK, IsFiniteSet(Used), [RNext]_rvars
  PROVE  IsFiniteSet(Used')
<1>1. ASSUME NEW r \in Receivers, state' = [state EXCEPT ![r] = state'[r]]
      PROVE  IsFiniteSet(Used')
  <2>1. IsFiniteSet(Used \cup {r})
    BY FS_AddElement
  <2>2. Used' \subseteq Used \cup {r}
    BY <1>1 DEF Used, RoutingTypeOK
  <2> QED
    BY <2>1, <2>2, FS_Subset
<1>2. ASSUME NEW r \in Receivers, Receive(r) \/ Close(r)
      PROVE  IsFiniteSet(Used')
  <2>1. state' = [state EXCEPT ![r] = state'[r]]
    BY <1>2 DEF Receive, Close, RoutingTypeOK
  <2> QED
    BY <1>1, <2>1
<1>3. CASE UNCHANGED state
  BY <1>3 DEF Used
<1>4. (\E r \in Receivers : Receive(r) \/ Close(r)) \/ UNCHANGED state
  BY DEF RNext, Send, Run, NetworkingRecv, NetworkingPublish, Fail, Publish, EndPublish, SendTo, rvars
<1> QED
  BY <1>2, <1>3, <1>4

(* Nobody who was taken away comes back.                                    *)
LEMMA RemovedStays ==
  ASSUME RoutingTypeOK, SenderInv, [RNext]_rvars
  PROVE  /\ Removed \subseteq Removed'
         /\ \A r \in senders : r \in senders' \/ r \in Removed'
<1>1. ASSUME NEW r \in Receivers, Receive(r)
      PROVE  Removed \subseteq Removed' /\ senders \subseteq senders'
  BY <1>1 DEF Receive, Removed, RoutingTypeOK
<1>2. ASSUME NEW r \in Receivers, Close(r)
      PROVE  Removed \subseteq Removed' /\ senders \subseteq senders'
  BY <1>2 DEF Close, Removed, RoutingTypeOK
<1>3. ASSUME NEW l \in Loops, EndPublish(l)
      PROVE  Removed \subseteq Removed' /\ \A r \in senders : r \in senders' \/ r \in Removed'
  <2>1. senders' = senders \ pub[l].to_clear /\ state' = state /\ pub[l].at = "send"
    BY <1>3 DEF EndPublish, Cleared
  <2>2. \A r \in pub[l].to_clear : state[r] = "closed"
    BY <2>1 DEF SenderInv
  <2> QED
    BY <2>1, <2>2 DEF Removed, RoutingTypeOK
<1>4. CASE UNCHANGED <<state, senders>>
  BY <1>4 DEF Removed
<1>5. \/ \E r \in Receivers : Receive(r) \/ Close(r)
      \/ \E l \in Loops : EndPublish(l)
      \/ UNCHANGED <<state, senders>>
  BY DEF RNext, Send, Run, NetworkingRecv, NetworkingPublish, Fail, Publish, SendTo, rvars
<1> QED
  BY <1>1, <1>2, <1>3, <1>4, <1>5

LEMMA RemovedGrows ==
  ASSUME RoutingTypeOK, SenderInv, IsFiniteSet(Used), [RNext]_rvars
  PROVE  /\ Cardinality(Removed) \in Nat /\ Cardinality(Removed') \in Nat
         /\ Cardinality(Removed) <= Cardinality(Removed')
         /\ \A r \in senders : r \notin senders' => Cardinality(Removed) + 1 <= Cardinality(Removed')
<1>1. IsFiniteSet(Used)'
  BY UsedStaysFinite
<1>2. IsFiniteSet(Removed) /\ Cardinality(Removed) \in Nat
  BY RemovedIsFinite
<1>3. IsFiniteSet(Removed') /\ Cardinality(Removed') \in Nat
  <2>1. Removed' \subseteq Used'
    BY DEF Removed, Used
  <2>2. IsFiniteSet(Removed')
    BY <1>1, <2>1, FS_Subset
  <2> QED
    BY <2>2, FS_CardinalityType
<1>4. Cardinality(Removed) <= Cardinality(Removed')
  BY <1>3, RemovedStays, FS_Subset
<1>5. ASSUME NEW r \in senders, r \notin senders'
      PROVE  Cardinality(Removed) + 1 <= Cardinality(Removed')
  <2>1. r \in Removed' /\ r \notin Removed
    BY <1>5, RemovedStays DEF Removed
  <2>2. IsFiniteSet(Removed \cup {r}) /\ Cardinality(Removed \cup {r}) = Cardinality(Removed) + 1
    BY <1>2, <2>1, FS_AddElement
  <2>3. Removed \cup {r} \subseteq Removed'
    BY <2>1, RemovedStays
  <2>4. Cardinality(Removed \cup {r}) <= Cardinality(Removed')
    BY <1>3, <2>3, FS_Subset
  <2> QED
    BY <2>2, <2>4
<1> QED
  BY <1>2, <1>3, <1>4, <1>5

(* What has been lost is lost by EndPublish of the topic's loop.            *)
LEMMA LostByRun ==
  ASSUME RoutingTypeOK, QueueInv, Run
  PROVE  policy = "Minimal" => Lost' = Lost
<1> DEFINE n == Taken("run")
<1>1. n \in Nat /\ Taken("run")' = n + 1 /\ Head(queue) = n + 1
  BY TakenIs, TakenByRun
<1>2. pub["run"].at = "idle"
  BY DEF Run, AtRest
<1>3. \A k : k \in Delivered' <=> k \in Delivered
  <2>1. inbox' = inbox
    BY DEF Run
  <2> QED
    BY <2>1 DEF Delivered, Here
<1>4. CASE policy = "Minimal" /\ senders = {}
  <2>1. pub'["run"].at = "idle"
    BY <1>2, <1>4 DEF Run
  <2>2. Done = n /\ Done' = n + 1
    BY <1>1, <1>2, <2>1 DEF Done
  <2>3. \A k : k \in Departed' <=> k \in Departed \/ k = n + 1
    BY <1>1, <1>4, AwayOfRun
  <2> HIDE DEF n
  <2>4. \A k : k \in 1 .. n + 1 <=> k \in 1 .. n \/ k = n + 1
    BY <1>1
  <2>5. ~(n + 1 \in 1 .. n)
    BY <1>1
  <2>6. \A k : k \in Lost <=> k \in 1 .. n /\ k \notin Delivered /\ k \notin Departed
    BY <2>2 DEF Lost
  <2>7. \A k : k \in Lost' <=> k \in 1 .. n + 1 /\ k \notin Delivered' /\ k \notin Departed'
    BY <2>2 DEF Lost
  <2>8. \A k : k \in Lost' <=> k \in Lost
    BY <1>3, <2>3, <2>4, <2>5, <2>6, <2>7
  <2> QED
    BY <2>8 DEF Lost
<1>5. CASE policy = "Minimal" /\ senders # {}
  <2>1. pub'["run"].at = "copy"
    BY <1>5 DEF Run, RoutingTypeOK, Loops
  <2>2. Done = n /\ Done' = n
    BY <1>1, <1>2, <2>1 DEF Done
  <2>3. \A k : k \in Departed' <=> k \in Departed
    BY <1>5, AwayOfRun
  <2> QED
    BY <1>3, <2>2, <2>3 DEF Lost
<1> QED
  BY <1>4, <1>5

LEMMA LostByOthers ==
  ASSUME RoutingTypeOK, QueueInv, [RNext]_rvars, ~Run, ~EndPublish("run")
  PROVE  Lost' = Lost /\ (pub["run"].at = "idle" <=> pub'["run"].at = "idle")
<1> DEFINE n == Taken("run")
<1>1. n \in Nat /\ Taken("run")' = n /\ \A k : k \in Departed' <=> k \in Departed
  BY TakenIs, TakenStays, AwayStays
<1>2. pub["run"].at = "idle" <=> pub'["run"].at = "idle"
  <2>1. ASSUME NEW l \in Loops, NEW r \in Receivers, SendTo(l, r)
        PROVE  pub["run"].at = "idle" <=> pub'["run"].at = "idle"
    BY <2>1, SendToLoops DEF Loops
  <2>2. CASE Publish("run")
    BY <2>2 DEF Publish, RoutingTypeOK, Loops
  <2>3. CASE Publish("recv") \/ EndPublish("recv") \/ NetworkingRecv
    BY <2>3 DEF Publish, EndPublish, NetworkingRecv, RoutingTypeOK, Loops
  <2>4. CASE UNCHANGED pub
    BY <2>4
  <2>5. \/ \E l \in Loops, r \in Receivers : SendTo(l, r)
        \/ Publish("run") \/ Publish("recv") \/ EndPublish("recv") \/ NetworkingRecv \/ UNCHANGED pub
    BY DEF RNext, Receive, Close, Send, NetworkingPublish, Fail, rvars, Loops
  <2> QED
    BY <2>1, <2>2, <2>3, <2>4, <2>5
<1>3. Done' = Done
  BY <1>1, <1>2 DEF Done
<1>4. \A k \in 1 .. Done : k \in Delivered' <=> k \in Delivered
  <2>1. ASSUME NEW k \in 1 .. Done, ~(k \in Delivered' <=> k \in Delivered)
        PROVE  FALSE
    <3>1. PICK l \in Loops, r \in Receivers : SendTo(l, r)
      BY <2>1, HereStays
    <3>2. k = n /\ l = "run"
      BY <2>1, <3>1, HereOfSendTo
    <3>3. Done = n - 1
      BY <3>1, <3>2 DEF Done, SendTo
    <3> QED
      BY <1>1, <2>1, <3>2, <3>3
  <2> QED
    BY <2>1
<1>5. \A k : k \in Lost' <=> k \in Lost
  BY <1>1, <1>3, <1>4 DEF Lost
<1> QED
  BY <1>2, <1>5 DEF Lost

LEMMA LostByEnd ==
  ASSUME RoutingTypeOK, QueueInv, EndPublish("run")
  PROVE  /\ Taken("run") \in Delivered => Lost' = Lost
         /\ Cardinality(Lost') <= Cardinality(Lost) + 1 /\ Cardinality(Lost') \in Nat
<1> DEFINE n == Taken("run")
<1>0. "run" \in Loops
  BY DEF Loops
<1>1. pub["run"].at = "send" /\ pub'["run"].at = "idle" /\ UNCHANGED <<queue, count, inbox, outgoing, gone>>
  BY <1>0 DEF EndPublish, AtRest, RoutingTypeOK
<1>2. n \in Nat /\ n >= 1
  BY <1>0, <1>1, TakenIs DEF QueueInv
<1>3. Done = n - 1 /\ Done' = n
  BY <1>1 DEF Done, Taken
<1>4. Departed' = Departed /\ Delivered' = Delivered
  BY <1>1 DEF Departed, Delivered, Here
<1> HIDE DEF n
<1>5. \A k : k \in 1 .. n <=> k \in 1 .. n - 1 \/ k = n
  BY <1>2
<1>6. \A k : k \in Lost <=> k \in 1 .. n - 1 /\ k \notin Delivered /\ k \notin Departed
  BY <1>3 DEF Lost
<1>7. \A k : k \in Lost' <=> k \in 1 .. n /\ k \notin Delivered /\ k \notin Departed
  BY <1>3, <1>4 DEF Lost
<1>8. Lost \subseteq Lost' /\ Lost' \subseteq Lost \cup {n} /\ (n \in Delivered => Lost' \subseteq Lost)
  BY <1>5, <1>6, <1>7
<1>9. IsFiniteSet(Lost) /\ Cardinality(Lost) \in Nat
  BY LostIsFinite
<1>10. /\ IsFiniteSet(Lost \cup {n})
       /\ Cardinality(Lost \cup {n}) = IF n \in Lost THEN Cardinality(Lost) ELSE Cardinality(Lost) + 1
  BY <1>9, FS_AddElement
<1>11. /\ IsFiniteSet(Lost') /\ Cardinality(Lost') <= Cardinality(Lost \cup {n})
       /\ Cardinality(Lost') \in Nat
  BY <1>8, <1>10, FS_Subset, FS_CardinalityType
<1>12. Cardinality(Lost') <= Cardinality(Lost) + 1
  BY <1>9, <1>10, <1>11
<1>13. n \in Delivered => Lost' = Lost
  BY <1>8
<1> QED
  BY <1>11, <1>12, <1>13 DEF n

LEMMA RoutingKeepsLosses ==
  ASSUME RoutingTypeOK, SenderInv, QueueInv, LossInv, [RNext]_rvars
  PROVE  LossInv'
<1> DEFINE n == Taken("run")
           u == pub["run"]
<1>1. IsFiniteSet(Used)' /\ policy' = policy
  <2>1. policy' = policy
    BY DEF RNext, Receive, Close, Send, Run, NetworkingRecv, NetworkingPublish, Fail, Publish, EndPublish,
           SendTo, rvars
  <2> QED
    BY <2>1, UsedStaysFinite DEF LossInv
<1>2. /\ Cardinality(Removed) \in Nat /\ Cardinality(Removed') \in Nat
      /\ Cardinality(Removed) <= Cardinality(Removed')
      /\ \A r \in senders : r \notin senders' => Cardinality(Removed) + 1 <= Cardinality(Removed')
  BY RemovedGrows DEF LossInv
<1>3. Cardinality(Lost) \in Nat
  BY LostIsFinite
<1>4. "run" \in Loops /\ n \in Nat
  BY TakenIs DEF Loops
<1>5. ASSUME policy = "Minimal"
      PROVE  /\ Cardinality(Lost') <= Cardinality(Removed')
             /\ pub'["run"].at = "copy" => senders' # {} \/ Spare'
             /\ pub'["run"].at = "send" /\ n' \notin Delivered' =>
                  /\ pub'["run"].copied \subseteq pub'["run"].left \cup pub'["run"].to_clear
                  /\ pub'["run"].copied \cap senders' # {} \/ Spare'
  <2>1. /\ Cardinality(Lost) <= Cardinality(Removed)
        /\ u.at = "copy" => senders # {} \/ Spare
        /\ u.at = "send" /\ n \notin Delivered =>
             u.copied \subseteq u.left \cup u.to_clear /\ (u.copied \cap senders # {} \/ Spare)
    BY <1>5 DEF LossInv
  <2>2. CASE Run
    <3>1. Lost' = Lost
      BY <1>5, <2>2, LostByRun
    <3>2. pub'["run"].at = "idle" \/ (pub'["run"].at = "copy" /\ senders' # {})
      BY <1>4, <1>5, <2>2 DEF Run, RoutingTypeOK, AtRest
    <3> QED
      BY <1>2, <1>3, <2>1, <3>1, <3>2
  <2>3. CASE EndPublish("run")
    <3>1. /\ u.at = "send" /\ u.left = {} /\ senders' = senders \ u.to_clear /\ pub'["run"].at = "idle"
      BY <1>4, <2>3 DEF EndPublish, Cleared, RoutingTypeOK, AtRest
    <3>2. /\ n \in Delivered => Lost' = Lost
          /\ Cardinality(Lost') <= Cardinality(Lost) + 1 /\ Cardinality(Lost') \in Nat
      BY <2>3, LostByEnd
    <3> HIDE DEF n, u
    <3>3. CASE n \in Delivered
      BY <1>2, <1>3, <2>1, <3>1, <3>2, <3>3
    <3>4. CASE n \notin Delivered /\ Spare
      BY <1>2, <1>3, <3>1, <3>2, <3>4 DEF Spare
    <3>5. CASE n \notin Delivered /\ u.copied \cap senders # {}
      <4>1. PICK r \in senders : r \in u.copied
        BY <3>5
      <4>2. r \in u.to_clear
        BY <2>1, <3>1, <3>5, <4>1
      <4>3. r \notin senders'
        BY <3>1, <4>2
      <4>4. Cardinality(Removed) + 1 <= Cardinality(Removed')
        BY <1>2, <4>3
      <4> QED
        BY <1>2, <1>3, <2>1, <3>1, <3>2, <4>4
    <3> QED
      BY <2>1, <3>1, <3>3, <3>4, <3>5
  <2>4. CASE ~Run /\ ~EndPublish("run")
    <3>1. Lost' = Lost /\ n' = n
      BY <2>4, LostByOthers, TakenStays
    <3>2. Spare => Spare'
      BY <1>2, <1>3, <3>1 DEF Spare
    <3>3. \A r \in senders : r \in senders' \/ Spare'
      BY <1>2, <1>3, <2>1, <3>1 DEF Spare
    <3>4. n \in Delivered => n \in Delivered'
      <4>1. CASE \E l \in Loops, r \in Receivers : SendTo(l, r)
        BY <4>1, HereOfSendTo
      <4>2. CASE \A l \in Loops, r \in Receivers : ~SendTo(l, r)
        BY <4>2, HereStays
      <4> QED
        BY <4>1, <4>2
    <3>5. Cardinality(Lost') <= Cardinality(Removed')
      BY <1>2, <1>3, <2>1, <3>1
    <3>6. CASE pub'["run"] = u
      <4>1. /\ u.at = "copy" => senders' # {} \/ Spare'
            /\ u.at = "send" /\ n \notin Delivered =>
                 u.copied \subseteq u.left \cup u.to_clear /\ (u.copied \cap senders' # {} \/ Spare')
        BY <2>1, <3>2, <3>3
      <4> QED
        BY <3>1, <3>4, <3>5, <3>6, <4>1
    <3>7. CASE Publish("run")
      <4>1. /\ u.at = "copy" /\ senders' = senders
            /\ pub'["run"] = [at |-> "send", item |-> u.item, copied |-> senders, left |-> senders,
                              to_clear |-> {}]
        BY <1>4, <3>7 DEF Publish, RoutingTypeOK
      <4>2. /\ pub'["run"].at = "send" /\ pub'["run"].copied = senders /\ pub'["run"].left = senders
        BY <4>1
      <4>3. senders # {} \/ Spare
        BY <2>1, <4>1
      <4> QED
        BY <3>2, <3>5, <4>1, <4>2, <4>3
    <3>8. ASSUME NEW r \in Receivers, SendTo("run", r)
          PROVE  /\ pub'["run"].at = "send"
                 /\ n' \notin Delivered' =>
                      /\ pub'["run"].copied \subseteq pub'["run"].left \cup pub'["run"].to_clear
                      /\ pub'["run"].copied \cap senders' # {} \/ Spare'
      <4>1. /\ u.at = "send" /\ pub'["run"].at = "send" /\ pub'["run"].copied = u.copied
            /\ pub'["run"].left = u.left \ {r}
            /\ state[r] # "open" => pub'["run"].to_clear = u.to_clear \cup {r}
        BY <1>4, <3>8, SendToLoops
      <4>2. state[r] = "open" => n \in Delivered'
        BY <1>4, <3>8, HereOfSendTo
      <4>3. senders' = senders
        BY <3>8 DEF SendTo
      <4>4. CASE state[r] = "open"
        BY <3>1, <4>1, <4>2, <4>4
      <4>5. CASE state[r] # "open"
        <5>1. n \notin Delivered =>
                u.copied \subseteq u.left \cup u.to_clear /\ (u.copied \cap senders # {} \/ Spare)
          BY <2>1, <4>1
        <5> QED
          BY <3>1, <3>2, <3>4, <4>1, <4>3, <4>5, <5>1
      <4> QED
        BY <4>4, <4>5
    <3>9. pub'["run"] = u \/ Publish("run") \/ \E r \in Receivers : SendTo("run", r)
      <4>1. ASSUME NEW r \in Receivers, SendTo("recv", r)
            PROVE  pub'["run"] = u
        BY <4>1, SendToLoops DEF Loops
      <4>2. CASE Publish("recv") \/ EndPublish("recv") \/ NetworkingRecv
        BY <4>2 DEF Publish, EndPublish, NetworkingRecv, RoutingTypeOK, Loops
      <4>3. \/ Publish("recv") \/ EndPublish("recv") \/ NetworkingRecv \/ UNCHANGED pub \/ Publish("run")
            \/ \E r \in Receivers : SendTo("recv", r) \/ SendTo("run", r)
        BY <2>4 DEF RNext, Receive, Close, Send, NetworkingPublish, Fail, rvars, Loops
      <4> QED
        BY <4>1, <4>2, <4>3
    <3>10. CASE \E r \in Receivers : SendTo("run", r)
      BY <3>5, <3>8, <3>10
    <3> QED
      BY <3>6, <3>7, <3>9, <3>10
  <2> QED
    BY <2>2, <2>3, <2>4
<1> QED
  BY <1>1, <1>5 DEF LossInv

-----------------------------------------------------------------------------
RouterInv == RoutingTypeOK /\ SenderInv /\ QueueInv /\ InboxInv /\ WayInv /\ LossInv

LEMMA RouterInit ==
  ASSUME RInit
  PROVE  RouterInv
<1>1. RoutingTypeOK
  BY RoutingInitTypes
<1>2. SenderInv /\ QueueInv
  BY DEF RInit, SenderInv, QueueInv, Taken, AtRest, Loops
<1>3. InboxInv
  BY DEF RInit, InboxInv, Gapless, UpToDate
<1>4. Departed = {} /\ Delivered = {} /\ Taken("run") = 0 /\ Done = 0
  BY DEF RInit, Departed, Delivered, Here, ToSet, Taken, Done, AtRest, Loops
<1>5. WayInv
  BY <1>4 DEF RInit, WayInv, AtRest, Loops
<1>6. Lost = {} /\ Removed = {} /\ Used = {}
  BY <1>4 DEF RInit, Lost, Removed, Used
<1>7. LossInv
  BY <1>6, FS_EmptySet DEF RInit, LossInv, AtRest, Loops
<1> QED
  BY <1>1, <1>2, <1>3, <1>5, <1>7 DEF RouterInv

LEMMA RouterStep ==
  ASSUME RouterInv, [RNext]_rvars
  PROVE  RouterInv'
BY RoutingKeepsTypes, RoutingKeepsSenders, RoutingKeepsQueue, RoutingKeepsInboxes, RoutingKeepsWays,
   RoutingKeepsLosses DEF RouterInv

LEMMA HandledIsDone ==
  ASSUME RoutingTypeOK, QueueInv
  PROVE  Handled = 1 .. Done
<1> DEFINE n == Taken("run")
           c == count.here
<1>1. /\ n \in Nat /\ c \in Nat /\ n <= c /\ Len(queue) \in Nat /\ "run" \in Loops
      /\ DOMAIN queue = 1 .. Len(queue) /\ n = c - Len(queue)
  BY TakenIs DEF RoutingTypeOK, Loops, Taken
<1>2. \A i \in 1 .. Len(queue) : queue[i] = n + i
  BY DEF QueueInv
<1>3. pub["run"] = AtRest <=> pub["run"].at = "idle"
  BY <1>1, PublishingIs DEF RoutingTypeOK
<1>4. pub["run"].at # "idle" => pub["run"].item[2] = n /\ n >= 1
  BY <1>1 DEF QueueInv
<1>5. Done = IF pub["run"].at = "idle" THEN n ELSE n - 1
  BY DEF Done
<1>6. \A k : k \in Handled <=>
        k \in 1 .. c /\ k \notin ToSet(queue) /\ (pub["run"] = AtRest \/ pub["run"].item[2] # k)
  BY DEF Handled
<1>7. \A k : k \in ToSet(queue) <=> \E i \in 1 .. Len(queue) : k = queue[i]
  BY <1>1 DEF ToSet
<1> HIDE DEF n, c
<1>8. \A k \in 1 .. c : k \in ToSet(queue) <=> k > n
  <2>1. \A i \in 1 .. Len(queue) : n + i > n
    BY <1>1
  <2>2. \A k \in 1 .. c : k > n => k - n \in 1 .. Len(queue) /\ n + (k - n) = k
    BY <1>1
  <2> QED
    BY <1>2, <1>7, <2>1, <2>2
<1>9. \A k : k \in 1 .. c /\ ~(k > n) <=> k \in 1 .. n
  BY <1>1
<1>10. CASE pub["run"].at = "idle"
  <2>1. \A k : k \in Handled <=> k \in 1 .. n
    BY <1>3, <1>6, <1>8, <1>9, <1>10
  <2> QED
    BY <1>5, <1>10, <2>1
<1>11. CASE pub["run"].at # "idle"
  <2>1. \A k : k \in Handled <=> k \in 1 .. n /\ k # n
    BY <1>3, <1>4, <1>6, <1>8, <1>9, <1>11
  <2>2. \A k : k \in 1 .. n /\ k # n <=> k \in 1 .. n - 1
    BY <1>1
  <2> QED
    BY <1>5, <1>11, <2>1, <2>2
<1> QED
  BY <1>10, <1>11

(* Topics, receivers, queues and loops keep their types, for any receivers  *)
(* and any number of items.                                                 *)
THEOREM RoutingTypes == RSpec => []RoutingTypeOK
<1>1. RouterInv => RoutingTypeOK
  BY DEF RouterInv
<1> QED
  BY <1>1, RouterInit, RouterStep, PTL DEF RSpec

(* Whatever the loop of the topic and the loop of the network do in         *)
(* between each other, and whoever comes and goes meanwhile, no open        *)
(* receiver drops out of the senders, each gets the items from its first on *)
(* without a gap, and an item goes where the policy sends it; a Minimal one *)
(* that goes nowhere has cost a closed receiver its place.                  *)
THEOREM TopicsHold == RSpec => []RoutingHolds
<1>1. RouterInv => RoutingHolds
  <2>1. ASSUME RouterInv
        PROVE  RoutingHolds
    <3>1. RoutingTypeOK /\ SenderInv /\ QueueInv /\ InboxInv /\ WayInv /\ LossInv
      BY <2>1 DEF RouterInv
    <3>2. NoneForgotten
      BY <3>1 DEF SenderInv, NoneForgotten
    <3>3. InboxesHaveNoGaps
      <4>1. \A r \in Receivers : Gapless(inbox[r]) /\ DOMAIN inbox[r] = 1 .. Len(inbox[r])
        BY <3>1 DEF InboxInv, RoutingTypeOK
      <4> QED
        BY <4>1 DEF Gapless, InboxesHaveNoGaps
    <3>4. ItemsGoTheirWay
      <4>1. Handled = 1 .. Done /\ Taken("run") \in Nat
        BY <3>1, HandledIsDone, TakenIs
      <4>2. \A k \in Handled : k \in 1 .. Taken("run") /\ k \in Nat
        BY <4>1 DEF Done
      <4>3. \A k \in Nat : (Here(k) <=> k \in Delivered) /\ (Away(k) <=> k \in Departed)
        BY DEF Delivered, Departed, Away
      <4>4. \A k \in Handled :
              /\ policy = "Always" => Away(k)
              /\ policy = "Never" => ~Away(k)
              /\ policy = "Minimal" => ~(Here(k) /\ Away(k))
        BY <3>1, <4>2, <4>3 DEF WayInv
      <4>5. {k \in Handled : ~Here(k) /\ ~Away(k)} = Lost
        BY <4>1, <4>2, <4>3 DEF Lost
      <4>6. {r \in Receivers : state[r] = "closed" /\ r \notin senders} = Removed
        BY DEF Removed
      <4> QED
        BY <3>1, <4>4, <4>5, <4>6 DEF LossInv, ItemsGoTheirWay
    <3> QED
      BY <3>2, <3>3, <3>4 DEF RoutingHolds
  <2> QED
    BY <2>1
<1> QED
  BY <1>1, RouterInit, RouterStep, PTL DEF RSpec
=============================================================================
