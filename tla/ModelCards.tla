------------------------------ MODULE ModelCards ------------------------------
(***************************************************************************)
(* Custom models: the cards that users add and delete through the API of   *)
(* any node, the State that all nodes share of them, the cache of cards    *)
(* that every process has with the directory behind it (_CardCache,        *)
(* shared/models/model_cards.py), and the loop in which a worker makes its *)
(* cache what the State says (_reconcile_custom_cards).                    *)
(*                                                                         *)
(* Every await on the file system is a place where the others run.  An     *)
(* image model is left out: list_all hides it from the loop by default.    *)
(***************************************************************************)
EXTENDS Integers, Sequences, FiniteSets

CONSTANTS
  Followed,     \* the nodes that are followed
  Models,
  Builtin,      \* the models with a card of their own
  MaxWishes,    \* bound: cards added and deleted
  MaxLoads,     \* bound: cards looked up
  MaxFaults     \* bound: lost commands, failed saves, elections, restarts

VARIABLES
  commands,  \* commands on their way to the master
  log,       \* its events of cards
  applied,   \* events that a worker has applied
  cards,     \* card_cache.cc: what is known of a model
  disk,      \* the files of custom_model_cards
  pass,      \* where the reconciling loop is
  load,      \* a ModelCard.load that is under way
  quiet,     \* the nodes where nothing but the loop has run since it last began
  loose,     \* the custom cards of a cache that no file stands behind
  counts

mvars == <<commands, log, applied, cards, disk, pass, load, quiet, loose, counts>>

ASSUME ModelCardsAssumption ==
  /\ Builtin \subseteq Models
  /\ MaxWishes \in Nat /\ MaxLoads \in Nat /\ MaxFaults \in Nat

Rest == [at |-> "rest"]
NoLoad == [at |-> "none"]

Count(what) == counts' = [counts EXCEPT ![what] = @ + 1]

\* State.custom_model_cards: the models whose last event is that they were added.
Target(n) ==
  {m \in Models : \E i \in 1 .. applied[n] :
     log[i] = <<"add", m>> /\ \A j \in i + 1 .. applied[n] : log[j][2] # m}

Disturb(n) == quiet' = quiet \ {n}

SetCard(n, m, card) == cards' = [cards EXCEPT ![n][m] = card]

-----------------------------------------------------------------------------
\* The API.

\* add_custom_model: the card is in the cache of this node at once.
AddCustomModel(n, m) ==
  /\ counts.commands < MaxWishes /\ Count("commands")
  /\ commands' = commands \cup {<<"add", m, counts.commands>>}
  /\ SetCard(n, m, "custom")
  /\ loose' = [loose EXCEPT ![n] = @ \cup {m}]
  /\ Disturb(n)
  /\ UNCHANGED <<log, applied, disk, pass, load>>

DeleteCustomModel(n, m) ==
  /\ counts.commands < MaxWishes /\ Count("commands")
  /\ cards[n][m] = "custom"
  /\ commands' = commands \cup {<<"delete", m, counts.commands>>}
  /\ UNCHANGED <<log, applied, cards, disk, pass, load, quiet, loose>>

\* The same at a node that is not followed: nodes meet in the log only.
Elsewhere(op, m) ==
  /\ counts.commands < MaxWishes /\ Count("commands")
  /\ commands' = commands \cup {<<op, m, counts.commands>>}
  /\ UNCHANGED <<log, applied, cards, disk, pass, load, quiet, loose>>

\* The master's events; each command is a broadcast that may be lost.
Index(c) ==
  /\ commands' = commands \ {c}
  /\ log' = Append(log, <<c[1], c[2]>>)
  /\ UNCHANGED <<applied, cards, disk, pass, load, quiet, loose, counts>>

LoseCommand(c) ==
  /\ counts.faults < MaxFaults /\ Count("faults")
  /\ commands' = commands \ {c}
  /\ UNCHANGED <<log, applied, cards, disk, pass, load, quiet, loose>>

Apply(n) ==
  /\ applied[n] < Len(log)
  /\ applied' = [applied EXCEPT ![n] = @ + 1]
  /\ Disturb(n)
  /\ UNCHANGED <<commands, log, cards, disk, pass, load, loose, counts>>

-----------------------------------------------------------------------------
\* _CardCache.refresh: cards with the program, and then files, one by one; a card that
\* is there already stays.

KnowBuiltin(n) ==
  [m \in Models |-> IF cards[n][m] = "none" /\ m \in Builtin THEN "builtin" ELSE cards[n][m]]

\* ModelCard.load of a card that is not in the cache.
StartLoad(n, m) ==
  /\ load[n] = NoLoad /\ cards[n][m] = "none"
  /\ counts.loads < MaxLoads /\ Count("loads")
  /\ cards' = [cards EXCEPT ![n] = KnowBuiltin(n)]
  /\ load' = [load EXCEPT ![n] = [at |-> "scan", model |-> m, left |-> disk[n], file |-> m]]
  /\ Disturb(n)
  /\ UNCHANGED <<commands, log, applied, disk, pass, loose>>

ReadFile(n, m) ==
  /\ load[n].at = "scan" /\ m \in load[n].left
  /\ load' = [load EXCEPT ![n] = [load[n] EXCEPT !.at = IF m \in disk[n] THEN "read" ELSE "scan",
                                                 !.left = @ \ {m}, !.file = m]]
  /\ Disturb(n)
  /\ UNCHANGED <<commands, log, applied, cards, disk, pass, loose, counts>>

KeepFile(n) ==
  /\ load[n].at = "read"
  /\ LET m == load[n].file IN
       IF cards[n][m] # "none" THEN UNCHANGED <<cards, loose>>
       ELSE /\ SetCard(n, m, "custom")
            /\ loose' = [loose EXCEPT ![n] = IF m \in disk[n] THEN @ ELSE @ \cup {m}]
  /\ load' = [load EXCEPT ![n].at = "scan"]
  /\ Disturb(n)
  /\ UNCHANGED <<commands, log, applied, disk, pass, counts>>

\* A card that is not found is fetched and written to the directory, not to the cache.
EndLoad(n) ==
  /\ load[n].at = "scan" /\ load[n].left = {}
  /\ disk' = IF cards[n][load[n].model] # "none" THEN disk
             ELSE [disk EXCEPT ![n] = @ \cup {load[n].model}]
  /\ load' = [load EXCEPT ![n] = NoLoad]
  /\ Disturb(n)
  /\ UNCHANGED <<commands, log, applied, cards, pass, loose, counts>>

-----------------------------------------------------------------------------
\* _reconcile_custom_cards.

StartPass(n) ==
  /\ pass[n] = Rest
  /\ pass' = [pass EXCEPT ![n] = [at |-> "save", target |-> Target(n), left |-> Target(n), model |-> "none"]]
  /\ quiet' = quiet \cup {n}
  /\ UNCHANGED <<commands, log, applied, cards, disk, load, loose, counts>>

PassAt(n, at) == pass[n] # Rest /\ pass[n].at = at

\* _CardCache.save: the cache first; then the file, which may fail.
SaveCard(n, m) ==
  /\ PassAt(n, "save") /\ m \in pass[n].left
  /\ IF cards[n][m] = "custom" THEN pass' = [pass EXCEPT ![n].left = @ \ {m}] /\ UNCHANGED <<cards, loose>>
     ELSE /\ SetCard(n, m, "custom")
          /\ loose' = [loose EXCEPT ![n] = @ \cup {m}]
          /\ pass' = [pass EXCEPT ![n] = [pass[n] EXCEPT !.at = "write", !.left = @ \ {m},
                                                         !.model = m]]
  /\ UNCHANGED <<commands, log, applied, disk, load, quiet, counts>>

WriteFile(n) ==
  /\ PassAt(n, "write")
  /\ \/ /\ disk' = [disk EXCEPT ![n] = @ \cup {pass[n].model}]
        /\ loose' = [loose EXCEPT ![n] = @ \ {pass[n].model}]
        /\ UNCHANGED counts
     \/ counts.faults < MaxFaults /\ Count("faults") /\ UNCHANGED <<disk, loose>>
  /\ pass' = [pass EXCEPT ![n].at = "save"]
  /\ UNCHANGED <<commands, log, applied, cards, load, quiet>>

\* list_all; an empty cache is read anew, here in one step.
ListAll(n) ==
  /\ PassAt(n, "save") /\ pass[n].left = {}
  /\ LET all == IF \A m \in Models : cards[n][m] = "none"
                THEN [m \in Models |-> IF m \in Builtin THEN "builtin" ELSE IF m \in disk[n] THEN "custom" ELSE "none"]
                ELSE cards[n]
     IN /\ cards' = [cards EXCEPT ![n] = all]
        /\ pass' = [pass EXCEPT ![n] = [at |-> "pop", target |-> @.target,
                                        left |-> {m \in Models : all[m] # "none"} \ @.target,
                                        model |-> "none"]]
  /\ UNCHANGED <<commands, log, applied, disk, load, quiet, loose, counts>>

\* _CardCache.pop: if there is a file, it goes, and then the card.
Pop(n, m) ==
  /\ PassAt(n, "pop") /\ m \in pass[n].left
  /\ pass' = [pass EXCEPT ![n] = [pass[n] EXCEPT !.at = IF m \in disk[n] THEN "forget" ELSE "pop",
                                                 !.left = @ \ {m}, !.model = m]]
  /\ disk' = [disk EXCEPT ![n] = @ \ {m}]
  /\ UNCHANGED <<commands, log, applied, cards, load, quiet, loose, counts>>

\* A mutant: the file goes and the card stays.
Unforgotten(n) == cards

Forgotten(n) == [cards EXCEPT ![n][pass[n].model] = "none"]

Forget(n) ==
  /\ PassAt(n, "forget")
  /\ cards' = Forgotten(n)
  /\ loose' = [loose EXCEPT ![n] = @ \ {pass[n].model}]
  /\ pass' = [pass EXCEPT ![n].at = "pop"]
  /\ UNCHANGED <<commands, log, applied, disk, load, quiet, counts>>

EndPass(n) ==
  /\ PassAt(n, "pop") /\ pass[n].left = {}
  /\ pass' = [pass EXCEPT ![n] = Rest]
  /\ UNCHANGED <<commands, log, applied, cards, disk, load, quiet, loose, counts>>

-----------------------------------------------------------------------------
\* A new session starts with an empty State, and every worker anew, once it is out of a
\* thread of pop; caches and files stay.
Elect ==
  /\ \A n \in Followed : ~PassAt(n, "forget")
  /\ counts.faults < MaxFaults /\ Count("faults")
  /\ log' = <<>> /\ commands' = {} /\ quiet' = {}
  /\ applied' = [n \in Followed |-> 0]
  /\ pass' = [n \in Followed |-> Rest]
  /\ UNCHANGED <<cards, disk, load, loose>>

Restart(n) ==
  /\ counts.faults < MaxFaults /\ Count("faults")
  /\ applied' = [applied EXCEPT ![n] = 0]
  /\ cards' = [cards EXCEPT ![n] = [m \in Models |-> "none"]]
  /\ pass' = [pass EXCEPT ![n] = Rest]
  /\ load' = [load EXCEPT ![n] = NoLoad]
  /\ loose' = [loose EXCEPT ![n] = {}]
  /\ Disturb(n)
  /\ UNCHANGED <<commands, log, disk>>

MInit ==
  /\ commands = {} /\ log = <<>> /\ quiet = {}
  /\ applied = [n \in Followed |-> 0]
  /\ cards = [n \in Followed |-> [m \in Models |-> "none"]]
  /\ disk = [n \in Followed |-> {}]
  /\ pass = [n \in Followed |-> Rest]
  /\ load = [n \in Followed |-> NoLoad]
  /\ loose = [n \in Followed |-> {}]
  /\ counts = [commands |-> 0, loads |-> 0, faults |-> 0]

MNext ==
  \/ \E n \in Followed, m \in Models : AddCustomModel(n, m) \/ DeleteCustomModel(n, m)
  \/ \E m \in Models, op \in {"add", "delete"} : Elsewhere(op, m)
  \/ \E n \in Followed, m \in Models :
       \/ StartLoad(n, m) \/ ReadFile(n, m)
       \/ SaveCard(n, m) \/ Pop(n, m)
  \/ \E n \in Followed :
       \/ Apply(n) \/ KeepFile(n) \/ EndLoad(n)
       \/ StartPass(n) \/ WriteFile(n) \/ ListAll(n) \/ Forget(n) \/ EndPass(n)
       \/ Restart(n)
  \/ \E c \in commands : Index(c) \/ LoseCommand(c)
  \/ Elect

MSpec == MInit /\ [][MNext]_mvars

-----------------------------------------------------------------------------
Event == {"add", "delete"} \X Models

Pass ==
  {p \in [at : {"save", "write", "pop", "forget"}, target : SUBSET Models, left : SUBSET Models,
          model : Models \cup {"none"}] :
     p.at \in {"write", "forget"} => p.model \in Models}

Loading ==
  [at : {"scan", "read"}, model : Models, left : SUBSET Models, file : Models]

\* The type of every variable.
CardsTypeOK ==
  /\ commands \in SUBSET ({"add", "delete"} \X Models \X Nat)
  /\ log \in Seq(Event)
  /\ applied \in [Followed -> Nat] /\ \A n \in Followed : applied[n] <= Len(log)
  /\ cards \in [Followed -> [Models -> {"none", "builtin", "custom"}]]
  /\ disk \in [Followed -> SUBSET Models] /\ loose \in [Followed -> SUBSET Models]
  /\ pass \in [Followed -> Pass \cup {Rest}]
  /\ load \in [Followed -> Loading \cup {NoLoad}]
  /\ quiet \in SUBSET Followed
  /\ counts \in [commands : 0 .. MaxWishes, loads : 0 .. MaxLoads, faults : 0 .. MaxFaults]

\* After a pass of the loop that nothing disturbed, a node knows the custom models of
\* the State, and of others none but those whose card no file stands behind: a card that
\* was added here or whose saving failed, or that was read while its file was deleted.
\* Those stay until the process ends, since pop looks for the file first.
CardsReconciled ==
  \A n \in Followed : n \in quiet /\ pass[n] = Rest =>
    /\ \A m \in Target(n) : cards[n][m] = "custom"
    /\ \A m \in Models \ Target(n) : cards[n][m] = "custom" => m \in loose[n] /\ m \notin disk[n]
=============================================================================
