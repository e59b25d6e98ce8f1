--------------------------------- MODULE Links ---------------------------------
(***************************************************************************)
(* Disaggregated prefill as the master sees it: links that say which       *)
(* instances prefill for which, made and changed through the API, and the  *)
(* instance and the prefill endpoint that a text generation gets           *)
(* (master/main.py, shared/apply.py).                                      *)
(*                                                                         *)
(* A command is decided on the State that the master has, and its events   *)
(* change the State only when they come back, in order.                    *)
(***************************************************************************)
EXTENDS Integers, Sequences, FiniteSets

CONSTANTS
  Instances,    \* instance ids
  LinkIds,
  Model,        \* the model of each instance
  MaxCommands,  \* bound: commands
  MaxUnderway     \* bound: events on their way

VARIABLES
  instances,  \* State.instances
  born,       \* the instances there have been: an id is not given twice
  links,      \* State.instance_links, with whether they were sound when they came
  ports,      \* State.prefill_server_ports, by instance
  tasks,      \* State.tasks: unfinished ones, by instance
  underway,   \* events on their way back to the master
  issued      \* commands so far

lvars == <<instances, born, links, ports, tasks, underway, issued>>

ASSUME LinksAssumption ==
  Instances \subseteq DOMAIN Model /\ MaxCommands \in Nat /\ MaxUnderway \in Nat \ {0}

NoLink == [prefill |-> {}, decode |-> {}, sound |-> TRUE]

Order(event) ==
  /\ issued < MaxCommands /\ Len(underway) < MaxUnderway
  /\ issued' = issued + 1
  /\ underway' = Append(underway, event)
  /\ UNCHANGED <<instances, links, ports, tasks>>

Command(event) == Order(event) /\ UNCHANGED born

-----------------------------------------------------------------------------
\* Commands.

CreateInstance(i) == i \notin born /\ born' = born \cup {i} /\ Order(<<"created", i>>)

\* delete_instance raises an error for an instance that the State does not have.
DeleteInstance(i) == i \in instances /\ Command(<<"deleted", i>>)

\* Nobody looks whether the instances are there, or of one model, or any at all.
SetInstanceLink(l, prefill, decode) ==
  Command(<<"link", l, [prefill |-> prefill, decode |-> decode, sound |-> TRUE]>>)

DeleteInstanceLink(l) == Command(<<"unlink", l>>)

\* Instances that prefill for others and never decode for any.
PrefillOnly ==
  (UNION {links[l].prefill : l \in LinkIds}) \ (UNION {links[l].decode : l \in LinkIds})

Available(m) == {i \in instances : Model[i] = m} \ PrefillOnly

LeastBusy(is) == {i \in is : \A j \in is : tasks[i] <= tasks[j]}

\* _prefill_endpoint_for: of the instances linked to it, the least busy that has a port.
PrefillEndpoints(i) ==
  LET sources == (UNION {links[l].prefill : l \in {k \in LinkIds : i \in links[k].decode}}) \ {i}
  IN  LeastBusy({s \in sources \cap instances : s \in ports})

TextGeneration(m) ==
  \E i \in LeastBusy(Available(m)) :
    \/ \E s \in PrefillEndpoints(i) : Command(<<"task", i, s>>)
    \/ PrefillEndpoints(i) = {} /\ Command(<<"task", i, i>>)

\* A runner reports its prefill server, or that it has shut down.
ServePrefill(i) == i \in instances \ ports /\ Command(<<"serving", i>>)

StopServing(i) == i \in ports /\ Command(<<"stopped", i>>)

-----------------------------------------------------------------------------
\* apply.

\* A mutant: a link stays when it has no instance left to decode.
PrunedOfSource(link, i) ==
  LET rest == [link EXCEPT !.prefill = @ \ {i}, !.decode = @ \ {i}] IN
  IF rest.prefill = {} THEN NoLink ELSE rest

Pruned(link, i) ==
  LET rest == [link EXCEPT !.prefill = @ \ {i}, !.decode = @ \ {i}] IN
  IF rest.prefill = {} \/ rest.decode = {} THEN NoLink ELSE rest

ApplyInstanceDeleted(i) ==
  /\ instances' = instances \ {i}
  /\ links' = [l \in LinkIds |-> Pruned(links[l], i)]
  /\ UNCHANGED <<ports, tasks>>

\* A link between instances of one model that are there.
Sound(link) ==
  /\ link.prefill # {} /\ link.decode # {}
  /\ link.prefill \cup link.decode \subseteq instances
  /\ \A i, j \in link.prefill \cup link.decode : Model[i] = Model[j]

ApplyLink(l, link) ==
  /\ links' = [links EXCEPT ![l] = [link EXCEPT !.sound = Sound(link)]]
  /\ UNCHANGED <<instances, ports, tasks>>

EventApply ==
  /\ underway # <<>> /\ underway' = Tail(underway)
  /\ LET e == Head(underway) IN
       \/ /\ e[1] = "created" /\ instances' = instances \cup {e[2]}
          /\ UNCHANGED <<links, ports, tasks>>
       \/ e[1] = "deleted" /\ ApplyInstanceDeleted(e[2])
       \/ e[1] = "link" /\ ApplyLink(e[2], e[3])
       \/ /\ e[1] = "unlink" /\ links' = [links EXCEPT ![e[2]] = NoLink]
          /\ UNCHANGED <<instances, ports, tasks>>
       \/ /\ e[1] = "task" /\ tasks' = [tasks EXCEPT ![e[2]] = @ + 1]
          /\ UNCHANGED <<instances, links, ports>>
       \/ /\ e[1] = "serving" /\ ports' = ports \cup {e[2]}
          /\ UNCHANGED <<instances, links, tasks>>
       \/ /\ e[1] = "stopped" /\ ports' = ports \ {e[2]}
          /\ UNCHANGED <<instances, links, tasks>>
  /\ UNCHANGED <<born, issued>>

LInit ==
  /\ instances \in {Instances, {}} /\ born = instances
  /\ links = [l \in LinkIds |-> NoLink]
  /\ ports = {} /\ underway = <<>> /\ issued = 0
  /\ tasks = [i \in Instances |-> 0]

LNext ==
  \/ \E i \in Instances :
       CreateInstance(i) \/ DeleteInstance(i) \/ ServePrefill(i) \/ StopServing(i)
  \/ \E l \in LinkIds, prefill, decode \in SUBSET Instances :
       SetInstanceLink(l, prefill, decode)
  \/ \E l \in LinkIds : DeleteInstanceLink(l)
  \/ \E m \in {Model[i] : i \in Instances} : TextGeneration(m)
  \/ EventApply

LSpec == LInit /\ [][LNext]_lvars

-----------------------------------------------------------------------------
Link == [prefill : SUBSET Instances, decode : SUBSET Instances, sound : BOOLEAN]

Events ==
  {"created", "deleted", "serving", "stopped"} \X Instances
    \cup {<<"link", l, k>> : l \in LinkIds, k \in Link}
    \cup {"unlink"} \X LinkIds
    \cup {"task"} \X Instances \X Instances

\* The type of every variable.
LinksTypeOK ==
  /\ instances \in SUBSET Instances /\ born \in SUBSET Instances
  /\ links \in [LinkIds -> Link]
  /\ ports \in SUBSET Instances
  /\ tasks \in [Instances -> Nat]
  /\ underway \in Seq(Events) /\ Len(underway) <= MaxUnderway
  /\ issued \in 0 .. MaxCommands

\* A model that has an instance can be used: whatever sound links were made, changed
\* and deleted, and whichever of the instances have gone since, some instance of the
\* model is left to decode (apply_instance_deleted drops a link that has lost one of its
\* sides).  A link whose command was under way when an instance was
\* deleted is one exception: it names what is gone, and keeps its sources from decoding.
ModelsStayUsable ==
  (\A l \in LinkIds : links[l].sound) =>
    \A i \in instances : Available(Model[i]) # {}
=============================================================================
