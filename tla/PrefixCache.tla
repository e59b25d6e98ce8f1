----------------------------- MODULE PrefixCache -----------------------------
(***************************************************************************)
(* The prompts that an engine remembers: KVPrefixCache (engines/mlx/cache.py) *)
(* with its users, mlx_generate and ExoBatchGenerator.submit, and the      *)
(* prefill of a prompt on another instance (engines/mlx/disaggregated).    *)
(*                                                                         *)
(* A token is <<what, image>>, image the hash of the picture that it is    *)
(* part of, or None.  A cache is what its layers have absorbed: kv those   *)
(* that can be trimmed, ssm those that can only be set back to a snapshot  *)
(* (ArraysCache, RotatingKVCache), which only "hybrid" models have.        *)
(* Requests are prefilled one after the other, in one thread.              *)
(***************************************************************************)
EXTENDS Integers, Sequences, FiniteSets, SequencesExt, FiniteSetsExt

CONSTANTS
  Prompts,      \* the prompts of requests
  StepSize,     \* prefill_step_size (4096)
  MinHit,       \* the shortest hit that replaces what it hit (1000)
  RemoteMin,    \* REMOTE_PREFILL_MIN_TOKENS (1000)
  MaxRequests   \* bound: requests

VARIABLES
  model,     \* "kv" or "hybrid"
  linked,    \* whether requests come with a prefill_endpoint
  entries,   \* the prefix cache: prompts, caches, _snapshots, _last_used
  serving,   \* the one of the prefill server
  clock,     \* _access_counter
  job,       \* the request that is being prefilled
  count,     \* requests so far
  begun,     \* what the last request began to decode with
  spliced    \* whether a remote prefill has continued a prefix that was there

cvars == <<model, linked, entries, serving, clock, job, count, begun, spliced>>

None == "none"

PrefixCacheAssumption ==
  /\ StepSize \in Nat \ {0} /\ MinHit \in Nat /\ RemoteMin \in Nat /\ MaxRequests \in Nat
  /\ \A p \in Prompts : Len(p) >= 1

\* A token that the model makes up while its cache is being filled.
Extra == <<"extra", None>>

Hybrid == model = "hybrid"

FreshCache == [kv |-> <<>>, ssm |-> <<>>]

Feed(c, tokens) ==
  [kv |-> c.kv \o tokens, ssm |-> IF Hybrid THEN c.ssm \o tokens ELSE <<>>]

\* snapshot_ssm_states.
Snapshot(c) == [count |-> Len(c.kv), ssm |-> c.ssm]

First(s, n) == SubSeq(s, 1, n)

From(s, n) == SubSeq(s, n + 1, Len(s))

-----------------------------------------------------------------------------
\* Looking up a prompt.

PrefixLength(p, q) ==
  Max({n \in 0 .. Min({Len(p), Len(q)}) : \A i \in 1 .. n : p[i][1] = q[i][1]})

\* _find_media_regions: where the pictures of a prompt begin.
Regions(p) == {i \in DOMAIN p : p[i][2] # None /\ (i = 1 \/ p[i - 1][2] = None)}

\* A match ends before the first picture that is another one.
ValidateMediaMatch(length, cached, p) ==
  LET others == {i \in Regions(cached) : i <= length /\ i \in Regions(p) /\ cached[i][2] # p[i][2]}
  IN  IF others = {} THEN length ELSE Min(others) - 1

Matches(es, p) ==
  [i \in DOMAIN es |-> ValidateMediaMatch(PrefixLength(p, es[i].prompt), es[i].prompt, p)]

\* The first entry that has all but the last token, or else the first of the longest.
BestIndex(es, p) ==
  LET lengths == Matches(es, p)
      exact == {i \in DOMAIN es : lengths[i] >= Len(p) - 1}
      longest == {i \in DOMAIN es : lengths[i] > 0 /\ \A j \in DOMAIN es : lengths[j] <= lengths[i]}
  IN  IF exact # {} THEN Min(exact) ELSE IF longest # {} THEN Min(longest) ELSE 0

\* _find_nearest_snapshot; 0 if there is none.
NearestSnapshot(snaps, target) ==
  LET before == {i \in DOMAIN snaps : snaps[i].count <= target}
  IN  IF before = {} THEN 0
      ELSE Min({i \in before : \A j \in before : snaps[j].count <= snaps[i].count})

\* trim_cache: the trimmable layers are cut, the others get the state of the snapshot.
TrimCache(c, length, snap) ==
  IF length >= Len(c.kv) THEN c
  ELSE [kv |-> First(c.kv, length), ssm |-> IF Hybrid THEN snap.ssm ELSE <<>>]

Miss(p) == [cache |-> FreshCache, left |-> p, hit |-> 0, index |-> 0]

GetKvCache(es, p) ==
  LET i == BestIndex(es, p)
      length == Matches(es, p)[i]
      cached == Len(es[i].cache.kv)
      desired == IF length >= Len(p) - 1 THEN Len(p) - 1 ELSE length
      target == IF Hybrid THEN length ELSE Min({cached, desired})
      s == NearestSnapshot(es[i].snaps, target)
      restored == IF Hybrid THEN es[i].snaps[s].count ELSE target
      snap == IF Hybrid THEN es[i].snaps[s] ELSE Snapshot(FreshCache)
  IN  IF i = 0 \/ (Hybrid /\ s = 0) THEN Miss(p)
      ELSE [cache |-> TrimCache(es[i].cache, restored, snap), left |-> From(p, restored),
            hit |-> restored, index |-> i]

Touched(es, i) == IF i = 0 THEN es ELSE [es EXCEPT ![i].used = clock + 1]

-----------------------------------------------------------------------------
\* Keeping a prompt.

\* _evict_if_needed: the memory decides how many of the least recently used go.
Evicted(es, n) == SelectSeq(es, LAMBDA e : Cardinality({j \in DOMAIN es : es[j].used < e.used}) >= n)

Entry(p, c, snaps, now) == [prompt |-> p, cache |-> c, snaps |-> snaps, used |-> now]

\* A mutant: snapshots of what the entry was about before are kept.
MergedAll(old, snaps, hit) == old \o snaps

\* update_kv_cache: of the old snapshots those stay that both prompts share.
Merged(old, snaps, hit) == SelectSeq(old, LAMBDA s : s.count <= hit) \o snaps

\* update_kv_cache and add_kv_cache; lost is the number of entries evicted.
Kept(es, g, p, c, snaps, min, lost, now) ==
  IF g.index # 0 /\ g.hit >= min /\ 2 * g.hit >= Len(p)
  THEN [es EXCEPT ![g.index] = Entry(p, c, Merged(es[g.index].snaps, snaps, g.hit), now)]
  ELSE Append(Evicted(es, lost), Entry(p, c, snaps, now))

Saved(es, lost) ==
  IF ~job.cached THEN es
  ELSE Kept(es, job, job.prompt, job.cache, job.snaps, MinHit, lost, clock + 1)

-----------------------------------------------------------------------------
\* A request: mlx_generate, ExoBatchGenerator.submit.

NoJob == [pc |-> None]

\* Benchmarks may ask not to use the cache.
Request(p, cached) ==
  /\ job = NoJob /\ count < MaxRequests
  /\ LET g == IF cached THEN GetKvCache(entries, p) ELSE Miss(p) IN
       /\ entries' = Touched(entries, g.index)
       /\ job' = [pc |-> IF linked /\ Len(g.left) > RemoteMin THEN "remote" ELSE "local",
                  prompt |-> p, cached |-> cached, cache |-> g.cache, left |-> g.left,
                  hit |-> g.hit, index |-> g.index, fed |-> 0, snaps |-> <<>>, remote |-> FALSE]
  /\ clock' = clock + 1
  /\ count' = count + 1 /\ begun' = NoJob
  /\ UNCHANGED <<model, linked, serving, spliced>>

\* The tokens that prefill is given: all that are left but the last.
ToFill == Len(job.left) - 1

Snaps(c) == IF Hybrid THEN <<Snapshot(c)>> ELSE <<>>

\* prefill returns at once, or calls back before the first chunk.
StartPrefill ==
  /\ job.pc = "local"
  /\ job' = IF ToFill <= 0 THEN [job EXCEPT !.pc = "filled"]
            ELSE [job EXCEPT !.pc = "chunks", !.snaps = Snaps(job.cache)]
  /\ UNCHANGED <<model, linked, entries, serving, clock, count, begun, spliced>>

\* One chunk of prefill or pipeline_parallel_prefill, and its callback.
Chunk ==
  /\ job.pc = "chunks" /\ job.fed < ToFill - 1
  /\ LET n == Min({StepSize, ToFill - 1 - job.fed})
         c == Feed(job.cache, SubSeq(job.left, job.fed + 1, job.fed + n)) IN
       job' = [job EXCEPT !.cache = c, !.fed = @ + n, !.snaps = @ \o Snaps(c)]
  /\ UNCHANGED <<model, linked, entries, serving, clock, count, begun, spliced>>

\* The token that was made up and the one before it are taken back.
RollBack(c, snaps) ==
  [kv |-> First(c.kv, Len(c.kv) - 2), ssm |-> IF Hybrid THEN snaps[Len(snaps) - 1].ssm ELSE <<>>]

\* The last token, and one that the model makes up.
LastToken ==
  /\ job.pc = "chunks" /\ job.fed = ToFill - 1
  /\ LET c == Feed(job.cache, <<job.left[ToFill], Extra>>)
         snaps == job.snaps \o Snaps(c) IN
       job' = [job EXCEPT !.pc = "filled", !.cache = RollBack(c, snaps),
                          !.snaps = IF Hybrid THEN Front(snaps) ELSE <<>>]
  /\ UNCHANGED <<model, linked, entries, serving, clock, count, begun, spliced>>

\* PrefillCancelled, raised by a callback: nothing is kept.
PrefillCancelled ==
  /\ job.pc = "chunks"
  /\ job' = NoJob
  /\ UNCHANGED <<model, linked, entries, serving, clock, count, begun, spliced>>

\* The prompt is kept, and decoding goes on with the last two tokens.
Begin(lost) ==
  /\ job.pc = "filled" /\ lost \in 0 .. Len(entries)
  /\ entries' = Saved(entries, lost)
  /\ clock' = clock + 1
  /\ begun' = [prompt |-> job.prompt, left |-> job.left, remote |-> job.remote,
               cache |-> Feed(job.cache, From(job.left, Max({0, Len(job.left) - 2})))]
  /\ job' = NoJob
  /\ UNCHANGED <<model, linked, serving, count, spliced>>

-----------------------------------------------------------------------------
\* Prefilling somewhere else.

\* The server gets tokens, no pictures: those left but the last.
Asked == [i \in 1 .. ToFill |-> <<job.left[i][1], None>>]

\* What prefill makes of a cache, in one step.
Prefilled(c, tokens) == IF tokens = <<>> THEN c ELSE Feed(c, Front(tokens))

\* run_prefill_for_request: the cache that the server has at the end.
RunPrefill(g) == Prefilled(g.cache, First(g.left, Max({0, ToFill - 2 - g.hit})))

Serve(g) ==
  LET c == RunPrefill(g) IN
  /\ serving' = Kept(Touched(serving, g.index), g, Asked, c, <<Snapshot(c)>>, 0, 0, clock + 2)
  /\ clock' = clock + 2

\* send_mlx_kv_cache and ingest_into_mlx_cache: what the server has behind start_pos is
\* put behind the start_pos tokens that are here.
Ingested(c) ==
  [kv |-> IF Len(c.kv) <= job.hit THEN job.cache.kv ELSE First(job.cache.kv, job.hit) \o From(c.kv, job.hit),
   ssm |-> c.ssm]

RemotePrefill ==
  /\ job.pc = "remote"
  /\ LET g == GetKvCache(serving, Asked) IN
       /\ Serve(g)
       /\ job' = [job EXCEPT !.pc = "filled", !.remote = TRUE, !.cache = Ingested(RunPrefill(g)),
                             !.snaps = <<Snapshot(Ingested(RunPrefill(g)))>>]
  /\ spliced' = (spliced \/ job.hit > 0)
  /\ UNCHANGED <<model, linked, entries, count, begun>>

\* The stream ends behind its header, without Done: it counts as complete.
RemoteCutOff ==
  /\ job.pc = "remote"
  /\ job' = [job EXCEPT !.pc = "filled", !.remote = TRUE, !.snaps = <<Snapshot(job.cache)>>]
  /\ UNCHANGED <<model, linked, entries, serving, clock, count, begun, spliced>>

\* No connection, or an error: the prompt is prefilled here.  A request that was not
\* picked up within three seconds stays in the server's queue and is prefilled later.
RemoteFails ==
  /\ job.pc = "remote"
  /\ job' = [job EXCEPT !.pc = "local"]
  /\ \/ UNCHANGED <<serving, clock>>
     \/ Serve(GetKvCache(serving, Asked))
  /\ UNCHANGED <<model, linked, entries, count, begun, spliced>>

-----------------------------------------------------------------------------
CInit ==
  /\ model \in {"kv", "hybrid"} /\ linked \in BOOLEAN
  /\ entries = <<>> /\ serving = <<>> /\ clock = 0 /\ count = 0
  /\ job = NoJob
  /\ begun = NoJob
  /\ spliced = FALSE

CNext ==
  \/ \E p \in Prompts, cached \in BOOLEAN : Request(p, cached)
  \/ StartPrefill \/ Chunk \/ LastToken \/ PrefillCancelled
  \/ \E lost \in 0 .. MaxRequests : Begin(lost)
  \/ RemotePrefill \/ RemoteCutOff \/ RemoteFails

CSpec == CInit /\ [][CNext]_cvars

-----------------------------------------------------------------------------
\* The same token of the same picture, or of one that the prefill server did not get.
Alike(a, b) == a[1] = b[1] /\ (a[2] = b[2] \/ None \in {a[2], b[2]})

Begins(s, p) == Len(s) <= Len(p) /\ \A i \in DOMAIN s : Alike(s[i], p[i])

\* What is remembered under a prompt is the beginning of that prompt, in every layer
\* and in every snapshot, after any sequence of hits, replacements and evictions
\* (update_kv_cache, add_kv_cache).  A remote prefill that goes on from a prefix is the
\* exception: the server is sent the rest of the prompt as if it were all of it.
EntriesAreTrue ==
  ~spliced => \A e \in ToSet(entries) \cup ToSet(serving) :
    /\ Begins(e.cache.kv, e.prompt) /\ Begins(e.cache.ssm, e.prompt)
    /\ \A s \in ToSet(e.snaps) : Begins(s.ssm, e.prompt) /\ (Hybrid => Len(s.ssm) = s.count)

\* A prompt that was prefilled here is decoded from its cache and its last tokens,
\* which together are the prompt, each token once, whatever was found in the cache
\* (get_kv_cache, prefill).  A hybrid model that finds a snapshot of the whole prompt
\* is the exception: it has no token to begin with.
PromptIsWhole ==
  begun # NoJob /\ ~begun.remote /\ ~spliced /\ begun.left # <<>> =>
    /\ Len(begun.cache.kv) = Len(begun.prompt) /\ Begins(begun.cache.kv, begun.prompt)
    /\ Hybrid => begun.cache.ssm = begun.cache.kv
=============================================================================
