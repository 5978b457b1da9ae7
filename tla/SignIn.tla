-------------------------------- MODULE SignIn --------------------------------
(***************************************************************************)
(* FirebaseAuthGuard and UsersService.resolvePrincipal: from a token to an *)
(* account, through the cache or through the users table; with what        *)
(* Firebase, its tokens and the passing of time do around them.            *)
(***************************************************************************)
EXTENDS AccountState

\* Firebase issues tokens of the user's present kind; verification is local,
\* so a token outlives, by up to an hour, the user it was made for.
Live(u) == firebase[u] # "gone"
Token(u) == <<u, firebase[u] = "guest">>
Verifies(t) == t \in stale \/ (Live(t[1]) /\ t = Token(t[1]))

\* A sign-in is linked to a guest: the uid stays.
Link(u) ==
  /\ firebase[u] = "guest"
  /\ firebase' = [firebase EXCEPT ![u] = "linked"]
  /\ stale' = stale \union {Token(u)}
  /\ UNCHANGED <<tables, cache, bucket, worker, torn, seenAs>>

\* A month in which u sends nothing.  Nothing else lasts as long, no token, URL
\* or cache entry; until then a token may verify.
Month(u) ==
  /\ users[u] # None /\ users[u].seen
  /\ \A w \in Workers : worker[w] = Idle
  /\ users' = [users EXCEPT ![u].seen = FALSE]
  /\ stale' = {}
  /\ urls' = {}
  /\ cache' = [v \in Uids |-> None]
  /\ UNCHANGED <<firebase, lastSeq, files, lost, objects, crossed, worker, torn, seenAs>>

-----------------------------------------------------------------------------
\* wrong variant: a cached principal is good for any token of its uid.
CachedKindless(u, anonymous) == cache[u] # None

Cached(u, anonymous) == cache[u] # None /\ cache[u].anonymous = anonymous

Served(u, anonymous) ==
  IF ~anonymous THEN {"linked"} ELSE IF firebase[u] = "guest" THEN {} ELSE {"late"}

Seen(u, anonymous, also) ==
  seenAs' = [seenAs EXCEPT ![u] = @ \union Served(u, anonymous) \union also]

\* The sweep has u listed, or is erasing it.
SweepHas(u) ==
  \/ worker[Sweeper].victim = u
  \/ \E d \in worker[Sweeper].listed : d.uid = u

\* The guard of a request for op.  A cached principal may serve; it may also be
\* older than five minutes, or have been the oldest of a thousand.
Enter(w, op) ==
  \E u \in Uids, anonymous \in BOOLEAN :
    LET r == [Idle EXCEPT !.op = op, !.uid = u, !.anonymous = anonymous] IN
    /\ worker[w] = Idle
    /\ Verifies(<<u, anonymous>>)
    /\ \/ /\ Cached(u, anonymous)
          /\ Become(w, [r EXCEPT !.pc = "begin", !.id = cache[u].id])
          /\ Seen(u, anonymous, {})
       \/ /\ Become(w, [r EXCEPT !.pc = "upsert"])
          /\ UNCHANGED seenAs
    /\ UNCHANGED <<tokens, tables, cache, bucket>>

\* The row, made at first sight with its counter.
Upsert(w) ==
  LET r == worker[w]
      fresh == users[r.uid] = None
      id == IF fresh THEN Len(lastSeq) + 1 ELSE users[r.uid].id
  IN
  /\ r.pc = "upsert"
  /\ users' = [users EXCEPT ![r.uid] =
                 [id |-> id, anonymous |-> r.anonymous, seen |-> TRUE]]
  /\ lastSeq' = IF fresh THEN Append(lastSeq, 0) ELSE lastSeq
  /\ Become(w, [r EXCEPT !.pc = "remember", !.id = id])
  /\ Seen(r.uid, r.anonymous, IF SweepHas(r.uid) THEN {"back"} ELSE {})
  /\ UNCHANGED <<files, lost, tokens, cache, bucket>>

\* cachePrincipal, when the answer to the upsert arrives.
Remember(w) ==
  LET r == worker[w] IN
  /\ r.pc = "remember"
  /\ cache' = [cache EXCEPT ![r.uid] = [id |-> r.id, anonymous |-> r.anonymous]]
  /\ Goto(w, "begin")
  /\ UNCHANGED <<tokens, tables, bucket, seenAs>>

resolvePrincipal(w) == Upsert(w) \/ Remember(w)
=============================================================================
