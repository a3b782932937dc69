----------------------------- MODULE CacheAside -----------------------------
(***************************************************************************)
(* CacheAsideService over MemoryCache, 14_caching/cache_aside.go, for one  *)
(* key.  The database holds the version of the last write; Get and Set are *)
(* cut where they call the database or the cache.                          *)
(***************************************************************************)
EXTENDS Integers

CONSTANTS Reader, Writer,
          MaxVersion   \* bound: how many writes succeed

AsideParameters == Reader \cap Writer = {} /\ MaxVersion \in Nat

VARIABLES db,       \* version in the database
          item,     \* version in c.items[key], -1 if absent
          expired,  \* has its expiresAt passed?
          pc, read, \* where each goroutine is, and the version it read
          known     \* history: the newest version whose Set has returned

vars == <<db, item, expired, pc, read, known>>

Init ==
  /\ db = 0 /\ known = 0
  /\ item = -1 /\ expired = FALSE
  /\ pc = [g \in Reader \cup Writer |-> "idle"]
  /\ read = [g \in Reader \cup Writer |-> 0]

Goto(g, s) == pc' = [pc EXCEPT ![g] = s]

\* cache.Get misses on an absent or expired item.
CacheMiss == item = -1 \/ expired

\* Get: a hit returns at once (the caller sees the version),
GetHit(r) ==
  /\ pc[r] = "idle" /\ ~CacheMiss
  /\ read' = [read EXCEPT ![r] = item]
  /\ UNCHANGED <<db, item, expired, pc, known>>

\* a miss reads the database; a failed read returns and changes nothing,
GetFromDb(r) ==
  /\ pc[r] = "idle" /\ CacheMiss
  /\ read' = [read EXCEPT ![r] = db]
  /\ Goto(r, "populate")
  /\ UNCHANGED <<db, item, expired, known>>

\* and cache.Set writes what was read back to the cache.
Populate(r) ==
  /\ pc[r] = "populate"
  /\ item' = read[r] /\ expired' = FALSE
  /\ Goto(r, "idle")
  /\ UNCHANGED <<db, read, known>>

\* What dbSet leaves in the database.
Written == db + 1

\* Set: dbSet succeeds (when it fails nothing changes),
SetDb(w) ==
  /\ pc[w] = "idle" /\ db < MaxVersion
  /\ db' = Written
  /\ read' = [read EXCEPT ![w] = db + 1]
  /\ Goto(w, "invalidate")
  /\ UNCHANGED <<item, expired, known>>

\* then cache.Delete, and Set returns.
KeptInCache == item
AfterDelete == -1

Invalidate(w) ==
  /\ pc[w] = "invalidate"
  /\ item' = AfterDelete /\ expired' = FALSE
  /\ Goto(w, "idle")
  /\ known' = IF read[w] > known THEN read[w] ELSE known
  /\ UNCHANGED <<db, read>>

\* The ttl passes.
Expire ==
  /\ item # -1 /\ ~expired
  /\ expired' = TRUE
  /\ UNCHANGED <<db, item, pc, read, known>>

Next ==
  \/ \E r \in Reader : GetHit(r) \/ GetFromDb(r) \/ Populate(r)
  \/ \E w \in Writer : SetDb(w) \/ Invalidate(w)
  \/ Expire

Spec == Init /\ [][Next]_vars

\* Calls that began run on and time passes; nobody is obliged to call.
Fairness ==
  /\ WF_vars(Expire)
  /\ \A r \in Reader : WF_vars(Populate(r))
  /\ \A w \in Writer : WF_vars(Invalidate(w))

FairSpec == Spec /\ Fairness

-----------------------------------------------------------------------------
\* Every variable keeps its type, and nothing is newer than the database.
TypeOK ==
  /\ db \in 0..MaxVersion /\ known \in 0..db
  /\ item \in -1..db /\ expired \in BOOLEAN
  /\ pc \in [Reader \cup Writer -> {"idle", "populate", "invalidate"}]
  /\ read \in [Reader \cup Writer -> 0..db]

Stale == ~CacheMiss /\ item < known

\* The cache comes to serve a version older than one whose Set has returned in
\* one way only: a Get that read the database before that Set populates it.
StaleOnlyFromRacingGet ==
  [][~Stale /\ Stale' => \E r \in Reader : pc[r] = "populate" /\ pc'[r] = "idle"]_vars

\* What a race left behind is served until its ttl passes, and no longer.
StalenessEnds == Stale ~> ~Stale

=============================================================================
