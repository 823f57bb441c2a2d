--------------------------- MODULE CachingClient ---------------------------
(***************************************************************************)
(* The front end's client of the users service (users/client/cache.go):    *)
(* answers are kept in caches of bounded size that drop the entry used     *)
(* longest ago, and for a bounded time.  A cache is a sequence of entries, *)
(* the one used last first (github.com/bluele/gcache, external).           *)
(***************************************************************************)
EXTENDS LookupServer, Sequences, SequencesExt

CONSTANTS CacheSize, CacheExpiration

Entries(cache, in) == SelectSeq(cache, LAMBDA e : e.in = in)

Others(cache, in) == SelectSeq(cache, LAMBDA e : e.in # in)

\* Mutant: an entry is good while it is there.
HitUnexpired(cache, in, now) == Entries(cache, in) # <<>>

\* An entry is good up to and including the time it expires.
Hit(cache, in, now) == Entries(cache, in) # <<>> /\ now <= Head(Entries(cache, in)).expires

\* After Get: an entry found is the one used last, one that expired is gone.
Touched(cache, in, now) ==
    IF Hit(cache, in, now) THEN Entries(cache, in) \o Others(cache, in) ELSE Others(cache, in)

isErrorCachable(code) == code \in {401, 402}

\* Set: the new entry is the one used last; the last one goes when there are too many.
Store(cache, in, out, now) ==
    IF out.code # 200 /\ ~isErrorCachable(out.code) THEN cache
    ELSE SubSeq(<<[in |-> in, out |-> out, expires |-> now + CacheExpiration]>>
                    \o Others(cache, in), 1, Min({CacheSize, Len(Others(cache, in)) + 1}))
=============================================================================
