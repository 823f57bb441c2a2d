------------------------------ MODULE Balancer ------------------------------
(***************************************************************************)
(* The load balancer of authfe/balance: consistent hashing with bounded    *)
(* loads over the endpoints of a service, and the wrapper that follows     *)
(* what service discovery says.  A key of the hash ring belongs to one     *)
(* endpoint: replicas whose hashes collide are left out.                   *)
(***************************************************************************)
EXTENDS Integers, FiniteSets, Functions, FiniteSetsExt

CONSTANTS Endpoints,       \* the addresses a service may have
          Replicas,        \* numbers of the replicas of an endpoint
          replicaHash(_, _), \* where replica i of an endpoint is on the ring
          HashSize,        \* hashes are 0 .. HashSize - 1
          LoadFactor       \* <<n, d>>: n / d, above 1

ASSUME HashesDiffer ==
    /\ HashSize \in Nat \ {0}
    /\ \A e, f \in Endpoints, i, j \in Replicas :
          /\ replicaHash(e, i) \in 0 .. HashSize - 1
          /\ replicaHash(e, i) = replicaHash(f, j) => e = f /\ i = j

ASSUME FactorAboveOne == LoadFactor[2] > 0 /\ LoadFactor[1] > LoadFactor[2]

(***************************************************************************)
(* endpoints: which endpoint a key of the ring belongs to; load: of an     *)
(* endpoint of the ring.                                                   *)
(***************************************************************************)
NewConsistent == [endpoints |-> <<>>, load |-> <<>>, totalLoad |-> 0, numEndpoints |-> 0]

isEmpty(c) == DOMAIN c.endpoints = {}

Hashes(S) == {replicaHash(e, i) : e \in S, i \in Replicas}

AddEndpoints(c, S) ==
    [c EXCEPT !.endpoints = [h \in DOMAIN @ \cup Hashes(S) |->
                                IF h \in Hashes(S) THEN CHOOSE e \in S : h \in Hashes({e}) ELSE @[h]],
              !.load = [e \in DOMAIN @ \cup S |-> IF e \in S THEN 0 ELSE @[e]],
              !.numEndpoints = @ + Cardinality(S)]

\* An endpoint that is not on the ring is passed over.
RemoveEndpoints(c, S) ==
    LET Gone == S \cap DOMAIN c.load
    IN  [c EXCEPT !.endpoints = Restrict(@, DOMAIN @ \ Hashes(Gone)),
                  !.load = Restrict(@, DOMAIN @ \ Gone),
                  !.totalLoad = @ - MapThenSumSet(LAMBDA e : c.load[e], Gone),
                  !.numEndpoints = @ - Cardinality(Gone)]

\* Mutant: the request that comes is not counted in the total.
loadOKWithoutIncoming(totalLoad, numEndpoints, endpointLoad) ==
    endpointLoad + 1 <= -((-(LoadFactor[1] * totalLoad)) \div (LoadFactor[2] * numEndpoints))

\* endpointLoad + 1 <= Ceil(factor * averageLoad), the incoming request counted.
loadOK(totalLoad, numEndpoints, endpointLoad) ==
    endpointLoad + 1 <= -((-(LoadFactor[1] * (totalLoad + 1))) \div (LoadFactor[2] * numEndpoints))

Accepting(c) ==
    {h \in DOMAIN c.endpoints : loadOK(c.totalLoad, c.numEndpoints, c.load[c.endpoints[h]])}

\* Mutant: the hash picks a key by its number.
FromByIndex(hash, S) ==
    CHOOSE h \in S : Cardinality({k \in S : k < h}) = hash % Cardinality(S)

\* Of the keys in S, the first at or after hash, round the ring.
From(hash, S) ==
    CHOOSE h \in S : \A k \in S : (h - hash) % HashSize <= (k - hash) % HashSize

\* The endpoint of a key when loads do not matter.
Home(c, hash) == c.endpoints[From(hash, DOMAIN c.endpoints)]

\* Get goes round the ring until it meets an endpoint that accepts; it holds the lock, and
\* goes round for ever when none does.
GetReturns(c) == Accepting(c) # {}

GetEndpoint(c, hash) == c.endpoints[From(hash, Accepting(c))]

Taken(c, e) == [c EXCEPT !.load[e] = @ + 1, !.totalLoad = @ + 1]

\* What is not, or no longer, on the ring is left alone.
Put(c, e) ==
    IF e \notin DOMAIN c.load THEN c
    ELSE [c EXCEPT !.load[e] = @ - 1, !.totalLoad = @ - 1]
=============================================================================
