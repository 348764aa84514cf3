-------------------------- MODULE MCImageInventory --------------------------
(* An instance of ImageInventory for TLC. *)
EXTENDS ImageInventory

CONSTANTS a, b, t, u, k, l, w, x, r1, r2, c1, c2

MCTypes == {"v2", "dockerhub", "ghcr"}

\* GHCR's test passes with any credentials.
MCWorking == {<<"v2", k>>, <<"dockerhub", k>>, <<"ghcr", k>>, <<"ghcr", l>>}

Some == [type : MCTypes, credentials : {k}, url : {w}]

Bounds(refs, confs, replicas, kinds, c, r, f) ==
    [refs |-> refs, confs |-> confs, replicas |-> replicas, kinds |-> kinds,
     changes |-> c, requests |-> r, faults |-> f]

\* Two repositories, or two tags of one.
Spread == {<<a, t>>, <<b, t>>}
Tagged == {<<a, t>>, <<a, u>>}

MCScenes ==
    { Bounds(Spread, Some, {r1, r2}, {}, 1, 0, 0),               \* syncs that overlap
      Bounds(Spread, Some, {r1}, {}, 2, 0, 1),                   \* lists that fail
      Bounds(Tagged, Some, {r1}, {}, 2, 0, 1),
      Bounds(Tagged, Some, {r1}, {"upsert", "image"}, 1, 1, 1),  \* inserts during a sync
      Bounds(Spread, Some, {r1}, {"upsert", "image"}, 0, 2, 0),
      Bounds(Spread, Some, {r1}, {"sync", "registry"}, 0, 1, 1),
      Bounds(Tagged, Some, {}, {"sync", "upsert"}, 1, 2, 0),
      Bounds(Spread, Some, {}, {"sync", "registry"}, 0, 2, 0),
      Bounds(Tagged, Some, {}, {"upsert", "target", "image"}, 0, 4, 1),
      Bounds({}, Row, {}, {"edit", "registry"}, 0, 3, 1) }       \* updates that overlap
=============================================================================
