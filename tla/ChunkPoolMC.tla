----------------------------- MODULE ChunkPoolMC -----------------------------
(***************************************************************************)
(* ChunkPool with numbered players and buckets.                            *)
(*                                                                         *)
(* All buckets are alike, so a state is told from another by the shape it  *)
(* gives the places that keep a bucket: which of them keep the same one,   *)
(* with what count.  TLC compares states by this shape (VIEW) and, as any  *)
(* free bucket leads to the same shape, takes the lowest.                  *)
(***************************************************************************)
EXTENDS ChunkPool

Lowest(S, T) == T \subseteq S /\ \A t \in T, s \in S : s < t => s \in T

RECURSIVE Joined(_)
Joined(ss) == IF ss = <<>> THEN <<>> ELSE Head(ss) \o Joined(Tail(ss))

Chains == <<IF current_chunk = None THEN <<>> ELSE <<current_chunk>>, chain,
            Chain("metadata"), Chain("video_sh"), Chain("audio_sh"), Chain("gop")>>
          \o [p \in 1..Cardinality(Player) |-> headers[p]]
          \o [p \in 1..Cardinality(Player) |-> writes[p]]

Shape ==
  LET kept == Joined(Chains) IN
  <<[i \in DOMAIN kept |-> <<CHOOSE j \in DOMAIN kept :
                               kept[j] = kept[i] /\ \A h \in 1..(j - 1) : kept[h] # kept[i],
                             ref_count[kept[i]], kept[i] \in g_queue>>],
    [i \in DOMAIN Chains |-> Len(Chains[i])],
    {k \in Cached : key_cache[k] = None},
    Cardinality(g_queue), g_add_pool_count,
    {ref_count[b] : b \in (1..g_bucket_id) \ Elements(kept)},
    merging, publishing, consumer>>
=============================================================================
