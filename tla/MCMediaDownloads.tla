-------------------------- MODULE MCMediaDownloads --------------------------
(* Links of MediaDownloads for TLC: the ids of l1 and l2 are not found, the  *)
(* id of l3 starts as the name they get instead, and l4 has an id like none. *)
EXTENDS MediaDownloads

CONSTANTS l1, l2, l3, l4

\* The longer the chain of a platform, the fewer links it gets: Instagram two
\* downloads of one post, Pinterest two pins.
MCLinksOf == [p \in Platforms |->
  CASE p = "instagram" -> {l4}
    [] p = "pinterest" -> {l1, l4}
    [] p = "tiktok"    -> {l1, l2, l4}
    [] OTHER           -> {l1, l2, l3}]

Names == {"item", "item_1", "post"}

MCSlotOf == [l \in {l1, l2, l3, l4} |->
  CASE l = l3 -> "item_1" [] l = l4 -> "post" [] OTHER -> "item"]

MCShowsOf == [l \in {l1, l2, l3, l4} |->
  CASE l = l1 -> "m1" [] l = l2 -> "m2" [] l = l3 -> "m3" [] OTHER -> "m4"]

MCSlotsUnder == [s \in Names \cap Slots |->
  (IF s = "item" THEN {"item", "item_1"} ELSE {s}) \cap Slots]

\* One download at a time where the chain is long, two elsewhere.
MCPermits == [p \in Platforms |-> IF p \in {"instagram", "pinterest", "vk"} THEN 1 ELSE 2]
=============================================================================
