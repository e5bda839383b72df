--------------------------- MODULE PublishedBronze ---------------------------
(***************************************************************************)
(* What the ingestion of one source schema promises its readers.  A reader *)
(* sees one partition per entity and interval, or none yet.  Partitions    *)
(* appear whole and never change, and an entity's watermark only moves     *)
(* together with a partition, to the stamp of a row in it.                 *)
(***************************************************************************)
CONSTANTS Entities, Days, NONE

VARIABLES
  published,   \* [entity, day]: the row versions readable there, NONE before
  mark         \* [entity]: the watermark the next window starts below

Slots == Entities \X Days

Init ==
  /\ published = [s \in Slots |-> NONE]
  /\ mark = [e \in Entities |-> NONE]

(* One run makes the partitions of some entities of its day readable. *)
Publish(d, es) ==
  /\ \A e \in es : published[<<e, d>>] = NONE /\ published'[<<e, d>>] # NONE
  /\ published' = [s \in Slots |->
       IF s[1] \in es /\ s[2] = d THEN published'[s] ELSE published[s]]
  /\ mark' = [e \in Entities |-> IF e \in es THEN mark'[e] ELSE mark[e]]
  /\ \A e \in es : mark'[e] = mark[e] \/ \E v \in published'[<<e, d>>] : mark'[e] = v[2]

Next == \E d \in Days, es \in SUBSET Entities : Publish(d, es)

Spec == Init /\ [][Next]_<<published, mark>>
=============================================================================
