------------------------------- MODULE TagLog -------------------------------
(***************************************************************************)
(* What RecordTag and RecordMultiTags promise: the tags of a job are a log *)
(* that is only appended to, one call's tags for one job at a time, and a  *)
(* call is acknowledged when all its tags are there.                       *)
(***************************************************************************)
EXTENDS Naturals, Sequences

CONSTANTS Job, Request

VARIABLES log,    \* the tags of every job, oldest first
          acked   \* the calls answered OK

Init == log = [j \in Job |-> <<>>] /\ acked = {}

Recorded(item) == \E n \in 0..(Len(log[item.job]) - Len(item.tags)) :
  SubSeq(log[item.job], n + 1, n + Len(item.tags)) = item.tags

Append1(item) ==
  /\ log' = [log EXCEPT ![item.job] = @ \o item.tags]
  /\ UNCHANGED acked

Acknowledge(r) ==
  /\ \A k \in DOMAIN r : Recorded(r[k])
  /\ acked' = acked \cup {r}
  /\ UNCHANGED log

Next == \E r \in Request : Acknowledge(r) \/ \E k \in DOMAIN r : Append1(r[k])

Spec == Init /\ [][Next]_<<log, acked>>
=============================================================================
