------------------------------- MODULE MCFeed -------------------------------
(***************************************************************************)
(* Three scenes for TLC.  Telling: every kind of announcement that         *)
(* concerns the reader, and the ones that come close, while the reader     *)
(* comes and goes.  Scrolling: a walk through the list while rows arrive   *)
(* and are deleted.  Ageing: rows are read or not, grow old, and are       *)
(* purged, which walks through the list meet as well.                      *)
(***************************************************************************)
EXTENDS Feed

AllAsks ==
  { [kind |-> "own"], [kind |-> "expense"], [kind |-> "event"], [kind |-> "join"],
    [kind |-> "deletion", cents |-> 1999], [kind |-> "deletion", cents |-> 2000],
    [kind |-> "settlement", to |-> "reader"], [kind |-> "settlement", to |-> "third"],
    [kind |-> "task", assignees |-> {"reader", "third"}], [kind |-> "task", assignees |-> {}] }

Telling   == [asks |-> AllAsks, fetches |-> 0, days |-> 1, deeds |-> {"seat"}]
Scrolling == [asks |-> {[kind |-> "deletion", cents |-> 2000]}, fetches |-> 2, days |-> 2,
              deeds |-> {"delete"}]
Ageing    == [asks |-> {[kind |-> "expense"]}, fetches |-> 2, days |-> 4,
              deeds |-> {"read"}]
AllScenes == {Telling, Scrolling, Ageing}
=============================================================================
