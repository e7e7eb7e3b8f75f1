----------------------------- MODULE LatestWins -----------------------------
(***************************************************************************)
(* What ordering by event time promises, with no database and no handlers. *)
(* Every key has a board.  Messages are merged in any order, each at most  *)
(* once, and after every merge the board shows a message none merged for   *)
(* that key is newer than.  Between messages with one stamp the promise    *)
(* leaves the choice open.                                                 *)
(***************************************************************************)
EXTENDS Naturals

CONSTANTS
  Keys,         (* one board each                                          *)
  Ids,          (* identities of messages                                  *)
  Stamps,       (* times messages carry                                    *)
  Contents,     (* what a board can show                                   *)
  Content(_)    (* what the message with an identity says                  *)

VARIABLES
  merged,       (* merged[k]: the messages merged into the board of k      *)
  shown         (* shown[k]: the stamp and content the board of k shows    *)

boardVars == <<merged, shown>>

Message == [evt : Ids, at : Stamps]

(* The messages of M that none in M is newer than.                         *)
Newest(M) == {m \in M : \A n \in M : n.at <= m.at}

Init ==
  /\ merged = [k \in Keys |-> {}]
  /\ \E first \in [Keys -> Contents] :
       shown = [k \in Keys |-> [stamp |-> 0, content |-> first[k]]]

Merge(k, m) ==
  /\ \A n \in merged[k] : n.evt # m.evt
  /\ merged' = [merged EXCEPT ![k] = @ \cup {m}]
  /\ \E n \in Newest(merged'[k]) :
       shown' = [shown EXCEPT ![k] = [stamp |-> n.at, content |-> Content(n.evt)]]

Next == \E k \in Keys, m \in Message : Merge(k, m)

Spec == Init /\ [][Next]_boardVars
=============================================================================
