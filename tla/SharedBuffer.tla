---------------------------- MODULE SharedBuffer ----------------------------
(***************************************************************************)
(* What mapping a buffer promises: its cells are written by one side at a   *)
(* time.  The GPU writes while it holds the buffer; a program that asked    *)
(* for it, and was granted it, writes until it gives it back; the change of *)
(* hands itself alters nothing.                                             *)
(***************************************************************************)
CONSTANTS Cells, Values, Zero

VARIABLES
  content,  \* [Cells -> Values] as seen by whoever holds the buffer
  holder    \* "nobody" (no buffer), "gpu", "between" (asked for), "program"

Blank == [c \in Cells |-> Zero]

Init == content = Blank /\ holder = "nobody"

Create ==
  /\ holder = "nobody" /\ holder' \in {"gpu", "program"}
  /\ UNCHANGED content

\* The side that holds the buffer writes a cell.
Write ==
  /\ holder \in {"gpu", "program"}
  /\ \E c \in Cells, v \in Values : content' = [content EXCEPT ![c] = v]
  /\ UNCHANGED holder

ChangeHands ==
  /\ <<holder, holder'>> \in {<<"gpu", "between">>, <<"between", "program">>,
                              <<"between", "gpu">>, <<"program", "gpu">>}
  /\ UNCHANGED content

Destroy ==
  /\ holder # "nobody" /\ holder' = "nobody" /\ content' = Blank

Next == Create \/ Write \/ ChangeHands \/ Destroy

Spec == Init /\ [][Next]_<<content, holder>>
=============================================================================
