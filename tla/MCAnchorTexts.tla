--------------------------- MODULE MCAnchorTexts ---------------------------
(***************************************************************************)
(* AnchorHistory on timestamp texts whose order as strings is not the      *)
(* order of what they denote: a fractional second sorts before the whole   *)
(* second it extends, and a text outside the timestamp profile sorts like  *)
(* any other.                                                              *)
(***************************************************************************)
EXTENDS AnchorHistory

CONSTANTS r1, p1, v1

\* "T00:00:00.5Z" < "T00:00:00Z" < "T00:00:01+00:00" < "T00:00:01Z"
MCTimes    == {"00.5Z", "00Z", "01+00:00", "01Z"}
MCTimeRank == [t \in Times |->
  CASE t = "00.5Z" -> 1 [] t = "00Z" -> 2 [] t = "01+00:00" -> 3 [] t = "01Z" -> 4]
MCOutside  == -1
MCInstant  == [t \in Times |->
  CASE t \in {"00.5Z", "00Z"} -> 0 [] t = "01Z" -> 1 [] OTHER -> OutsideProfile]

MCOffsetRank == [o \in Offsets |-> o]
=============================================================================
